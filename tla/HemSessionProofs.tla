-------------------------- MODULE HemSessionProofs --------------------------
(***************************************************************************)
(* Type correctness and safety of the session engine, for every set of     *)
(* scopes, every lifetime, skew and clock offset, and with no bound on     *)
(* time.                                                                   *)
(*                                                                         *)
(* Types come first: one lemma per group of variables, one step per        *)
(* action.  The flags are kept apart, because Zenon reasons about          *)
(* Boolean-valued variables and the SMT backend about the integers,        *)
(* functions and records of the other groups.                              *)
(*                                                                         *)
(* The inductive invariant SafetyInv then joins what each part needs of    *)
(* the others: that in_checkin is exact needs to know which activation a   *)
(* check-in runs under (Nesting), and that a call is executed at most once *)
(* needs to know that nothing else runs once the request path has          *)
(* returned.                                                               *)
(***************************************************************************)
EXTENDS SessionPath, TLAPS

-----------------------------------------------------------------------------
(* What replies and failures are made of                                   *)

\* The status that belongs to a code, wherever the code was made
Fits(code, http) ==
  /\ code \in {"UNREACHABLE", "AUTH_EXPIRED", "NETWORK", "USER_REJECTED",
               "CONFIRM_TIMEOUT", "NOMEM"} => http = 0
  /\ code = "AUTH_FAILED" => http = 401
  /\ code = "SCOPE_DENIED" => http = 403
  /\ code = "NOT_FOUND" => http = 404
  /\ code = "DEVICE" => http = 406 \/ http = 500
  /\ code = "PROTOCOL" => http = 0 \/ http = 200 \/ http = 202

\* Some reply, with a code and the status that belongs to it, is read by the
\* activation f
Delivered(f) ==
  \E r \in Replies, code \in Codes, http \in Statuses :
    Fits(code, http) /\ Deliver(f, r, code, http)

\* Every status and verdict make a last_error.
LEMMA ErrTyped == ASSUME NEW h \in Statuses, NEW e \in BOOLEAN PROVE Err(h, e) \in Errs
BY Zenon DEF Err, Errs

\* The cleared last_error, and the one that reports an expired certificate.
LEMMA NoErrTyped == NoErr \in Errs /\ Err(0, TRUE) \in Errs
<1>1. 0 \in Statuses
  BY DEF Statuses
<1> QED
  BY <1>1, ErrTyped, Zenon DEF NoErr

\* A reply maps to a code of ehem_rc and to a status that last_error can hold.
LEMMA ReplyTypes ==
  ASSUME NEW r \in Replies
  PROVE  /\ RawCode(r) \in Codes /\ JsonCode(r) \in Codes
         /\ RawHttp(r) \in Statuses /\ JsonHttp(r) \in Statuses
         /\ MapStatus(r.status) \in Codes
BY DEF Replies, RawCode, JsonCode, RawHttp, JsonHttp, MapStatus, Codes, Statuses, Bodies

\* The same through a binding's own parsing.
LEMMA OpTypes ==
  ASSUME NEW r \in Replies
  PROVE OpCode(r) \in Codes /\ OpHttp(r) \in Statuses
<1>1. "PROTOCOL" \in Codes BY DEF Codes
<1> QED
  BY <1>1, ReplyTypes, Zenon DEF OpCode, OpHttp

\* Code and recorded status of a reply belong together, however it is parsed.
LEMMA ReplyFits ==
  ASSUME NEW r \in Replies
  PROVE  /\ Fits(RawCode(r), RawHttp(r)) /\ Fits(JsonCode(r), JsonHttp(r))
         /\ Fits(MapStatus(r.status), r.status) /\ Fits(OpCode(r), OpHttp(r))
<1>1. r.status \in Statuses /\ r.body \in Bodies
  BY DEF Replies
<1>2. Fits(MapStatus(r.status), r.status)
  BY <1>1 DEF Fits, MapStatus, Statuses
<1>3. /\ Fits("PROTOCOL", 0) /\ Fits("PROTOCOL", 200) /\ Fits("PROTOCOL", 202)
      /\ \A h : Fits("OK", h)
  BY DEF Fits
<1>4. Fits(RawCode(r), RawHttp(r))
  BY <1>1, <1>2, <1>3 DEF RawCode, RawHttp, Statuses
<1>5. Fits(JsonCode(r), JsonHttp(r))
  BY <1>3, <1>4, Zenon DEF JsonCode, JsonHttp
<1>6. JsonCode(r) = "OK" /\ r.body = "nofield" => JsonHttp(r) \in {200, 202}
  BY <1>1 DEF JsonCode, RawCode, JsonHttp, RawHttp, MapStatus, Statuses
<1>7. Fits(OpCode(r), OpHttp(r))
  <2>1. CASE call.kind \in Empty200Kinds
    BY <1>4, <2>1, Zenon DEF OpCode, OpHttp
  <2>2. CASE call.kind \notin Empty200Kinds /\ JsonCode(r) = "OK" /\ r.body = "nofield"
    <3>1. OpCode(r) = "PROTOCOL" /\ OpHttp(r) = JsonHttp(r)
      BY <2>2, Zenon DEF OpCode, OpHttp
    <3>2. OpHttp(r) \in {200, 202}
      BY <1>6, <2>2, <3>1, Zenon
    <3> QED
      BY <1>3, <3>1, <3>2, SMT
  <2>3. CASE call.kind \notin Empty200Kinds /\ ~(JsonCode(r) = "OK" /\ r.body = "nofield")
    BY <1>5, <2>3, Zenon DEF OpCode, OpHttp
  <2> QED
    BY <2>1, <2>2, <2>3, Zenon
<1> QED
  BY <1>2, <1>4, <1>5, <1>7, Zenon

\* The malformed answers of the device and the cloud are replies.
LEMMA GarbageTypes == Garbage \union {Reply(403, "json")} \subseteq Replies
BY DEF Garbage, Reply, Replies, Statuses, Bodies

\* Every answer without its fields came with status 200.
LEMMA NoFieldStatus == \A r \in Garbage : r.body = "nofield" => JsonHttp(r) = 200
BY DEF Garbage, Reply, JsonHttp, RawHttp, RawCode, MapStatus

\* A failed ensure_token leaves well-typed state behind.
LEMMA FailEnsureTypes ==
  ASSUME TypeOK, NEW code \in Codes, NEW e \in Errs, FailEnsure(code, e)
  PROVE /\ rc' \in Codes /\ err' \in Errs
        /\ rpc' \in [Frames -> RequestPcs] /\ apc' \in AuthPcs
        /\ nowA' \in Int /\ granted' \in Int
<1>1. /\ rc' = code /\ err' = e
      /\ rpc' = [rpc EXCEPT !["op"] = "ret", !["auth"] = "idle"]
      /\ apc' = "idle" /\ nowA' = 0 /\ granted' = 0
  BY Zenon DEF FailEnsure, EndEnsure
<1>3. err' \in Errs
  BY <1>1, Zenon
<1>4. rc' \in Codes /\ rpc' \in [Frames -> RequestPcs] /\ apc' \in AuthPcs
      /\ nowA' \in Int /\ granted' \in Int
  BY <1>1 DEF TypeOK, FrameType, RequestPcs, AuthPcs, Frames
<1> QED
  BY <1>3, <1>4, Zenon

\* Reading a reply leaves well-typed state behind, whatever the reply.
LEMMA DeliverTypes ==
  ASSUME TypeOK, NEW f, NEW r, NEW code \in Codes, NEW http \in Statuses,
         Deliver(f, r, code, http)
  PROVE /\ certRefreshed' \in BOOLEAN /\ rc' \in Codes /\ err' \in Errs
        /\ rpc' \in [Frames -> RequestPcs] /\ cache' \in [Scopes -> Int] /\ bearer' \in Int
<1>1. certRefreshed' \in BOOLEAN
  BY Zenon DEF TypeOK, FlagType, Deliver, RefreshProven
<1>2. /\ rpc' = [rpc EXCEPT ![f] = "ensure2"] \/ rpc' = [rpc EXCEPT ![f] = "ret"]
      /\ rc' = rc \/ rc' = code
      /\ err' = err \/ err' = Err(http, FALSE)
      /\ cache' = cache \/ cache' = [cache EXCEPT ![call.scope] = Absent]
      /\ bearer' = bearer \/ bearer' = Absent
  BY Zenon DEF Deliver
<1>3. err' \in Errs
  BY <1>2, ErrTyped, Zenon DEF TypeOK, CtxType
<1>4. rpc' \in [Frames -> RequestPcs] /\ rc' \in Codes
  BY <1>2 DEF TypeOK, FrameType, RequestPcs
<1>5. cache' \in [Scopes -> Int] /\ bearer' \in Int
  BY <1>2 DEF TypeOK, AuthType, LocalType, Absent
<1> QED
  BY <1>1, <1>3, <1>4, <1>5, Zenon

\* Every answer to a binding's request is the delivery of one reply.
LEMMA OpReplyDelivers ==
  OpReply => Delivered("op")
<1> SUFFICES ASSUME OpReply PROVE Delivered("op")
  OBVIOUS
<1>1. Success \in Replies
  BY DEF Success, Reply, Replies, Statuses, Bodies
<1>2. \A b \in {"empty", "bad", "nofield"} : Reply(200, b) \in Replies
  BY DEF Reply, Replies, Statuses, Bodies
<1>3. \A st \in {401, 403, 404, 406, 500} :
        Reply(st, "json") \in Replies /\ MapStatus(st) \in Codes /\ st \in Statuses
  BY DEF Reply, Replies, Bodies, MapStatus, Codes, Statuses
<1>4. MapStatus(401) = "AUTH_FAILED"
  BY DEF MapStatus
<1>5. \/ Deliver("op", Success, OpCode(Success), OpHttp(Success))
      \/ \E st \in {401, 403, 404, 406, 500} :
           Deliver("op", Reply(st, "json"), MapStatus(st), st)
      \/ \E b \in {"empty", "bad", "nofield"} :
           Deliver("op", Reply(200, b), OpCode(Reply(200, b)), OpHttp(Reply(200, b)))
  BY <1>4, SMT DEF OpReply
<1>6. \A st \in {401, 403, 404, 406, 500} : Fits(MapStatus(st), st)
  BY DEF Fits, MapStatus
<1>7. \/ \E r \in Replies : Deliver("op", r, OpCode(r), OpHttp(r))
      \/ \E r \in Replies, st \in Statuses :
           /\ MapStatus(st) \in Codes /\ Fits(MapStatus(st), st)
           /\ Deliver("op", r, MapStatus(st), st)
  BY <1>1, <1>2, <1>3, <1>5, <1>6, SMT
<1> QED
  BY <1>7, OpTypes, ReplyFits, Zenon DEF Delivered

\* So is every answer to a challenge GET or token POST,
LEMMA AuthReplyDelivers ==
  ChallengeReply \/ TokenReply => Delivered("auth")
<1>1. /\ Reply(200, "json") \in Replies
      /\ Reply(403, "json") \in Replies /\ Reply(401, "json") \in Replies
  BY DEF Reply, Replies, Statuses, Bodies
<1>2. Garbage \subseteq Replies
  BY GarbageTypes
<1>3. /\ "OK" \in Codes /\ "AUTH_FAILED" \in Codes
      /\ "SCOPE_DENIED" \in Codes /\ "PROTOCOL" \in Codes
      /\ 0 \in Statuses /\ 401 \in Statuses /\ 403 \in Statuses
  BY DEF Codes, Statuses
<1>4. \A r \in Garbage : /\ (IF r.body = "nofield" THEN "PROTOCOL" ELSE JsonCode(r)) \in Codes
                         /\ (IF r.body = "nofield" THEN 0 ELSE JsonHttp(r)) \in Statuses
                         /\ JsonHttp(r) \in Statuses
  BY <1>2, <1>3, ReplyTypes, Zenon
<1>5. /\ Fits("OK", 0) /\ Fits("SCOPE_DENIED", 403) /\ Fits("AUTH_FAILED", 401)
      /\ Fits("PROTOCOL", 0) /\ Fits("PROTOCOL", 200)
  BY DEF Fits
<1>6. \A r \in Garbage :
        /\ Fits(IF r.body = "nofield" THEN "PROTOCOL" ELSE JsonCode(r),
                IF r.body = "nofield" THEN 0 ELSE JsonHttp(r))
        /\ Fits(IF r.body = "nofield" THEN "PROTOCOL" ELSE JsonCode(r), JsonHttp(r))
  <2> TAKE r \in Garbage
  <2>1. CASE r.body = "nofield"
    BY <1>5, <2>1, NoFieldStatus, SMT
  <2>2. CASE r.body # "nofield"
    BY <1>2, <2>2, ReplyFits, Zenon
  <2> QED
    BY <2>1, <2>2, Zenon
<1>7. ChallengeReply => Delivered("auth")
  BY <1>1, <1>2, <1>3, <1>4, <1>5, <1>6, ZenonT(60) DEF Delivered, ChallengeReply
<1>8. TokenReply => Delivered("auth")
  BY <1>1, <1>2, <1>3, <1>4, <1>5, <1>6, ZenonT(60) DEF Delivered, TokenReply
<1> QED
  BY <1>7, <1>8, Zenon

\* and every answer to a check-in leg.
LEMMA LegReplyDelivers ==
  LegReply => Delivered("leg")
<1>1. Reply(200, "json") \in Replies
  BY DEF Reply, Replies, Statuses, Bodies
<1>2. "OK" \in Codes /\ 0 \in Statuses /\ Fits("OK", 0)
  BY DEF Codes, Statuses, Fits
<1>3. \A r \in Replies :
        /\ (IF cpc = 3 THEN JsonCode(r) ELSE RawCode(r)) \in Codes
        /\ (IF cpc = 3 THEN JsonHttp(r) ELSE RawHttp(r)) \in Statuses
        /\ Fits(IF cpc = 3 THEN JsonCode(r) ELSE RawCode(r),
                IF cpc = 3 THEN JsonHttp(r) ELSE RawHttp(r))
  BY ReplyTypes, ReplyFits, Zenon
<1>4. LegReply =>
        \/ \E r \in Replies : Deliver("leg", r, "OK", 0)
        \/ \E r \in Replies :
             Deliver("leg", r, IF cpc = 3 THEN JsonCode(r) ELSE RawCode(r),
                               IF cpc = 3 THEN JsonHttp(r) ELSE RawHttp(r))
  BY <1>1, GarbageTypes, SMT DEF LegReply
<1>5. \A r \in Replies : Deliver("leg", r, "OK", 0) => Delivered("leg")
  BY <1>2, Zenon DEF Delivered
<1>6. ASSUME NEW r \in Replies,
             Deliver("leg", r, IF cpc = 3 THEN JsonCode(r) ELSE RawCode(r),
                               IF cpc = 3 THEN JsonHttp(r) ELSE RawHttp(r))
      PROVE  Delivered("leg")
  BY <1>3, <1>6, Zenon DEF Delivered
<1> QED
  BY <1>4, <1>5, <1>6, Zenon

\* What the four kinds of answer have in common.
LEMMA RepliedTypes ==
  ASSUME TypeOK, OpReply \/ ChallengeReply \/ TokenReply \/ LegReply
  PROVE  /\ certRefreshed' \in BOOLEAN /\ rc' \in Codes /\ err' \in Errs
         /\ rpc' \in [Frames -> RequestPcs] /\ cache' \in [Scopes -> Int] /\ bearer' \in Int
<1>1. \E f \in Frames : Delivered(f)
  <2>1. "op" \in Frames /\ "auth" \in Frames /\ "leg" \in Frames
    BY DEF Frames
  <2> QED
    BY <2>1, OpReplyDelivers, AuthReplyDelivers, LegReplyDelivers, Zenon
<1> QED
  BY <1>1, DeliverTypes, Zenon DEF Delivered

\* The steps after a recovery check-in of ensure_token.
LEMMA RecheckTypes ==
  ASSUME TypeOK, RtcCheckinDone \/ DriftCheckinDone
  PROVE  /\ rc' \in Codes /\ err' \in Errs
         /\ rpc' \in [Frames -> RequestPcs] /\ apc' \in AuthPcs
         /\ nowA' \in Int /\ granted' \in Int
<1>1. CASE rc = "OK"
  <2>1. /\ rc' = rc /\ err' = err /\ granted' = granted
        /\ rpc' = [rpc EXCEPT !["auth"] = "send"]
        /\ apc' = "reget" \/ apc' = "get"
        /\ nowA' = nowA \/ nowA' = now
    <3>1. CASE RtcCheckinDone
      BY <1>1, <3>1, Zenon DEF RtcCheckinDone
    <3>2. CASE DriftCheckinDone
      BY <1>1, <3>2, ZenonT(60) DEF DriftCheckinDone
    <3> QED
      BY <3>1, <3>2, Zenon
  <2> QED
    <3>1. err' \in Errs
      BY <2>1, Zenon DEF TypeOK, CtxType
    <3>2. rc' \in Codes /\ rpc' \in [Frames -> RequestPcs] /\ apc' \in AuthPcs
      BY <2>1 DEF TypeOK, FrameType, AuthPcs, RequestPcs
    <3>3. nowA' \in Int /\ granted' \in Int
      BY <2>1 DEF TypeOK, LocalType, DeviceType, HistoryType
    <3> QED
      BY <3>1, <3>2, <3>3, Zenon
<1>2. CASE rc # "OK"
  <2>1. /\ "SCOPE_DENIED" \in Codes /\ 403 \in Statuses
        /\ "AUTH_FAILED" \in Codes /\ 401 \in Statuses
    BY DEF Codes, Statuses
  <2>2. PICK code \in Codes, e \in Errs : FailEnsure(code, e)
    <3>1. Err(403, FALSE) \in Errs /\ Err(401, FALSE) \in Errs
      BY DEF Err, Errs, Statuses
    <3>2. CASE RtcCheckinDone
      BY <1>2, <2>1, <3>1, <3>2 DEF RtcCheckinDone
    <3>3. CASE DriftCheckinDone
      BY <1>2, <2>1, <3>1, <3>3 DEF DriftCheckinDone
    <3> QED
      BY <3>2, <3>3, Zenon
  <2> QED
    BY <2>2, FailEnsureTypes, Zenon
<1> QED
  BY <1>1, <1>2, Zenon

\* A failed push confirmation fails ensure_token with a code and an error.
LEMMA ConfirmFailureTypes ==
  ASSUME ConfirmFailed
  PROVE  \E code \in Codes \ {"OK"}, e \in Errs : FailEnsure(code, e)
<1>1. \A x \in ConfirmFailures : x.code \in Codes \ {"OK"} /\ x.http \in Statuses
  BY DEF ConfirmFailures, Codes, Statuses
<1>2. "NETWORK" \in Codes \ {"OK"} /\ "AUTH_FAILED" \in Codes \ {"OK"}
  BY DEF Codes
<1>3. CASE \E x \in ConfirmFailures : FailEnsure(x.code, Err(x.http, FALSE))
  BY <1>1, <1>3, ErrTyped, Zenon
<1>4. CASE FailEnsure("NETWORK", Err(0, TRUE))
  BY <1>2, <1>4, NoErrTyped, Zenon
<1>5. CASE \E e \in Errs : FailEnsure("AUTH_FAILED", e)
  BY <1>2, <1>5, Zenon
<1> QED
  BY <1>3, <1>4, <1>5, Zenon DEF ConfirmFailed

\* The push confirmation, succeeding or failing.
LEMMA MobileTypes ==
  ASSUME TypeOK, MobileConfirm
  PROVE  /\ rc' \in Codes /\ err' \in Errs
         /\ rpc' \in [Frames -> RequestPcs] /\ apc' \in AuthPcs
         /\ nowA' \in Int /\ granted' \in Int
         /\ cache' \in [Scopes -> Int] /\ bearer' \in Int
         /\ off' \in Offsets /\ live' \subseteq Scopes \union {NoScope} /\ checkins' \in 0..3
<1>1. off' \in Offsets
  <2>1. off' = 0 \/ off' = off
    BY Zenon DEF MobileConfirm, Repaired, NotRepaired
  <2> QED
    BY <2>1, SessionAssumption DEF TypeOK, DeviceType
<1>2. checkins' \in 0..3
  <2>1. checkins' = Bump(checkins) \/ checkins' = checkins
    BY Zenon DEF MobileConfirm
  <2> QED
    BY <2>1 DEF TypeOK, HistoryType, Bump
<1>3. \/ /\ \E life \in Lives :
               /\ cache' = [cache EXCEPT ![call.scope] = now + off' + life - Skew]
               /\ bearer' = now + off' + life - Skew
         /\ live' = live \union {call.scope}
         /\ EndEnsure /\ rpc' = [rpc EXCEPT !["op"] = AfterEnsure]
         /\ err' \in {NoErr, IF rtcSet THEN NoErr ELSE Err(403, FALSE)} /\ rc' = rc
      \/ /\ ConfirmFailed
         /\ cache' = cache /\ bearer' = bearer /\ live' = live
  BY Zenon DEF MobileConfirm
<1>4. CASE /\ \E life \in Lives :
               /\ cache' = [cache EXCEPT ![call.scope] = now + off' + life - Skew]
               /\ bearer' = now + off' + life - Skew
           /\ live' = live \union {call.scope}
           /\ EndEnsure /\ rpc' = [rpc EXCEPT !["op"] = AfterEnsure]
           /\ err' \in {NoErr, IF rtcSet THEN NoErr ELSE Err(403, FALSE)} /\ rc' = rc
  <2>1. apc' = "idle" /\ nowA' = 0 /\ granted' = 0
    BY <1>4, Zenon DEF EndEnsure
  <2>2. AfterEnsure \in RequestPcs
    BY DEF AfterEnsure, RequestPcs
  <2>3. rpc' \in [Frames -> RequestPcs] /\ rc' \in Codes
    BY <1>4, <2>2 DEF TypeOK, FrameType
  <2>4. err' \in Errs
    <3>1. NoErr \in Errs /\ Err(403, FALSE) \in Errs
      BY NoErrTyped DEF Err, Errs, Statuses
    <3>2. err' = NoErr \/ err' = Err(403, FALSE)
      BY <1>4
    <3> QED
      BY <3>1, <3>2, Zenon
  <2>5. cache' \in [Scopes -> Int] /\ bearer' \in Int
    <3>1. PICK life \in Lives :
            /\ cache' = [cache EXCEPT ![call.scope] = now + off' + life - Skew]
            /\ bearer' = now + off' + life - Skew
      BY <1>4, Zenon
    <3>2. now + off' + life - Skew \in Int
      BY <1>1, SessionAssumption DEF TypeOK, DeviceType
    <3> QED
      BY <3>1, <3>2 DEF TypeOK, AuthType
  <2>6. live' \subseteq Scopes \union {NoScope}
    BY <1>4 DEF TypeOK, DeviceType, FrameType
  <2>7. apc' \in AuthPcs /\ nowA' \in Int /\ granted' \in Int
    BY <2>1 DEF AuthPcs
  <2> QED
    BY <1>1, <1>2, <2>3, <2>4, <2>5, <2>6, <2>7, Zenon
<1>5. CASE /\ ConfirmFailed
           /\ cache' = cache /\ bearer' = bearer /\ live' = live
  <2>1. PICK code \in Codes, e \in Errs : FailEnsure(code, e)
    BY <1>5, ConfirmFailureTypes, Zenon
  <2>3. /\ cache' \in [Scopes -> Int] /\ bearer' \in Int
        /\ live' \subseteq Scopes \union {NoScope}
    BY <1>5 DEF TypeOK, AuthType, LocalType, DeviceType
  <2> QED
    BY <1>1, <1>2, <2>1, <2>3, FailEnsureTypes, Zenon
<1> QED
  BY <1>3, <1>4, <1>5, Zenon

\* cert_refreshed stays Boolean when a reply is read.
LEMMA DeliverFlag ==
  ASSUME FlagType, NEW f, NEW r, NEW code, NEW http, Deliver(f, r, code, http)
  PROVE  certRefreshed' \in BOOLEAN
BY Zenon DEF FlagType, Deliver, RefreshProven

\* So do all flags, over the four kinds of answer.
LEMMA ReplyFlags ==
  ASSUME FlagType, OpReply \/ ChallengeReply \/ TokenReply \/ LegReply
  PROVE  FlagType'
<1>1. CASE OpReply
  <2>1. certRefreshed' \in BOOLEAN
    BY <1>1, OpReplyDelivers, DeliverFlag, Zenon DEF Delivered
  <2>2. rtcSet' \in BOOLEAN /\ disturbed' \in BOOLEAN
    BY <1>1, ZenonT(60) DEF OpReply, Executed, NotExecuted, FlagType
  <2> QED
    BY <1>1, <2>1, <2>2, Zenon DEF OpReply, FlagType
<1>2. CASE ChallengeReply
  <2>1. certRefreshed' \in BOOLEAN
    BY <1>2, AuthReplyDelivers, DeliverFlag, Zenon DEF Delivered
  <2>2. drift' \in BOOLEAN /\ disturbed' \in BOOLEAN
    BY <1>2, Zenon DEF ChallengeReply, DriftEvident, FlagType
  <2> QED
    BY <1>2, <2>1, <2>2, Zenon DEF ChallengeReply, FlagType, deviceVars
<1>3. CASE TokenReply
  <2>1. certRefreshed' \in BOOLEAN
    BY <1>3, AuthReplyDelivers, DeliverFlag, Zenon DEF Delivered
  <2> QED
    BY <1>3, <2>1, Zenon DEF TokenReply, FlagType
<1>4. CASE LegReply
  <2>1. certRefreshed' \in BOOLEAN
    BY <1>4, LegReplyDelivers, DeliverFlag, Zenon DEF Delivered
  <2> QED
    BY <1>4, <2>1, Zenon DEF LegReply, Repaired, NotRepaired, FlagType
<1> QED
  BY <1>1, <1>2, <1>3, <1>4, Zenon

-----------------------------------------------------------------------------
(* One lemma per group of variables                                        *)

\* The flags stay Boolean: in_checkin, cert_refreshed and the rest.
LEMMA FlagStep == TypeOK /\ [Next]_vars => FlagType'
<1> USE DEF ctxVars, authVars, frameVars, localVars, deviceVars, historyVars
<1>1. ASSUME FlagType, NEW p \in {"right", "wrong"}, Login(p) PROVE FlagType'
  BY <1>1, Zenon DEF Login, FlagType
<1>2. ASSUME FlagType, LoginMobile PROVE FlagType'
  BY <1>2, Zenon DEF LoginMobile, FlagType
<1>3. ASSUME FlagType, Logout PROVE FlagType'
  BY <1>3, Zenon DEF Logout, FlagType
<1>4. ASSUME FlagType, NEW k \in CallKinds, NEW s \in Scopes \union {NoScope}, Begin(k, s)
     PROVE  FlagType'
  BY <1>4, Zenon DEF Begin, StartCheckin, NoCheckin, FlagType
<1>5. ASSUME FlagType, Finish PROVE FlagType'
  BY <1>5, Zenon DEF Finish, FlagType
<1>6. ASSUME FlagType, LegReturned PROVE FlagType'
  BY <1>6, Zenon DEF LegReturned, EndCheckin, FlagType
<1>7. ASSUME FlagType, EnsureHit PROVE FlagType'
  BY <1>7, Zenon DEF EnsureHit, FlagType
<1>8. ASSUME FlagType, EnsureNoCredential PROVE FlagType'
  BY <1>8, Zenon DEF EnsureNoCredential, FailEnsure, EndEnsure, FlagType
<1>9. ASSUME FlagType, EnsureMiss PROVE FlagType'
  BY <1>9, Zenon DEF EnsureMiss, StartCheckin, NoCheckin, StartAcquire, FlagType
<1>10. ASSUME FlagType, ProactiveDone PROVE FlagType'
  BY <1>10, Zenon DEF ProactiveDone, StartAcquire, FlagType
<1>11. ASSUME FlagType, ChallengeReturned PROVE FlagType'
  BY <1>11, Zenon
     DEF ChallengeReturned, StartRecovery, StartCheckin, NoCheckin, EndEnsure,
         FlagType
<1>12. ASSUME FlagType, RtcCheckinDone PROVE FlagType'
  BY <1>12, Zenon DEF RtcCheckinDone, FailEnsure, EndEnsure, FlagType
<1>13. ASSUME FlagType, TokenReturned PROVE FlagType'
  BY <1>13, Zenon
     DEF TokenReturned, StartRecovery, StartCheckin, NoCheckin, EndEnsure, FlagType
<1>14. ASSUME FlagType, DriftCheckinDone PROVE FlagType'
  BY <1>14, Zenon DEF DriftCheckinDone, FailEnsure, EndEnsure, FlagType
<1>15. ASSUME FlagType, NEW f \in {"op", "auth"}, CertCheckinDone(f) PROVE FlagType'
  BY <1>15, Zenon DEF CertCheckinDone, Fail, FlagType
<1>16. ASSUME FlagType, NEW f \in Frames, SendUnreachable(f) PROVE FlagType'
  BY <1>16, Zenon DEF SendUnreachable, Fail, FlagType
<1>17. ASSUME FlagType, NEW f \in Frames, SendLost(f) PROVE FlagType'
  BY <1>17, Zenon DEF SendLost, Fail, NotExecuted, Executed, Repaired, FlagType
<1>18. ASSUME FlagType, NEW f \in Frames, SendExpired(f) PROVE FlagType'
  BY <1>18, Zenon DEF SendExpired, Fail, StartCheckin, NoCheckin, FlagType
<1>19. ASSUME FlagType, OpReply PROVE FlagType'
  BY <1>19, ReplyFlags, Zenon
<1>20. ASSUME FlagType, ChallengeReply PROVE FlagType'
  BY <1>20, ReplyFlags, Zenon
<1>21. ASSUME FlagType, TokenReply PROVE FlagType'
  BY <1>21, ReplyFlags, Zenon
<1>22. ASSUME FlagType, LegReply PROVE FlagType'
  BY <1>22, ReplyFlags, Zenon
<1>23. ASSUME FlagType, MobileConfirm PROVE FlagType'
  BY <1>23, ZenonT(60) DEF MobileConfirm, Repaired, NotRepaired, EndEnsure, ConfirmFailed, FailEnsure, FlagType
<1>24. ASSUME FlagType, Tick PROVE FlagType'
  BY <1>24, Zenon DEF Tick, FlagType
<1>25. ASSUME FlagType, Restart PROVE FlagType'
  BY <1>25, Zenon DEF Restart, FlagType
<1>26. ASSUME FlagType, CertExpires PROVE FlagType'
  BY <1>26, Zenon DEF CertExpires, FlagType
<1>27. ASSUME FlagType, NEW o \in Offsets, ClockDrifts(o) PROVE FlagType'
  BY <1>27, Zenon DEF ClockDrifts, FlagType
<1>28. ASSUME FlagType, UNCHANGED vars PROVE FlagType'
  BY <1>28, Zenon DEF vars, FlagType
<1> QED
  BY <1>1, <1>2, <1>3, <1>4, <1>5, <1>6, <1>7, <1>8, <1>9, <1>10, <1>11, <1>12,
     <1>13, <1>14, <1>15, <1>16, <1>17, <1>18, <1>19, <1>20, <1>21, <1>22, <1>23,
     <1>24, <1>25, <1>26, <1>27, <1>28
     DEF TypeOK, Next, Client, Exchange, User, World

\* last_error holds a status the code can record.
LEMMA CtxStep == TypeOK /\ [Next]_vars => CtxType'
<1> USE DEF ctxVars, authVars, frameVars, localVars, deviceVars, historyVars
<1>1. ASSUME CtxType, NEW p \in {"right", "wrong"}, Login(p) PROVE CtxType'
  BY <1>1, SMT DEF Login, CtxType, NoErr, Err, Errs, Statuses
<1>2. ASSUME CtxType, LoginMobile PROVE CtxType'
  BY <1>2, SMT DEF LoginMobile, CtxType, NoErr, Err, Errs, Statuses
<1>3. ASSUME CtxType, Logout PROVE CtxType'
  BY <1>3, SMT DEF Logout, CtxType, NoErr, Err, Errs, Statuses
<1>4. ASSUME CtxType, NEW k \in CallKinds, NEW s \in Scopes \union {NoScope}, Begin(k, s)
     PROVE  CtxType'
  BY <1>4, SMT DEF Begin, StartCheckin, NoCheckin, CtxType, NoErr, Err, Errs, Statuses
<1>5. ASSUME TypeOK, Finish PROVE CtxType'
  <2>1. err' = err \/ err' = NoErr
    BY <1>5, Zenon DEF Finish, BindingErr
  <2> QED
    BY <1>5, <2>1, NoErrTyped, Zenon DEF Finish, TypeOK, CtxType
<1>6. ASSUME CtxType, LegReturned PROVE CtxType'
  BY <1>6, SMT DEF LegReturned, EndCheckin, CtxType, NoErr, Err, Errs, Statuses
<1>7. ASSUME CtxType, EnsureHit PROVE CtxType'
  BY <1>7, SMT DEF EnsureHit, CtxType, NoErr, Err, Errs, Statuses
<1>8. ASSUME CtxType, EnsureNoCredential PROVE CtxType'
  BY <1>8, SMT
     DEF EnsureNoCredential, FailEnsure, EndEnsure, CtxType, NoErr, Err, Errs,
         Statuses
<1>9. ASSUME CtxType, EnsureMiss PROVE CtxType'
  BY <1>9, SMT
     DEF EnsureMiss, StartCheckin, NoCheckin, StartAcquire, CtxType, NoErr, Err,
         Errs, Statuses
<1>10. ASSUME CtxType, ProactiveDone PROVE CtxType'
  BY <1>10, SMT DEF ProactiveDone, StartAcquire, CtxType, NoErr, Err, Errs, Statuses
<1>11. ASSUME CtxType, ChallengeReturned PROVE CtxType'
  BY <1>11, SMT
     DEF ChallengeReturned, StartRecovery, StartCheckin, NoCheckin, EndEnsure,
         CtxType, NoErr, Err, Errs, Statuses
<1>12. ASSUME TypeOK, RtcCheckinDone PROVE CtxType'
  <2>1. err' \in Errs
    BY <1>12, RecheckTypes, Zenon
  <2>2. opts' = opts
    BY <1>12, Zenon DEF RtcCheckinDone
  <2>3. CtxType
    BY <1>12, Zenon DEF TypeOK
  <2> QED
    BY <2>1, <2>2, <2>3, Zenon DEF CtxType
<1>13. ASSUME CtxType, TokenReturned PROVE CtxType'
  BY <1>13, SMT
     DEF TokenReturned, StartRecovery, StartCheckin, NoCheckin, EndEnsure, CtxType,
         NoErr, Err, Errs, Statuses
<1>14. ASSUME TypeOK, DriftCheckinDone PROVE CtxType'
  <2>1. err' \in Errs
    BY <1>14, RecheckTypes, Zenon
  <2>2. opts' = opts
    BY <1>14, Zenon DEF DriftCheckinDone
  <2>3. CtxType
    BY <1>14, Zenon DEF TypeOK
  <2> QED
    BY <2>1, <2>2, <2>3, Zenon DEF CtxType
<1>15. ASSUME TypeOK, NEW f \in {"op", "auth"}, CertCheckinDone(f) PROVE CtxType'
  <2>1. err' = err \/ err' = Err(0, TRUE)
    BY <1>15, Zenon DEF CertCheckinDone, Fail
  <2> QED
    BY <1>15, <2>1, NoErrTyped, Zenon DEF CertCheckinDone, TypeOK, CtxType
<1>16. ASSUME CtxType, NEW f \in Frames, SendUnreachable(f) PROVE CtxType'
  BY <1>16, SMT DEF SendUnreachable, Fail, CtxType, NoErr, Err, Errs, Statuses
<1>17. ASSUME CtxType, NEW f \in Frames, SendLost(f) PROVE CtxType'
  BY <1>17, SMT
     DEF SendLost, Fail, NotExecuted, Executed, Repaired, CtxType, NoErr, Err, Errs,
         Statuses
<1>18. ASSUME TypeOK, NEW f \in Frames, SendExpired(f) PROVE CtxType'
  <2>1. err' = err \/ err' = Err(0, TRUE) \/ err' = Err(0, FALSE)
    <3>1. (rpc[f] # "send2") = TRUE \/ (rpc[f] # "send2") = FALSE
      BY Zenon
    <3> QED
      BY <1>18, <3>1, Zenon DEF SendExpired, Fail
  <2> QED
    BY <1>18, <2>1, NoErrTyped, Zenon DEF SendExpired, TypeOK, CtxType, NoErr
<1>19. ASSUME TypeOK, OpReply PROVE CtxType'
  <2>1. err' \in Errs
    BY <1>19, RepliedTypes, Zenon
  <2>2. opts' = opts
    BY <1>19, Zenon DEF OpReply
  <2>3. CtxType
    BY <1>19, Zenon DEF TypeOK
  <2> QED
    BY <2>1, <2>2, <2>3, Zenon DEF CtxType
<1>20. ASSUME TypeOK, ChallengeReply PROVE CtxType'
  <2>1. err' \in Errs
    BY <1>20, RepliedTypes, Zenon
  <2>2. opts' = opts
    BY <1>20, Zenon DEF ChallengeReply
  <2>3. CtxType
    BY <1>20, Zenon DEF TypeOK
  <2> QED
    BY <2>1, <2>2, <2>3, Zenon DEF CtxType
<1>21. ASSUME TypeOK, TokenReply PROVE CtxType'
  <2>1. err' \in Errs
    BY <1>21, RepliedTypes, Zenon
  <2>2. opts' = opts
    BY <1>21, Zenon DEF TokenReply
  <2>3. CtxType
    BY <1>21, Zenon DEF TypeOK
  <2> QED
    BY <2>1, <2>2, <2>3, Zenon DEF CtxType
<1>22. ASSUME TypeOK, LegReply PROVE CtxType'
  <2>1. err' \in Errs
    BY <1>22, RepliedTypes, Zenon
  <2>2. opts' = opts
    BY <1>22, Zenon DEF LegReply
  <2>3. CtxType
    BY <1>22, Zenon DEF TypeOK
  <2> QED
    BY <2>1, <2>2, <2>3, Zenon DEF CtxType
<1>23. ASSUME TypeOK, MobileConfirm PROVE CtxType'
  <2>1. err' \in Errs
    BY <1>23, MobileTypes, Zenon
  <2>2. opts' = opts
    BY <1>23, Zenon DEF MobileConfirm
  <2>3. CtxType
    BY <1>23, Zenon DEF TypeOK
  <2> QED
    BY <2>1, <2>2, <2>3, Zenon DEF CtxType
<1>24. ASSUME CtxType, Tick PROVE CtxType'
  BY <1>24, SMT DEF Tick, CtxType, NoErr, Err, Errs, Statuses
<1>25. ASSUME CtxType, Restart PROVE CtxType'
  BY <1>25, SMT DEF Restart, CtxType, NoErr, Err, Errs, Statuses
<1>26. ASSUME CtxType, CertExpires PROVE CtxType'
  BY <1>26, SMT DEF CertExpires, CtxType, NoErr, Err, Errs, Statuses
<1>27. ASSUME CtxType, NEW o \in Offsets, ClockDrifts(o) PROVE CtxType'
  BY <1>27, SMT DEF ClockDrifts, CtxType, NoErr, Err, Errs, Statuses
<1>28. ASSUME CtxType, UNCHANGED vars PROVE CtxType'
  BY <1>28, SMT DEF vars, CtxType, NoErr, Err, Errs, Statuses
<1> QED
  BY <1>1, <1>2, <1>3, <1>4, <1>5, <1>6, <1>7, <1>8, <1>9, <1>10, <1>11, <1>12,
     <1>13, <1>14, <1>15, <1>16, <1>17, <1>18, <1>19, <1>20, <1>21, <1>22, <1>23,
     <1>24, <1>25, <1>26, <1>27, <1>28
     DEF TypeOK, Next, Client, Exchange, User, World

\* The session: a mode, a passphrase state and an expiry per scope.
LEMMA AuthStep == TypeOK /\ [Next]_vars => AuthType'
<1> USE DEF ctxVars, authVars, frameVars, localVars, deviceVars, historyVars
<1>1. ASSUME AuthType, LocalType, NEW p \in {"right", "wrong"}, Login(p) PROVE AuthType'
  BY <1>1, SessionAssumption, SMT
     DEF Login, AuthType, LocalType, NoTokens, PassAfterUse, Absent
<1>2. ASSUME AuthType, LocalType, LoginMobile PROVE AuthType'
  BY <1>2, SessionAssumption, SMT
     DEF LoginMobile, AuthType, LocalType, NoTokens, PassAfterUse, Absent
<1>3. ASSUME AuthType, LocalType, Logout PROVE AuthType'
  BY <1>3, SessionAssumption, SMT
     DEF Logout, AuthType, LocalType, NoTokens, PassAfterUse, Absent
<1>4. ASSUME AuthType, LocalType, NEW k \in CallKinds, NEW s \in Scopes \union {NoScope}, Begin(k, s)
     PROVE  AuthType'
  BY <1>4, SessionAssumption, SMT
     DEF Begin, StartCheckin, NoCheckin, AuthType, LocalType, NoTokens, PassAfterUse,
         Absent
<1>5. ASSUME AuthType, LocalType, Finish PROVE AuthType'
  BY <1>5, SessionAssumption, SMT
     DEF Finish, AuthType, LocalType, NoTokens, PassAfterUse, Absent
<1>6. ASSUME AuthType, LocalType, LegReturned PROVE AuthType'
  BY <1>6, SessionAssumption, SMT
     DEF LegReturned, EndCheckin, AuthType, LocalType, NoTokens, PassAfterUse, Absent
<1>7. ASSUME AuthType, LocalType, EnsureHit PROVE AuthType'
  BY <1>7, SessionAssumption, SMT
     DEF EnsureHit, AuthType, LocalType, NoTokens, PassAfterUse, Absent
<1>8. ASSUME AuthType, LocalType, EnsureNoCredential PROVE AuthType'
  BY <1>8, SessionAssumption, SMT
     DEF EnsureNoCredential, FailEnsure, EndEnsure, AuthType, LocalType, NoTokens,
         PassAfterUse, Absent
<1>9. ASSUME AuthType, LocalType, EnsureMiss PROVE AuthType'
  BY <1>9, SessionAssumption, SMT
     DEF EnsureMiss, StartCheckin, NoCheckin, StartAcquire, AuthType, LocalType,
         NoTokens, PassAfterUse, Absent
<1>10. ASSUME AuthType, LocalType, ProactiveDone PROVE AuthType'
  BY <1>10, SessionAssumption, SMT
     DEF ProactiveDone, StartAcquire, AuthType, LocalType, NoTokens, PassAfterUse,
         Absent
<1>11. ASSUME AuthType, LocalType, ChallengeReturned PROVE AuthType'
  BY <1>11, SessionAssumption, SMT
     DEF ChallengeReturned, StartRecovery, StartCheckin, NoCheckin, EndEnsure,
         AuthType, LocalType, NoTokens, PassAfterUse, Absent
<1>12. ASSUME AuthType, LocalType, RtcCheckinDone PROVE AuthType'
  BY <1>12, SessionAssumption, SMT
     DEF RtcCheckinDone, FailEnsure, EndEnsure, AuthType, LocalType, NoTokens,
         PassAfterUse, Absent
<1>13. ASSUME AuthType, LocalType, TokenReturned PROVE AuthType'
  BY <1>13, SessionAssumption, SMT
     DEF TokenReturned, StartRecovery, StartCheckin, NoCheckin, EndEnsure, AuthType,
         LocalType, NoTokens, PassAfterUse, Absent
<1>14. ASSUME AuthType, LocalType, DriftCheckinDone PROVE AuthType'
  BY <1>14, SessionAssumption, SMT
     DEF DriftCheckinDone, FailEnsure, EndEnsure, AuthType, LocalType, NoTokens,
         PassAfterUse, Absent
<1>15. ASSUME AuthType, LocalType, NEW f \in {"op", "auth"}, CertCheckinDone(f)
     PROVE  AuthType'
  BY <1>15, SessionAssumption, SMT
     DEF CertCheckinDone, Fail, AuthType, LocalType, NoTokens, PassAfterUse, Absent
<1>16. ASSUME AuthType, LocalType, NEW f \in Frames, SendUnreachable(f) PROVE AuthType'
  BY <1>16, SessionAssumption, SMT
     DEF SendUnreachable, Fail, AuthType, LocalType, NoTokens, PassAfterUse, Absent
<1>17. ASSUME AuthType, LocalType, NEW f \in Frames, SendLost(f) PROVE AuthType'
  BY <1>17, SessionAssumption, SMT
     DEF SendLost, Fail, NotExecuted, Executed, Repaired, AuthType, LocalType,
         NoTokens, PassAfterUse, Absent
<1>18. ASSUME AuthType, LocalType, NEW f \in Frames, SendExpired(f) PROVE AuthType'
  BY <1>18, SessionAssumption, SMT
     DEF SendExpired, Fail, StartCheckin, NoCheckin, AuthType, LocalType, NoTokens,
         PassAfterUse, Absent
<1>19. ASSUME TypeOK, OpReply PROVE AuthType'
  <2>1. cache' \in [Scopes -> Int]
    BY <1>19, RepliedTypes, Zenon
  <2>2. mode' = mode /\ pass' = pass
    BY <1>19, Zenon DEF OpReply
  <2>3. AuthType
    BY <1>19, Zenon DEF TypeOK
  <2> QED
    BY <2>1, <2>2, <2>3, Zenon DEF AuthType
<1>20. ASSUME TypeOK, ChallengeReply PROVE AuthType'
  <2>1. cache' \in [Scopes -> Int]
    BY <1>20, RepliedTypes, Zenon
  <2>2. mode' = mode /\ pass' = pass
    BY <1>20, Zenon DEF ChallengeReply
  <2>3. AuthType
    BY <1>20, Zenon DEF TypeOK
  <2> QED
    BY <2>1, <2>2, <2>3, Zenon DEF AuthType
<1>21. ASSUME TypeOK, TokenReply PROVE AuthType'
  <2>1. cache' \in [Scopes -> Int]
    BY <1>21, RepliedTypes, Zenon
  <2>2. mode' = mode /\ pass' = pass
    BY <1>21, Zenon DEF TokenReply
  <2>3. AuthType
    BY <1>21, Zenon DEF TypeOK
  <2> QED
    BY <2>1, <2>2, <2>3, Zenon DEF AuthType
<1>22. ASSUME TypeOK, LegReply PROVE AuthType'
  <2>1. cache' \in [Scopes -> Int]
    BY <1>22, RepliedTypes, Zenon
  <2>2. mode' = mode /\ pass' = pass
    BY <1>22, Zenon DEF LegReply
  <2>3. AuthType
    BY <1>22, Zenon DEF TypeOK
  <2> QED
    BY <2>1, <2>2, <2>3, Zenon DEF AuthType
<1>23. ASSUME TypeOK, MobileConfirm PROVE AuthType'
  <2>1. cache' \in [Scopes -> Int]
    BY <1>23, MobileTypes, Zenon
  <2>2. mode' = mode /\ pass' = pass
    BY <1>23, Zenon DEF MobileConfirm
  <2>3. AuthType
    BY <1>23, Zenon DEF TypeOK
  <2> QED
    BY <2>1, <2>2, <2>3, Zenon DEF AuthType
<1>24. ASSUME AuthType, LocalType, Tick PROVE AuthType'
  BY <1>24, SessionAssumption, SMT
     DEF Tick, AuthType, LocalType, NoTokens, PassAfterUse, Absent
<1>25. ASSUME AuthType, LocalType, Restart PROVE AuthType'
  BY <1>25, SessionAssumption, SMT
     DEF Restart, AuthType, LocalType, NoTokens, PassAfterUse, Absent
<1>26. ASSUME AuthType, LocalType, CertExpires PROVE AuthType'
  BY <1>26, SessionAssumption, SMT
     DEF CertExpires, AuthType, LocalType, NoTokens, PassAfterUse, Absent
<1>27. ASSUME AuthType, LocalType, NEW o \in Offsets, ClockDrifts(o) PROVE AuthType'
  BY <1>27, SessionAssumption, SMT
     DEF ClockDrifts, AuthType, LocalType, NoTokens, PassAfterUse, Absent
<1>28. ASSUME AuthType, LocalType, UNCHANGED vars PROVE AuthType'
  BY <1>28, SessionAssumption, SMT
     DEF vars, AuthType, LocalType, NoTokens, PassAfterUse, Absent
<1> QED
  BY <1>1, <1>2, <1>3, <1>4, <1>5, <1>6, <1>7, <1>8, <1>9, <1>10, <1>11, <1>12,
     <1>13, <1>14, <1>15, <1>16, <1>17, <1>18, <1>19, <1>20, <1>21, <1>22, <1>23,
     <1>24, <1>25, <1>26, <1>27, <1>28
     DEF TypeOK, Next, Client, Exchange, User, World

\* The activations are where the code can be.
LEMMA FrameStep == TypeOK /\ [Next]_vars => FrameType'
<1> USE DEF ctxVars, authVars, frameVars, localVars, deviceVars, historyVars
<1>1. ASSUME FrameType, NEW p \in {"right", "wrong"}, Login(p) PROVE FrameType'
  BY <1>1, SMT DEF Login, FrameType, RequestPcs, AuthPcs, Frames, Codes
<1>2. ASSUME FrameType, LoginMobile PROVE FrameType'
  BY <1>2, SMT DEF LoginMobile, FrameType, RequestPcs, AuthPcs, Frames, Codes
<1>3. ASSUME FrameType, Logout PROVE FrameType'
  BY <1>3, SMT DEF Logout, FrameType, RequestPcs, AuthPcs, Frames, Codes
<1>4. ASSUME TypeOK, NEW k \in CallKinds, NEW s \in Scopes \union {NoScope}, Begin(k, s)
     PROVE  FrameType'
  BY <1>4, CallKindsAssumption, SMT
     DEF Begin, StartCheckin, NoCheckin, TypeOK, FrameType, RequestPcs, Frames
<1>5. ASSUME TypeOK, Finish PROVE FrameType'
  <2>1. /\ call' = NoCall /\ rpc' = [rpc EXCEPT !["op"] = "idle"]
        /\ rc' = "OK" /\ apc' = apc /\ cpc' = cpc
    BY <1>5, Zenon DEF Finish
  <2> QED
    BY <2>1, <1>5 DEF NoCall, TypeOK, FrameType, RequestPcs, Codes
<1>6. ASSUME TypeOK, LegReturned PROVE FrameType'
  BY <1>6, SMT DEF LegReturned, MoreLegs, EndCheckin, TypeOK, FrameType, RequestPcs
<1>7. ASSUME TypeOK, EnsureHit PROVE FrameType'
  <2>1. AfterEnsure \in RequestPcs
    BY DEF AfterEnsure, RequestPcs
  <2> QED
    BY <2>1, <1>7 DEF EnsureHit, TypeOK, FrameType
<1>8. ASSUME FrameType, EnsureNoCredential PROVE FrameType'
  BY <1>8, SMT
     DEF EnsureNoCredential, FailEnsure, EndEnsure, FrameType, RequestPcs, AuthPcs,
         Frames, Codes
<1>9. ASSUME FrameType, EnsureMiss PROVE FrameType'
  BY <1>9, SMT
     DEF EnsureMiss, StartCheckin, NoCheckin, StartAcquire, FrameType, RequestPcs,
         AuthPcs, Frames, Codes
<1>10. ASSUME FrameType, ProactiveDone PROVE FrameType'
  BY <1>10, SMT
     DEF ProactiveDone, StartAcquire, FrameType, RequestPcs, AuthPcs, Frames, Codes
<1>11. ASSUME FrameType, ChallengeReturned PROVE FrameType'
  BY <1>11, SMT
     DEF ChallengeReturned, StartRecovery, StartCheckin, NoCheckin, EndEnsure,
         FrameType, RequestPcs, AuthPcs, Frames, Codes
<1>12. ASSUME TypeOK, RtcCheckinDone PROVE FrameType'
  <2>1. rpc' \in [Frames -> RequestPcs] /\ rc' \in Codes /\ apc' \in AuthPcs
    BY <1>12, RecheckTypes, Zenon
  <2>2. call' = call /\ cpc' = cpc
    BY <1>12, Zenon DEF RtcCheckinDone
  <2>3. FrameType
    BY <1>12, Zenon DEF TypeOK
  <2> QED
    BY <2>1, <2>2, <2>3, Zenon DEF FrameType
<1>13. ASSUME TypeOK, TokenReturned PROVE FrameType'
  BY <1>13, SMT
     DEF TokenReturned, AfterEnsure, StartRecovery, StartCheckin, NoCheckin,
         EndEnsure, TypeOK, FrameType, RequestPcs, AuthPcs
<1>14. ASSUME TypeOK, DriftCheckinDone PROVE FrameType'
  <2>1. rpc' \in [Frames -> RequestPcs] /\ rc' \in Codes /\ apc' \in AuthPcs
    BY <1>14, RecheckTypes, Zenon
  <2>2. call' = call /\ cpc' = cpc
    BY <1>14, Zenon DEF DriftCheckinDone
  <2>3. FrameType
    BY <1>14, Zenon DEF TypeOK
  <2> QED
    BY <2>1, <2>2, <2>3, Zenon DEF FrameType
<1>15. ASSUME TypeOK, NEW f \in {"op", "auth"}, CertCheckinDone(f) PROVE FrameType'
  <2>1. /\ rpc' = [rpc EXCEPT ![f] = "resend"] \/ rpc' = [rpc EXCEPT ![f] = "ret"]
        /\ rc' = rc \/ rc' = "NETWORK"
        /\ call' = call /\ apc' = apc /\ cpc' = cpc
    BY <1>15, Zenon DEF CertCheckinDone, Fail
  <2> QED
    BY <2>1, <1>15 DEF TypeOK, FrameType, RequestPcs, Codes
<1>16. ASSUME FrameType, NEW f \in Frames, SendUnreachable(f) PROVE FrameType'
  BY <1>16, SMT DEF SendUnreachable, Fail, FrameType, RequestPcs, AuthPcs, Frames, Codes
<1>17. ASSUME TypeOK, NEW f \in Frames, SendLost(f) PROVE FrameType'
  BY <1>17, SMT DEF SendLost, BrokenOffCode, Fail, TypeOK, FrameType, RequestPcs, Codes
<1>18. ASSUME FrameType, NEW f \in Frames, SendExpired(f) PROVE FrameType'
  BY <1>18, SMT
     DEF SendExpired, Fail, StartCheckin, NoCheckin, FrameType, RequestPcs, AuthPcs,
         Frames, Codes
<1>19. ASSUME TypeOK, OpReply PROVE FrameType'
  <2>1. rpc' \in [Frames -> RequestPcs] /\ rc' \in Codes
    BY <1>19, RepliedTypes, Zenon
  <2>2. call' = call /\ apc' = apc /\ cpc' = cpc
    BY <1>19, Zenon DEF OpReply
  <2>3. FrameType
    BY <1>19, Zenon DEF TypeOK
  <2> QED
    BY <2>1, <2>2, <2>3, Zenon DEF FrameType
<1>20. ASSUME TypeOK, ChallengeReply PROVE FrameType'
  <2>1. rpc' \in [Frames -> RequestPcs] /\ rc' \in Codes
    BY <1>20, RepliedTypes, Zenon
  <2>2. call' = call /\ apc' = apc /\ cpc' = cpc
    BY <1>20, Zenon DEF ChallengeReply
  <2>3. FrameType
    BY <1>20, Zenon DEF TypeOK
  <2> QED
    BY <2>1, <2>2, <2>3, Zenon DEF FrameType
<1>21. ASSUME TypeOK, TokenReply PROVE FrameType'
  <2>1. rpc' \in [Frames -> RequestPcs] /\ rc' \in Codes
    BY <1>21, RepliedTypes, Zenon
  <2>2. call' = call /\ apc' = apc /\ cpc' = cpc
    BY <1>21, Zenon DEF TokenReply
  <2>3. FrameType
    BY <1>21, Zenon DEF TypeOK
  <2> QED
    BY <2>1, <2>2, <2>3, Zenon DEF FrameType
<1>22. ASSUME TypeOK, LegReply PROVE FrameType'
  <2>1. rpc' \in [Frames -> RequestPcs] /\ rc' \in Codes
    BY <1>22, RepliedTypes, Zenon
  <2>2. call' = call /\ apc' = apc /\ cpc' = cpc
    BY <1>22, Zenon DEF LegReply
  <2>3. FrameType
    BY <1>22, Zenon DEF TypeOK
  <2> QED
    BY <2>1, <2>2, <2>3, Zenon DEF FrameType
<1>23. ASSUME TypeOK, MobileConfirm PROVE FrameType'
  <2>1. rpc' \in [Frames -> RequestPcs] /\ rc' \in Codes /\ apc' \in AuthPcs
    BY <1>23, MobileTypes, Zenon
  <2>2. call' = call /\ cpc' = cpc
    BY <1>23, Zenon DEF MobileConfirm
  <2>3. FrameType
    BY <1>23, Zenon DEF TypeOK
  <2> QED
    BY <2>1, <2>2, <2>3, Zenon DEF FrameType
<1>24. ASSUME FrameType, Tick PROVE FrameType'
  BY <1>24, SMT DEF Tick, FrameType, RequestPcs, AuthPcs, Frames, Codes
<1>25. ASSUME FrameType, Restart PROVE FrameType'
  BY <1>25, SMT DEF Restart, FrameType, RequestPcs, AuthPcs, Frames, Codes
<1>26. ASSUME FrameType, CertExpires PROVE FrameType'
  BY <1>26, SMT DEF CertExpires, FrameType, RequestPcs, AuthPcs, Frames, Codes
<1>27. ASSUME FrameType, NEW o \in Offsets, ClockDrifts(o) PROVE FrameType'
  BY <1>27, SMT DEF ClockDrifts, FrameType, RequestPcs, AuthPcs, Frames, Codes
<1>28. ASSUME FrameType, UNCHANGED vars PROVE FrameType'
  BY <1>28, SMT DEF vars, FrameType, RequestPcs, AuthPcs, Frames, Codes
<1> QED
  BY <1>1, <1>2, <1>3, <1>4, <1>5, <1>6, <1>7, <1>8, <1>9, <1>10, <1>11, <1>12,
     <1>13, <1>14, <1>15, <1>16, <1>17, <1>18, <1>19, <1>20, <1>21, <1>22, <1>23,
     <1>24, <1>25, <1>26, <1>27, <1>28
     DEF TypeOK, Next, Client, Exchange, User, World

\* The locals of the request path and of ensure_token.
LEMMA LocalStep == TypeOK /\ [Next]_vars => LocalType'
<1> USE DEF ctxVars, authVars, frameVars, localVars, deviceVars, historyVars
<1>1. ASSUME LocalType, DeviceType, NEW p \in {"right", "wrong"}, Login(p)
     PROVE  LocalType'
  BY <1>1, SessionAssumption, SMT DEF Login, LocalType, DeviceType, Absent
<1>2. ASSUME LocalType, DeviceType, LoginMobile PROVE LocalType'
  BY <1>2, SessionAssumption, SMT DEF LoginMobile, LocalType, DeviceType, Absent
<1>3. ASSUME LocalType, DeviceType, Logout PROVE LocalType'
  BY <1>3, SessionAssumption, SMT DEF Logout, LocalType, DeviceType, Absent
<1>4. ASSUME LocalType, DeviceType, NEW k \in CallKinds, NEW s \in Scopes \union {NoScope}, Begin(k, s)
     PROVE  LocalType'
  BY <1>4, SessionAssumption, SMT
     DEF Begin, StartCheckin, NoCheckin, LocalType, DeviceType, Absent
<1>5. ASSUME LocalType, DeviceType, Finish PROVE LocalType'
  BY <1>5, SessionAssumption, SMT DEF Finish, LocalType, DeviceType, Absent
<1>6. ASSUME LocalType, DeviceType, LegReturned PROVE LocalType'
  BY <1>6, SessionAssumption, SMT
     DEF LegReturned, EndCheckin, LocalType, DeviceType, Absent
<1>7. ASSUME TypeOK, EnsureHit PROVE LocalType'
  <2>1. bearer' = cache[call.scope] /\ call.scope \in Scopes \union {NoScope}
    BY <1>7 DEF EnsureHit, TypeOK, FrameType
  <2> QED
    BY <2>1, <1>7 DEF EnsureHit, TypeOK, LocalType, AuthType
<1>8. ASSUME LocalType, DeviceType, EnsureNoCredential PROVE LocalType'
  BY <1>8, SessionAssumption, SMT
     DEF EnsureNoCredential, FailEnsure, EndEnsure, LocalType, DeviceType, Absent
<1>9. ASSUME LocalType, DeviceType, EnsureMiss PROVE LocalType'
  BY <1>9, SessionAssumption, SMT
     DEF EnsureMiss, StartCheckin, NoCheckin, StartAcquire, LocalType, DeviceType,
         Absent
<1>10. ASSUME LocalType, DeviceType, ProactiveDone PROVE LocalType'
  BY <1>10, SessionAssumption, SMT
     DEF ProactiveDone, StartAcquire, LocalType, DeviceType, Absent
<1>11. ASSUME LocalType, DeviceType, ChallengeReturned PROVE LocalType'
  BY <1>11, SessionAssumption, SMT
     DEF ChallengeReturned, StartRecovery, StartCheckin, NoCheckin, EndEnsure,
         LocalType, DeviceType, Absent
<1>12. ASSUME TypeOK, RtcCheckinDone PROVE LocalType'
  <2>1. nowA' \in Int /\ granted' \in Int
    BY <1>12, RecheckTypes, Zenon
  <2>2. bearer' = bearer
    BY <1>12, Zenon DEF RtcCheckinDone
  <2>3. LocalType
    BY <1>12, Zenon DEF TypeOK
  <2> QED
    BY <2>1, <2>2, <2>3, Zenon DEF LocalType
<1>13. ASSUME LocalType, DeviceType, TokenReturned PROVE LocalType'
  BY <1>13, SessionAssumption, SMT
     DEF TokenReturned, StartRecovery, StartCheckin, NoCheckin, EndEnsure, LocalType,
         DeviceType, Absent
<1>14. ASSUME TypeOK, DriftCheckinDone PROVE LocalType'
  <2>1. nowA' \in Int /\ granted' \in Int
    BY <1>14, RecheckTypes, Zenon
  <2>2. bearer' = bearer
    BY <1>14, Zenon DEF DriftCheckinDone
  <2>3. LocalType
    BY <1>14, Zenon DEF TypeOK
  <2> QED
    BY <2>1, <2>2, <2>3, Zenon DEF LocalType
<1>15. ASSUME LocalType, DeviceType, NEW f \in {"op", "auth"}, CertCheckinDone(f)
     PROVE  LocalType'
  BY <1>15, SessionAssumption, SMT
     DEF CertCheckinDone, Fail, LocalType, DeviceType, Absent
<1>16. ASSUME LocalType, DeviceType, NEW f \in Frames, SendUnreachable(f)
     PROVE  LocalType'
  BY <1>16, SessionAssumption, SMT
     DEF SendUnreachable, Fail, LocalType, DeviceType, Absent
<1>17. ASSUME LocalType, DeviceType, NEW f \in Frames, SendLost(f) PROVE LocalType'
  BY <1>17, SessionAssumption, SMT
     DEF SendLost, Fail, NotExecuted, Executed, Repaired, LocalType, DeviceType,
         Absent
<1>18. ASSUME LocalType, DeviceType, NEW f \in Frames, SendExpired(f) PROVE LocalType'
  BY <1>18, SessionAssumption, SMT
     DEF SendExpired, Fail, StartCheckin, NoCheckin, LocalType, DeviceType, Absent
<1>19. ASSUME TypeOK, OpReply PROVE LocalType'
  <2>1. bearer' \in Int
    BY <1>19, RepliedTypes, Zenon
  <2>2. nowA' = nowA /\ granted' = granted
    BY <1>19, Zenon DEF OpReply
  <2>3. LocalType
    BY <1>19, Zenon DEF TypeOK
  <2> QED
    BY <2>1, <2>2, <2>3, Zenon DEF LocalType
<1>20. ASSUME TypeOK, ChallengeReply PROVE LocalType'
  <2>1. bearer' \in Int
    BY <1>20, RepliedTypes, Zenon
  <2>2. nowA' = nowA /\ granted' = granted
    BY <1>20, Zenon DEF ChallengeReply
  <2>3. LocalType
    BY <1>20, Zenon DEF TypeOK
  <2> QED
    BY <2>1, <2>2, <2>3, Zenon DEF LocalType
<1>21. ASSUME TypeOK, TokenReply PROVE LocalType'
  <2>1. granted' \in Int
    <3>1. \/ \E life \in Lives : granted' = IF nowA + Lifetime < DeviceNow + life
                                             THEN nowA + Lifetime ELSE DeviceNow + life
          \/ granted' = granted
      BY <1>21, Zenon DEF TokenReply
    <3> QED
      BY <3>1, <1>21, SessionAssumption DEF DeviceNow, TypeOK, LocalType, DeviceType
  <2>2. bearer' \in Int
    BY <1>21, RepliedTypes, Zenon
  <2>3. nowA' = nowA
    BY <1>21, Zenon DEF TokenReply
  <2>4. LocalType
    BY <1>21, Zenon DEF TypeOK
  <2> QED
    BY <1>21, <2>1, <2>2, <2>3, <2>4, Zenon DEF LocalType
<1>22. ASSUME TypeOK, LegReply PROVE LocalType'
  <2>1. bearer' \in Int
    BY <1>22, RepliedTypes, Zenon
  <2>2. nowA' = nowA /\ granted' = granted
    BY <1>22, Zenon DEF LegReply
  <2>3. LocalType
    BY <1>22, Zenon DEF TypeOK
  <2> QED
    BY <2>1, <2>2, <2>3, Zenon DEF LocalType
<1>23. ASSUME TypeOK, MobileConfirm PROVE LocalType'
  <2>1. bearer' \in Int /\ nowA' \in Int /\ granted' \in Int
    BY <1>23, MobileTypes, Zenon
  <2>3. LocalType
    BY <1>23, Zenon DEF TypeOK
  <2> QED
    BY <2>1, <2>3, Zenon DEF LocalType
<1>24. ASSUME LocalType, DeviceType, Tick PROVE LocalType'
  BY <1>24, SessionAssumption, SMT DEF Tick, LocalType, DeviceType, Absent
<1>25. ASSUME LocalType, DeviceType, Restart PROVE LocalType'
  BY <1>25, SessionAssumption, SMT DEF Restart, LocalType, DeviceType, Absent
<1>26. ASSUME LocalType, DeviceType, CertExpires PROVE LocalType'
  BY <1>26, SessionAssumption, SMT DEF CertExpires, LocalType, DeviceType, Absent
<1>27. ASSUME LocalType, DeviceType, NEW o \in Offsets, ClockDrifts(o) PROVE LocalType'
  BY <1>27, SessionAssumption, SMT DEF ClockDrifts, LocalType, DeviceType, Absent
<1>28. ASSUME LocalType, DeviceType, UNCHANGED vars PROVE LocalType'
  BY <1>28, SessionAssumption, SMT DEF vars, LocalType, DeviceType, Absent
<1> QED
  BY <1>1, <1>2, <1>3, <1>4, <1>5, <1>6, <1>7, <1>8, <1>9, <1>10, <1>11, <1>12,
     <1>13, <1>14, <1>15, <1>16, <1>17, <1>18, <1>19, <1>20, <1>21, <1>22, <1>23,
     <1>24, <1>25, <1>26, <1>27, <1>28
     DEF TypeOK, Next, Client, Exchange, User, World

\* The device and the clock.
LEMMA DeviceStep == TypeOK /\ [Next]_vars => DeviceType'
<1> USE DEF ctxVars, authVars, frameVars, localVars, deviceVars, historyVars
<1>1. ASSUME DeviceType, NEW p \in {"right", "wrong"}, Login(p) PROVE DeviceType'
  BY <1>1, SessionAssumption, SMT DEF Login, DeviceType
<1>2. ASSUME DeviceType, LoginMobile PROVE DeviceType'
  BY <1>2, SessionAssumption, SMT DEF LoginMobile, DeviceType
<1>3. ASSUME DeviceType, Logout PROVE DeviceType'
  BY <1>3, SessionAssumption, SMT DEF Logout, DeviceType
<1>4. ASSUME DeviceType, NEW k \in CallKinds, NEW s \in Scopes \union {NoScope}, Begin(k, s)
     PROVE  DeviceType'
  BY <1>4, SessionAssumption, SMT DEF Begin, StartCheckin, NoCheckin, DeviceType
<1>5. ASSUME DeviceType, Finish PROVE DeviceType'
  BY <1>5, SessionAssumption, SMT DEF Finish, DeviceType
<1>6. ASSUME DeviceType, LegReturned PROVE DeviceType'
  BY <1>6, SessionAssumption, SMT DEF LegReturned, EndCheckin, DeviceType
<1>7. ASSUME DeviceType, EnsureHit PROVE DeviceType'
  BY <1>7, SessionAssumption, SMT DEF EnsureHit, DeviceType
<1>8. ASSUME DeviceType, EnsureNoCredential PROVE DeviceType'
  BY <1>8, SessionAssumption, SMT
     DEF EnsureNoCredential, FailEnsure, EndEnsure, DeviceType
<1>9. ASSUME DeviceType, EnsureMiss PROVE DeviceType'
  BY <1>9, SessionAssumption, SMT
     DEF EnsureMiss, StartCheckin, NoCheckin, StartAcquire, DeviceType
<1>10. ASSUME DeviceType, ProactiveDone PROVE DeviceType'
  BY <1>10, SessionAssumption, SMT DEF ProactiveDone, StartAcquire, DeviceType
<1>11. ASSUME DeviceType, ChallengeReturned PROVE DeviceType'
  BY <1>11, SessionAssumption, SMT
     DEF ChallengeReturned, StartRecovery, StartCheckin, NoCheckin, EndEnsure,
         DeviceType
<1>12. ASSUME DeviceType, RtcCheckinDone PROVE DeviceType'
  BY <1>12, SessionAssumption, SMT DEF RtcCheckinDone, FailEnsure, EndEnsure, DeviceType
<1>13. ASSUME DeviceType, TokenReturned PROVE DeviceType'
  BY <1>13, SessionAssumption, SMT
     DEF TokenReturned, StartRecovery, StartCheckin, NoCheckin, EndEnsure, DeviceType
<1>14. ASSUME DeviceType, DriftCheckinDone PROVE DeviceType'
  BY <1>14, SessionAssumption, SMT
     DEF DriftCheckinDone, FailEnsure, EndEnsure, DeviceType
<1>15. ASSUME DeviceType, NEW f \in {"op", "auth"}, CertCheckinDone(f) PROVE DeviceType'
  BY <1>15, SessionAssumption, SMT DEF CertCheckinDone, Fail, DeviceType
<1>16. ASSUME DeviceType, NEW f \in Frames, SendUnreachable(f) PROVE DeviceType'
  BY <1>16, SessionAssumption, SMT DEF SendUnreachable, Fail, DeviceType
<1>17. ASSUME DeviceType, NEW f \in Frames, SendLost(f) PROVE DeviceType'
  <2>1. now' = now /\ (off' = off \/ off' = 0) /\ (live' = live \/ live' = {})
    BY <1>17, Zenon DEF SendLost, NotExecuted, Executed, Repaired
  <2> QED
    BY <1>17, <2>1, SessionAssumption, SMT DEF DeviceType
<1>18. ASSUME DeviceType, NEW f \in Frames, SendExpired(f) PROVE DeviceType'
  BY <1>18, SessionAssumption, SMT
     DEF SendExpired, Fail, StartCheckin, NoCheckin, DeviceType
<1>19. ASSUME TypeOK, OpReply PROVE DeviceType'
  <2>1. (live' = live \/ live' = {}) /\ now' = now /\ off' = off
    BY <1>19, ZenonT(60) DEF OpReply, Executed, NotExecuted
  <2> QED
    BY <2>1, <1>19 DEF TypeOK, DeviceType
<1>20. ASSUME TypeOK, ChallengeReply PROVE DeviceType'
  BY <1>20, Zenon DEF ChallengeReply, TypeOK, DeviceType
<1>21. ASSUME TypeOK, TokenReply PROVE DeviceType'
  <2>1. (live' = live \/ live' = live \union {call.scope}) /\ now' = now /\ off' = off
    BY <1>21, Zenon DEF TokenReply
  <2> QED
    BY <2>1, <1>21 DEF TypeOK, DeviceType, FrameType
<1>22. ASSUME TypeOK, LegReply PROVE DeviceType'
  <2>1. (off' = off \/ off' = 0) /\ now' = now /\ live' = live
    BY <1>22, Zenon DEF LegReply, Repaired, NotRepaired
  <2> QED
    BY <2>1, <1>22, SessionAssumption DEF TypeOK, DeviceType
<1>23. ASSUME TypeOK, MobileConfirm PROVE DeviceType'
  <2>1. off' \in Offsets /\ live' \subseteq Scopes \union {NoScope}
    BY <1>23, MobileTypes, Zenon
  <2>2. now' = now
    BY <1>23, Zenon DEF MobileConfirm
  <2>3. DeviceType
    BY <1>23, Zenon DEF TypeOK
  <2> QED
    BY <2>1, <2>2, <2>3, Zenon DEF DeviceType
<1>24. ASSUME DeviceType, Tick PROVE DeviceType'
  BY <1>24, SessionAssumption, SMT DEF Tick, DeviceType
<1>25. ASSUME DeviceType, Restart PROVE DeviceType'
  BY <1>25, SessionAssumption, SMT DEF Restart, DeviceType
<1>26. ASSUME DeviceType, CertExpires PROVE DeviceType'
  BY <1>26, SessionAssumption, SMT DEF CertExpires, DeviceType
<1>27. ASSUME DeviceType, NEW o \in Offsets, ClockDrifts(o) PROVE DeviceType'
  BY <1>27, SessionAssumption, SMT DEF ClockDrifts, DeviceType
<1>28. ASSUME DeviceType, UNCHANGED vars PROVE DeviceType'
  BY <1>28, SessionAssumption, SMT DEF vars, DeviceType
<1> QED
  BY <1>1, <1>2, <1>3, <1>4, <1>5, <1>6, <1>7, <1>8, <1>9, <1>10, <1>11, <1>12,
     <1>13, <1>14, <1>15, <1>16, <1>17, <1>18, <1>19, <1>20, <1>21, <1>22, <1>23,
     <1>24, <1>25, <1>26, <1>27, <1>28
     DEF TypeOK, Next, Client, Exchange, User, World

\* The history counters stay in their (saturating) range.
LEMMA HistoryStep == TypeOK /\ [Next]_vars => HistoryType'
<1> USE DEF ctxVars, authVars, frameVars, localVars, deviceVars, historyVars
<1>1. ASSUME HistoryType, NEW p \in {"right", "wrong"}, Login(p) PROVE HistoryType'
  BY <1>1, SMT DEF Login, HistoryType, Bump
<1>2. ASSUME HistoryType, LoginMobile PROVE HistoryType'
  BY <1>2, SMT DEF LoginMobile, HistoryType, Bump
<1>3. ASSUME HistoryType, Logout PROVE HistoryType'
  BY <1>3, SMT DEF Logout, HistoryType, Bump
<1>4. ASSUME HistoryType, NEW k \in CallKinds, NEW s \in Scopes \union {NoScope}, Begin(k, s)
     PROVE  HistoryType'
  BY <1>4, SMT DEF Begin, StartCheckin, NoCheckin, HistoryType, Bump
<1>5. ASSUME HistoryType, Finish PROVE HistoryType'
  BY <1>5, SMT DEF Finish, HistoryType, Bump
<1>6. ASSUME HistoryType, LegReturned PROVE HistoryType'
  BY <1>6, SMT DEF LegReturned, EndCheckin, HistoryType, Bump
<1>7. ASSUME HistoryType, EnsureHit PROVE HistoryType'
  BY <1>7, SMT DEF EnsureHit, HistoryType, Bump
<1>8. ASSUME HistoryType, EnsureNoCredential PROVE HistoryType'
  BY <1>8, SMT DEF EnsureNoCredential, FailEnsure, EndEnsure, HistoryType, Bump
<1>9. ASSUME HistoryType, EnsureMiss PROVE HistoryType'
  BY <1>9, SMT DEF EnsureMiss, StartCheckin, NoCheckin, StartAcquire, HistoryType, Bump
<1>10. ASSUME HistoryType, ProactiveDone PROVE HistoryType'
  BY <1>10, SMT DEF ProactiveDone, StartAcquire, HistoryType, Bump
<1>11. ASSUME HistoryType, ChallengeReturned PROVE HistoryType'
  BY <1>11, SMT
     DEF ChallengeReturned, StartRecovery, StartCheckin, NoCheckin, EndEnsure,
         HistoryType, Bump
<1>12. ASSUME TypeOK, RtcCheckinDone PROVE HistoryType'
  <2>2. applied' = applied /\ checkins' = checkins /\ proactives' = proactives
    BY <1>12, Zenon DEF RtcCheckinDone
  <2>3. HistoryType
    BY <1>12, Zenon DEF TypeOK
  <2> QED
    BY <2>2, <2>3, Zenon DEF HistoryType
<1>13. ASSUME HistoryType, TokenReturned PROVE HistoryType'
  BY <1>13, SMT
     DEF TokenReturned, StartRecovery, StartCheckin, NoCheckin, EndEnsure,
         HistoryType, Bump
<1>14. ASSUME TypeOK, DriftCheckinDone PROVE HistoryType'
  <2>2. applied' = applied /\ checkins' = checkins /\ proactives' = proactives
    BY <1>14, Zenon DEF DriftCheckinDone
  <2>3. HistoryType
    BY <1>14, Zenon DEF TypeOK
  <2> QED
    BY <2>2, <2>3, Zenon DEF HistoryType
<1>15. ASSUME HistoryType, NEW f \in {"op", "auth"}, CertCheckinDone(f)
     PROVE  HistoryType'
  BY <1>15, SMT DEF CertCheckinDone, Fail, HistoryType, Bump
<1>16. ASSUME HistoryType, NEW f \in Frames, SendUnreachable(f) PROVE HistoryType'
  BY <1>16, SMT DEF SendUnreachable, Fail, HistoryType, Bump
<1>17. ASSUME HistoryType, NEW f \in Frames, SendLost(f) PROVE HistoryType'
  <2>1. /\ UNCHANGED <<checkins, proactives>>
        /\ applied' = applied \/ applied' = Bump(applied)
    BY <1>17, Zenon DEF SendLost, NotExecuted, Executed
  <2> QED
    BY <1>17, <2>1, SMT DEF HistoryType, Bump
<1>18. ASSUME HistoryType, NEW f \in Frames, SendExpired(f) PROVE HistoryType'
  BY <1>18, SMT DEF SendExpired, Fail, StartCheckin, NoCheckin, HistoryType, Bump
<1>19. ASSUME TypeOK, OpReply PROVE HistoryType'
  <2>1. /\ applied' = applied \/ applied' = Bump(applied)
        /\ checkins' = checkins /\ proactives' = proactives
    BY <1>19, ZenonT(60) DEF OpReply, Executed, NotExecuted
  <2> QED
    BY <2>1, <1>19 DEF TypeOK, HistoryType, Bump
<1>20. ASSUME HistoryType, ChallengeReply PROVE HistoryType'
  BY <1>20, SMT DEF ChallengeReply, Deliver, HistoryType, Bump
<1>21. ASSUME HistoryType, TokenReply PROVE HistoryType'
  BY <1>21, SMT DEF TokenReply, Deliver, HistoryType, Bump
<1>22. ASSUME HistoryType, LegReply PROVE HistoryType'
  BY <1>22, SMT DEF LegReply, Deliver, Repaired, NotRepaired, HistoryType, Bump
<1>23. ASSUME TypeOK, MobileConfirm PROVE HistoryType'
  <2>1. checkins' \in 0..3
    BY <1>23, MobileTypes, Zenon
  <2>2. applied' = applied /\ proactives' = proactives
    BY <1>23, Zenon DEF MobileConfirm
  <2>3. HistoryType
    BY <1>23, Zenon DEF TypeOK
  <2> QED
    BY <2>1, <2>2, <2>3, Zenon DEF HistoryType
<1>24. ASSUME HistoryType, Tick PROVE HistoryType'
  BY <1>24, SMT DEF Tick, HistoryType, Bump
<1>25. ASSUME HistoryType, Restart PROVE HistoryType'
  BY <1>25, SMT DEF Restart, HistoryType, Bump
<1>26. ASSUME HistoryType, CertExpires PROVE HistoryType'
  BY <1>26, SMT DEF CertExpires, HistoryType, Bump
<1>27. ASSUME HistoryType, NEW o \in Offsets, ClockDrifts(o) PROVE HistoryType'
  BY <1>27, SMT DEF ClockDrifts, HistoryType, Bump
<1>28. ASSUME HistoryType, UNCHANGED vars PROVE HistoryType'
  BY <1>28, SMT DEF vars, HistoryType, Bump
<1> QED
  BY <1>1, <1>2, <1>3, <1>4, <1>5, <1>6, <1>7, <1>8, <1>9, <1>10, <1>11, <1>12,
     <1>13, <1>14, <1>15, <1>16, <1>17, <1>18, <1>19, <1>20, <1>21, <1>22, <1>23,
     <1>24, <1>25, <1>26, <1>27, <1>28
     DEF TypeOK, Next, Client, Exchange, User, World

-----------------------------------------------------------------------------
\* The initial state of a context is well typed.
LEMMA TypeInit == Init => TypeOK
<1> SUFFICES ASSUME Init PROVE TypeOK
  OBVIOUS
<1>1. FlagType
  BY Zenon DEF Init, FlagType
<1>2. CtxType
  BY NoErrTyped, Zenon DEF Init, CtxType
<1>3. AuthType
  BY DEF Init, AuthType, Absent
<1>4. FrameType
  BY DEF Init, FrameType, NoCall, RequestPcs, AuthPcs, Codes
<1>5. LocalType /\ DeviceType /\ HistoryType
  BY DEF Init, LocalType, DeviceType, HistoryType, Absent
<1> QED
  BY <1>1, <1>2, <1>3, <1>4, <1>5, Zenon DEF TypeOK

\* Every step keeps every variable in its type.
LEMMA TypeNext == TypeOK /\ [Next]_vars => TypeOK'
BY FlagStep, CtxStep, AuthStep, FrameStep, LocalStep, DeviceStep, HistoryStep, Zenon
   DEF TypeOK

\* Type correctness: the request path, ensure_token and the check-in stay at the
\* places their code has, with codes, statuses and expiries of their kinds.
THEOREM TypeCorrect == Spec => []TypeOK
<1>1. Init => TypeOK
  BY TypeInit
<1>2. TypeOK /\ [Next]_vars => TypeOK'
  BY TypeNext
<1> QED
  BY <1>1, <1>2, PTL DEF Spec

-----------------------------------------------------------------------------
(* What the steps with many outcomes do to the control state               *)

\* What the steps need to know of where the activations are
ControlInv == FrameType /\ GuardExact /\ Nesting

\* Nothing about who is waiting for whom changes but the activation itself
ControlKept == inCheckin' = inCheckin /\ cpc' = cpc /\ call' = call /\ mode' = mode

\* After a recovery check-in of ensure_token: retry, or fail the request.
LEMMA RecheckControl ==
  ASSUME RtcCheckinDone \/ DriftCheckinDone
  PROVE  /\ cpc = 0 /\ (apc = "rtc" \/ apc = "driftck")
         /\ ControlKept
         /\ \/ (apc' = "get" \/ apc' = "reget") /\ rpc' = [rpc EXCEPT !["auth"] = "send"]
            \/ /\ apc' = "idle" /\ rpc' = [rpc EXCEPT !["op"] = "ret", !["auth"] = "idle"]
               /\ (rc' = "SCOPE_DENIED" \/ rc' = "AUTH_FAILED")
<1>1. CASE RtcCheckinDone
  <2>1. cpc = 0 /\ (apc = "rtc" \/ apc = "driftck")
    BY <1>1, Zenon DEF RtcCheckinDone, CheckinOver
  <2>2. ControlKept
    BY <1>1, Zenon DEF RtcCheckinDone, ControlKept, authVars
  <2>3. CASE rc = "OK"
    BY <1>1, <2>1, <2>2, <2>3, Zenon DEF RtcCheckinDone
  <2>4. CASE rc # "OK"
    BY <1>1, <2>1, <2>2, <2>4, Zenon DEF RtcCheckinDone, FailEnsure, EndEnsure
  <2> QED
    BY <2>3, <2>4, Zenon
<1>2. CASE DriftCheckinDone
  <2>1. cpc = 0 /\ (apc = "rtc" \/ apc = "driftck")
    BY <1>2, Zenon DEF DriftCheckinDone, CheckinOver
  <2>2. ControlKept
    BY <1>2, Zenon DEF DriftCheckinDone, ControlKept, authVars
  <2>3. CASE rc = "OK"
    BY <1>2, <2>1, <2>2, <2>3, Zenon DEF DriftCheckinDone
  <2>4. CASE rc # "OK"
    BY <1>2, <2>1, <2>2, <2>4, Zenon DEF DriftCheckinDone, FailEnsure, EndEnsure
  <2> QED
    BY <2>3, <2>4, Zenon
<1> QED
  BY <1>1, <1>2, Zenon

\* After a certificate recovery: resend, or fail.
LEMMA CertControl ==
  ASSUME NEW f \in {"op", "auth"}, CertCheckinDone(f)
  PROVE  /\ rpc[f] = "cert" /\ cpc = 0 /\ ControlKept /\ apc' = apc
         /\ \/ rpc' = [rpc EXCEPT ![f] = "resend"] /\ rc = "OK" /\ rc' = rc
            \/ rpc' = [rpc EXCEPT ![f] = "ret"] /\ rc' = "NETWORK"
<1>1. rpc[f] = "cert" /\ cpc = 0 /\ ControlKept /\ apc' = apc
  BY Zenon DEF CertCheckinDone, CheckinOver, ControlKept, authVars
<1>2. \/ rpc' = [rpc EXCEPT ![f] = "resend"] /\ rc = "OK" /\ rc' = rc
      \/ rpc' = [rpc EXCEPT ![f] = "ret"] /\ rc' = "NETWORK"
  BY Zenon DEF CertCheckinDone, Fail
<1> QED
  BY <1>1, <1>2, Zenon

\* A reply ends its activation, or is the one 401 that re-acquires.
LEMMA DeliverControl ==
  ASSUME NEW f, NEW r, NEW code, NEW http, Deliver(f, r, code, http)
  PROVE  \/ rpc' = [rpc EXCEPT ![f] = "ret"] /\ rc' = code
         \/ /\ f = "op" /\ call.scope # NoScope /\ r.status = 401 /\ rpc[f] # "send2"
            /\ rpc' = [rpc EXCEPT ![f] = "ensure2"] /\ rc' = rc
BY Zenon DEF Deliver, TokenRejected

\* Control after an answer to the binding's request,
LEMMA OpReplyControl ==
  ASSUME OpReply
  PROVE  /\ Sending("op") /\ ControlKept /\ apc' = apc
         /\ \/ rpc' = [rpc EXCEPT !["op"] = "ret"]
            \/ call.scope # NoScope /\ rpc' = [rpc EXCEPT !["op"] = "ensure2"]
<1>1. Sending("op") /\ ControlKept /\ apc' = apc
  BY Zenon DEF OpReply, ControlKept
<1>2. \E r, code, http : Deliver("op", r, code, http)
  BY OpReplyDelivers, Zenon DEF Delivered
<1> QED
  BY <1>1, <1>2, DeliverControl, Zenon

\* to the challenge GET or token POST,
LEMMA AuthReplyControl ==
  ASSUME ChallengeReply \/ TokenReply
  PROVE  /\ Sending("auth") /\ ControlKept /\ apc' = apc
         /\ rpc' = [rpc EXCEPT !["auth"] = "ret"]
<1>1. Sending("auth") /\ ControlKept /\ apc' = apc
  BY Zenon DEF ChallengeReply, TokenReply, ControlKept
<1>2. \E r, code, http : Deliver("auth", r, code, http)
  BY AuthReplyDelivers, Zenon DEF Delivered
<1>3. "auth" # "op"
  OBVIOUS
<1>4. rpc' = [rpc EXCEPT !["auth"] = "ret"]
  <2>1. PICK r, code, http : Deliver("auth", r, code, http)
    BY <1>2, Zenon
  <2>2. ~TokenRejected("auth", r)
    BY <1>3, Zenon DEF TokenRejected
  <2> QED
    BY <2>1, <2>2, Zenon DEF Deliver
<1> QED
  BY <1>1, <1>4, Zenon

\* to a check-in leg,
LEMMA LegReplyControl ==
  ASSUME LegReply
  PROVE  /\ Sending("leg") /\ ControlKept /\ apc' = apc
         /\ rpc' = [rpc EXCEPT !["leg"] = "ret"]
<1>1. Sending("leg") /\ ControlKept /\ apc' = apc
  BY Zenon DEF LegReply, ControlKept
<1>2. \E r, code, http : Deliver("leg", r, code, http)
  BY LegReplyDelivers, Zenon DEF Delivered
<1>3. "leg" # "op"
  OBVIOUS
<1>4. rpc' = [rpc EXCEPT !["leg"] = "ret"]
  <2>1. PICK r, code, http : Deliver("leg", r, code, http)
    BY <1>2, Zenon
  <2>2. ~TokenRejected("leg", r)
    BY <1>3, Zenon DEF TokenRejected
  <2> QED
    BY <2>1, <2>2, Zenon DEF Deliver
<1> QED
  BY <1>1, <1>4, Zenon

\* and after a push confirmation.
LEMMA MobileControl ==
  ASSUME MobileConfirm
  PROVE  /\ apc = "confirm" /\ ControlKept /\ apc' = "idle"
         /\ \/ rpc' = [rpc EXCEPT !["op"] = AfterEnsure] /\ rc' = rc
            \/ /\ rpc' = [rpc EXCEPT !["op"] = "ret", !["auth"] = "idle"]
               /\ rc' # "OK"
<1>1. apc = "confirm" /\ ControlKept
  BY Zenon DEF MobileConfirm, ControlKept
<1>2. \/ EndEnsure /\ rpc' = [rpc EXCEPT !["op"] = AfterEnsure] /\ rc' = rc
      \/ \E code \in Codes \ {"OK"}, e \in Errs : FailEnsure(code, e)
  BY ConfirmFailureTypes, Zenon DEF MobileConfirm
<1>3. apc' = "idle"
  BY <1>2, Zenon DEF FailEnsure, EndEnsure
<1> QED
  BY <1>1, <1>2, <1>3, Zenon DEF FailEnsure

\* Entry of a call.
LEMMA BeginControl ==
  ASSUME NEW k \in CallKinds, NEW s \in Scopes \union {NoScope}, Begin(k, s)
  PROVE  /\ k \in Kinds /\ call = NoCall /\ call' = [kind |-> k, scope |-> s]
         /\ (k \in ScopedKinds) <=> (s # NoScope)
         /\ apc' = apc /\ mode' = mode /\ applied' = applied /\ rc' = rc
         /\ \/ /\ k = "checkin" /\ inCheckin' = TRUE /\ cpc' = 1
               /\ rpc' = [rpc EXCEPT !["leg"] = "send"]
            \/ /\ k # "checkin" /\ inCheckin' = inCheckin /\ cpc' = cpc
               /\ rpc' = [rpc EXCEPT !["op"] = IF k = "open" THEN "send" ELSE "ensure"]
<1>1. k \in Kinds
  BY CallKindsAssumption, Zenon
<1>2. /\ call = NoCall /\ call' = [kind |-> k, scope |-> s]
      /\ (k \in ScopedKinds) <=> (s # NoScope)
      /\ apc' = apc /\ mode' = mode /\ applied' = applied /\ rc' = rc
  BY Zenon DEF Begin, Idle, authVars
<1>3. \/ /\ k = "checkin" /\ inCheckin' = TRUE /\ cpc' = 1
         /\ rpc' = [rpc EXCEPT !["leg"] = "send"]
      \/ /\ k # "checkin" /\ inCheckin' = inCheckin /\ cpc' = cpc
         /\ rpc' = [rpc EXCEPT !["op"] = IF k = "open" THEN "send" ELSE "ensure"]
  BY Zenon DEF Begin, StartCheckin, NoCheckin
<1> QED
  BY <1>1, <1>2, <1>3, Zenon

-----------------------------------------------------------------------------
(* What an answer says about execution                                     *)

\* 200 with any body: the request was executed, and reads as OK or PROTOCOL
LEMMA Ok200Code ==
  ASSUME NEW b \in Bodies
  PROVE  OpCode(Reply(200, b)) = "OK" \/ OpCode(Reply(200, b)) = "PROTOCOL"
<1>1. RawCode(Reply(200, b)) = "OK" \/ RawCode(Reply(200, b)) = "PROTOCOL"
  BY DEF RawCode, Reply
<1>2. JsonCode(Reply(200, b)) = "OK" \/ JsonCode(Reply(200, b)) = "PROTOCOL"
  BY <1>1, Zenon DEF JsonCode
<1> QED
  BY <1>1, <1>2, Zenon DEF OpCode

\* A reply that is not a 401 ends the activation with its code.
LEMMA DeliverEnds ==
  ASSUME NEW f, NEW r, NEW code, NEW http, Deliver(f, r, code, http), r.status # 401
  PROVE  rpc' = [rpc EXCEPT ![f] = "ret"] /\ rc' = code
BY Zenon DEF Deliver, TokenRejected

\* The device executed the request, and the code does not hide it
OpExecuted ==
  /\ applied' = Bump(applied) /\ rpc' = [rpc EXCEPT !["op"] = "ret"]
  /\ \/ rc' = "OK" \/ rc' = "PROTOCOL" \/ (rc' = "DEVICE" /\ err'.http = 500)
     \/ rc' = "NOT_FOUND" /\ call.kind = "search"

\* The device did not execute it, and the code does not claim it did
OpRefused ==
  /\ applied' = applied
  /\ \/ rpc' = [rpc EXCEPT !["op"] = "ensure2"]
     \/ rpc' = [rpc EXCEPT !["op"] = "ret"] /\ rc' # "OK"

\* Every answer to the request is one or the other.
LEMMA OpReplyEffect == OpReply => OpExecuted \/ OpRefused
<1> SUFFICES ASSUME OpReply PROVE OpExecuted \/ OpRefused
  OBVIOUS
<1>1. ASSUME Executed, Deliver("op", Success, OpCode(Success), OpHttp(Success))
      PROVE  OpExecuted
  <2>1. PICK b \in Bodies : Success = Reply(200, b)
    <3>1. "empty" \in Bodies /\ "json" \in Bodies
      BY DEF Bodies
    <3> QED
      BY <3>1, Zenon DEF Success
  <2>2. Success.status # 401
    BY <2>1 DEF Reply
  <2>3. rpc' = [rpc EXCEPT !["op"] = "ret"] /\ rc' = OpCode(Success)
    BY <1>1, <2>2, DeliverEnds, Zenon
  <2> QED
    BY <1>1, <2>1, <2>3, Ok200Code, Zenon DEF Executed, OpExecuted
<1>2. ASSUME NotExecuted, Deliver("op", Reply(401, "json"), "AUTH_FAILED", 401)
      PROVE  OpRefused
  <2>1. "AUTH_FAILED" # "OK"
    OBVIOUS
  <2> QED
    BY <1>2, <2>1, Zenon DEF Deliver, NotExecuted, OpRefused
<1>3. ASSUME NEW st \in {403, 404, 406, 500},
             Deliver("op", Reply(st, "json"), MapStatus(st), st),
             \/ (st = 500 \/ Answers(st)) /\ Executed
             \/ ~Answers(st) /\ NotExecuted
      PROVE  OpExecuted \/ OpRefused
  <2>1. Reply(st, "json").status # 401
    BY DEF Reply
  <2>2. rpc' = [rpc EXCEPT !["op"] = "ret"] /\ rc' = MapStatus(st)
    <3>1. ~TokenRejected("op", Reply(st, "json"))
      BY <2>1, Zenon DEF TokenRejected
    <3> QED
      BY <1>3, <3>1, Zenon DEF Deliver
  <2>3. MapStatus(st) # "OK"
    BY DEF MapStatus
  <2>4. CASE st = 500 /\ Executed
    <3>1. MapStatus(500) = "DEVICE" /\ "DEVICE" # "OK"
      BY DEF MapStatus
    <3>2. ~TokenRejected("op", Reply(st, "json"))
      BY <2>1, Zenon DEF TokenRejected
    <3>3. err' = Err(500, FALSE)
      BY <1>3, <2>3, <2>4, <3>2 DEF Deliver
    <3>4. err'.http = 500
      BY <3>3 DEF Err
    <3> QED
      BY <2>2, <2>4, <3>1, <3>4, Zenon DEF Executed, OpExecuted
  <2>5. CASE Answers(st) /\ Executed
    <3>1. MapStatus(404) = "NOT_FOUND"
      BY DEF MapStatus
    <3> QED
      BY <2>2, <2>5, <3>1, Zenon DEF Executed, OpExecuted, Answers
  <2>6. CASE NotExecuted
    BY <2>2, <2>3, <2>6, Zenon DEF NotExecuted, OpRefused
  <2> QED
    BY <1>3, <2>4, <2>5, <2>6, ZenonT(60)
<1>4. ASSUME NEW b \in {"empty", "bad", "nofield"},
             Deliver("op", Reply(200, b), OpCode(Reply(200, b)), OpHttp(Reply(200, b))),
             Executed
      PROVE  OpExecuted
  <2>1. b \in Bodies /\ Reply(200, b).status # 401
    BY DEF Reply, Bodies
  <2>2. rpc' = [rpc EXCEPT !["op"] = "ret"] /\ rc' = OpCode(Reply(200, b))
    <3>1. ~TokenRejected("op", Reply(200, b))
      BY <2>1, Zenon DEF TokenRejected
    <3> QED
      BY <1>4, <3>1, Zenon DEF Deliver
  <2> QED
    BY <1>4, <2>1, <2>2, Ok200Code, Zenon DEF Executed, OpExecuted
<1>5. \/ Executed /\ Deliver("op", Success, OpCode(Success), OpHttp(Success))
      \/ NotExecuted /\ Deliver("op", Reply(401, "json"), "AUTH_FAILED", 401)
      \/ \E st \in {403, 404, 406, 500} :
           /\ Deliver("op", Reply(st, "json"), MapStatus(st), st)
           /\ \/ (st = 500 \/ Answers(st)) /\ Executed
              \/ ~Answers(st) /\ NotExecuted
      \/ /\ \E b \in {"empty", "bad", "nofield"} :
              Deliver("op", Reply(200, b), OpCode(Reply(200, b)), OpHttp(Reply(200, b)))
         /\ Executed
  BY SMT DEF OpReply
<1>6. CASE \E st \in {403, 404, 406, 500} :
             /\ Deliver("op", Reply(st, "json"), MapStatus(st), st)
             /\ \/ (st = 500 \/ Answers(st)) /\ Executed
                \/ ~Answers(st) /\ NotExecuted
  BY <1>3, <1>6
<1>7. CASE /\ \E b \in {"empty", "bad", "nofield"} :
                Deliver("op", Reply(200, b), OpCode(Reply(200, b)), OpHttp(Reply(200, b)))
           /\ Executed
  BY <1>4, <1>7
<1> QED
  BY <1>1, <1>2, <1>5, <1>6, <1>7

-----------------------------------------------------------------------------
(* The recursion guard and the nesting of activations                      *)

\* in_checkin goes up and comes down with the check-in, on every path.
LEMMA GuardStep == ControlInv /\ [Next]_vars => GuardExact'
<1> USE DEF ctxVars, authVars, frameVars, localVars, deviceVars, historyVars
<1> USE DEF ControlInv, FrameType, GuardExact, Nesting, Idle, NoCall,
            Ensuring, CheckinOver, Sending, Frames, RequestPcs, AuthPcs,
            AfterEnsure, MoreLegs, Kinds
<1>1. ASSUME ControlInv, NEW p \in {"right", "wrong"}, Login(p)
      PROVE  GuardExact'
  BY <1>1 DEF Login
<1>2. ASSUME ControlInv, LoginMobile PROVE GuardExact'
  BY <1>2 DEF LoginMobile
<1>3. ASSUME ControlInv, Logout PROVE GuardExact'
  BY <1>3 DEF Logout
<1>4. ASSUME ControlInv, NEW k \in CallKinds, NEW s \in Scopes \union {NoScope}, Begin(k, s)
      PROVE  GuardExact'
  <2>1. /\ k \in Kinds /\ call = NoCall /\ call' = [kind |-> k, scope |-> s]
        /\ (k \in ScopedKinds) <=> (s # NoScope)
        /\ apc' = apc /\ mode' = mode
    BY <1>4, BeginControl, Zenon
  <2>2. CASE k = "checkin"
    <3>1. inCheckin' = TRUE /\ cpc' = 1 /\ rpc' = [rpc EXCEPT !["leg"] = "send"]
      BY <1>4, <2>2, BeginControl, Zenon
    <3> QED
      BY <1>4, <2>1, <2>2, <3>1
  <2>3. CASE k # "checkin"
    <3>1. /\ inCheckin' = inCheckin /\ cpc' = cpc
          /\ rpc' = [rpc EXCEPT !["op"] = IF k = "open" THEN "send" ELSE "ensure"]
      BY <1>4, <2>3, BeginControl, Zenon
    <3> QED
      BY <1>4, <2>1, <2>3, <3>1
  <2> QED
    BY <2>2, <2>3, Zenon
<1>5. ASSUME ControlInv, Finish PROVE GuardExact'
  BY <1>5 DEF Finish
<1>6. ASSUME ControlInv, LegReturned PROVE GuardExact'
  BY <1>6 DEF LegReturned, EndCheckin
<1>7. ASSUME ControlInv, EnsureHit PROVE GuardExact'
  BY <1>7 DEF EnsureHit
<1>8. ASSUME ControlInv, EnsureNoCredential PROVE GuardExact'
  BY <1>8 DEF EnsureNoCredential, FailEnsure, EndEnsure
<1>9. ASSUME ControlInv, EnsureMiss PROVE GuardExact'
  BY <1>9 DEF EnsureMiss, StartCheckin, NoCheckin, StartAcquire
<1>10. ASSUME ControlInv, ProactiveDone PROVE GuardExact'
  BY <1>10 DEF ProactiveDone, StartAcquire
<1>11. ASSUME ControlInv, ChallengeReturned PROVE GuardExact'
  BY <1>11 DEF ChallengeReturned, StartRecovery, StartCheckin, NoCheckin, EndEnsure
<1>12. ASSUME ControlInv, RtcCheckinDone PROVE GuardExact'
  BY <1>12, RecheckControl DEF ControlKept
<1>13. ASSUME ControlInv, TokenReturned PROVE GuardExact'
  BY <1>13 DEF TokenReturned, StartRecovery, StartCheckin, NoCheckin, EndEnsure
<1>14. ASSUME ControlInv, DriftCheckinDone PROVE GuardExact'
  BY <1>14, RecheckControl DEF ControlKept
<1>15. ASSUME ControlInv, NEW f \in {"op", "auth"}, CertCheckinDone(f)
       PROVE  GuardExact'
  BY <1>15, CertControl DEF ControlKept
<1>16. ASSUME ControlInv, NEW f \in Frames, SendUnreachable(f)
       PROVE  GuardExact'
  BY <1>16 DEF SendUnreachable, Fail
<1>17. ASSUME ControlInv, NEW f \in Frames, SendLost(f) PROVE GuardExact'
  BY <1>17 DEF SendLost, Fail, NotExecuted, Executed, Repaired
<1>18. ASSUME ControlInv, NEW f \in Frames, SendExpired(f) PROVE GuardExact'
  BY <1>18 DEF SendExpired, Fail, StartCheckin, NoCheckin
<1>19. ASSUME ControlInv, OpReply PROVE GuardExact'
  BY <1>19, OpReplyControl DEF ControlKept
<1>20. ASSUME ControlInv, ChallengeReply PROVE GuardExact'
  BY <1>20, AuthReplyControl DEF ControlKept
<1>21. ASSUME ControlInv, TokenReply PROVE GuardExact'
  BY <1>21, AuthReplyControl DEF ControlKept
<1>22. ASSUME ControlInv, LegReply PROVE GuardExact'
  BY <1>22, LegReplyControl DEF ControlKept
<1>23. ASSUME ControlInv, MobileConfirm PROVE GuardExact'
  BY <1>23, MobileControl DEF ControlKept
<1>24. ASSUME ControlInv, Tick PROVE GuardExact'
  BY <1>24 DEF Tick
<1>25. ASSUME ControlInv, Restart PROVE GuardExact'
  BY <1>25 DEF Restart
<1>26. ASSUME ControlInv, CertExpires PROVE GuardExact'
  BY <1>26 DEF CertExpires
<1>27. ASSUME ControlInv, NEW o \in Offsets, ClockDrifts(o) PROVE GuardExact'
  BY <1>27 DEF ClockDrifts
<1>28. ASSUME ControlInv, UNCHANGED vars PROVE GuardExact'
  BY <1>28 DEF vars
<1> QED
  BY <1>1, <1>2, <1>3, <1>4, <1>5, <1>6, <1>7, <1>8, <1>9, <1>10, <1>11, <1>12,
     <1>13, <1>14, <1>15, <1>16, <1>17, <1>18, <1>19, <1>20, <1>21, <1>22, <1>23,
     <1>24, <1>25, <1>26, <1>27, <1>28
     DEF Next, Client, Exchange, User, World

\* Every activation runs under the one that waits for it.
LEMMA NestStep == ControlInv /\ [Next]_vars => Nesting'
<1> USE DEF ctxVars, authVars, frameVars, localVars, deviceVars, historyVars
<1> USE DEF ControlInv, FrameType, GuardExact, Nesting, Idle, NoCall,
            Ensuring, CheckinOver, Sending, Frames, RequestPcs, AuthPcs,
            AfterEnsure, MoreLegs, ScopedKinds, Kinds, CertRecoverable, Tls
<1>1. ASSUME ControlInv, NEW p \in {"right", "wrong"}, Login(p) PROVE Nesting'
  BY <1>1 DEF Login
<1>2. ASSUME ControlInv, LoginMobile PROVE Nesting'
  BY <1>2 DEF LoginMobile
<1>3. ASSUME ControlInv, Logout PROVE Nesting'
  BY <1>3 DEF Logout
<1>4. ASSUME ControlInv, NEW k \in CallKinds, NEW s \in Scopes \union {NoScope}, Begin(k, s)
      PROVE  Nesting'
  <2>1. /\ k \in Kinds /\ call = NoCall /\ call' = [kind |-> k, scope |-> s]
        /\ (k \in ScopedKinds) <=> (s # NoScope)
        /\ apc' = apc /\ mode' = mode
    BY <1>4, BeginControl, Zenon
  <2>2. CASE k = "checkin"
    <3>1. inCheckin' = TRUE /\ cpc' = 1 /\ rpc' = [rpc EXCEPT !["leg"] = "send"]
      BY <1>4, <2>2, BeginControl, Zenon
    <3> QED
      BY <1>4, <2>1, <2>2, <3>1
  <2>3. CASE k # "checkin"
    <3>1. /\ inCheckin' = inCheckin /\ cpc' = cpc
          /\ rpc' = [rpc EXCEPT !["op"] = IF k = "open" THEN "send" ELSE "ensure"]
      BY <1>4, <2>3, BeginControl, Zenon
    <3> QED
      BY <1>4, <2>1, <2>3, <3>1
  <2> QED
    BY <2>2, <2>3, Zenon
<1>5. ASSUME ControlInv, Finish PROVE Nesting'
  BY <1>5 DEF Finish
<1>6. ASSUME ControlInv, LegReturned PROVE Nesting'
  BY <1>6 DEF LegReturned, EndCheckin
<1>7. ASSUME ControlInv, EnsureHit PROVE Nesting'
  BY <1>7 DEF EnsureHit
<1>8. ASSUME ControlInv, EnsureNoCredential PROVE Nesting'
  BY <1>8 DEF EnsureNoCredential, FailEnsure, EndEnsure
<1>9. ASSUME ControlInv, EnsureMiss PROVE Nesting'
  BY <1>9 DEF EnsureMiss, StartCheckin, NoCheckin, StartAcquire
<1>10. ASSUME ControlInv, ProactiveDone PROVE Nesting'
  BY <1>10 DEF ProactiveDone, StartAcquire
<1>11. ASSUME ControlInv, ChallengeReturned PROVE Nesting'
  BY <1>11 DEF ChallengeReturned, StartRecovery, StartCheckin, NoCheckin, EndEnsure
<1>12. ASSUME ControlInv, RtcCheckinDone PROVE Nesting'
  BY <1>12, RecheckControl DEF ControlKept
<1>13. ASSUME ControlInv, TokenReturned PROVE Nesting'
  BY <1>13 DEF TokenReturned, StartRecovery, StartCheckin, NoCheckin, EndEnsure
<1>14. ASSUME ControlInv, DriftCheckinDone PROVE Nesting'
  BY <1>14, RecheckControl DEF ControlKept
<1>15. ASSUME ControlInv, NEW f \in {"op", "auth"}, CertCheckinDone(f)
       PROVE  Nesting'
  BY <1>15, CertControl DEF ControlKept
<1>16. ASSUME ControlInv, NEW f \in Frames, SendUnreachable(f) PROVE Nesting'
  BY <1>16 DEF SendUnreachable, Fail
<1>17. ASSUME ControlInv, NEW f \in Frames, SendLost(f) PROVE Nesting'
  BY <1>17 DEF SendLost, Fail, NotExecuted, Executed, Repaired
<1>18. ASSUME ControlInv, NEW f \in Frames, SendExpired(f) PROVE Nesting'
  BY <1>18 DEF SendExpired, Fail, StartCheckin, NoCheckin
<1>19. ASSUME ControlInv, OpReply PROVE Nesting'
  BY <1>19, OpReplyControl DEF ControlKept
<1>20. ASSUME ControlInv, ChallengeReply PROVE Nesting'
  BY <1>20, AuthReplyControl DEF ControlKept
<1>21. ASSUME ControlInv, TokenReply PROVE Nesting'
  BY <1>21, AuthReplyControl DEF ControlKept
<1>22. ASSUME ControlInv, LegReply PROVE Nesting'
  BY <1>22, LegReplyControl DEF ControlKept
<1>23. ASSUME ControlInv, MobileConfirm PROVE Nesting'
  BY <1>23, MobileControl DEF ControlKept
<1>24. ASSUME ControlInv, Tick PROVE Nesting'
  BY <1>24 DEF Tick
<1>25. ASSUME ControlInv, Restart PROVE Nesting'
  BY <1>25 DEF Restart
<1>26. ASSUME ControlInv, CertExpires PROVE Nesting'
  BY <1>26 DEF CertExpires
<1>27. ASSUME ControlInv, NEW o \in Offsets, ClockDrifts(o) PROVE Nesting'
  BY <1>27 DEF ClockDrifts
<1>28. ASSUME ControlInv, UNCHANGED vars PROVE Nesting'
  BY <1>28 DEF vars
<1> QED
  BY <1>1, <1>2, <1>3, <1>4, <1>5, <1>6, <1>7, <1>8, <1>9, <1>10, <1>11, <1>12,
     <1>13, <1>14, <1>15, <1>16, <1>17, <1>18, <1>19, <1>20, <1>21, <1>22, <1>23,
     <1>24, <1>25, <1>26, <1>27, <1>28
     DEF Next, Client, Exchange, User, World

-----------------------------------------------------------------------------
(* Effects on the device                                                   *)

\* Only the last send of a request is executed, and its code tells.
LEMMA EffectStep == ControlInv /\ HistoryType /\ Effects /\ [Next]_vars => Effects'
<1> USE DEF ctxVars, authVars, frameVars, localVars, deviceVars, historyVars
<1> USE DEF Effects, HistoryType, Bump, ControlInv, FrameType, GuardExact,
            Nesting, Idle, NoCall, Ensuring, CheckinOver, Sending, Frames,
            RequestPcs, AuthPcs, AfterEnsure, MoreLegs
<1>1. ASSUME ControlInv, HistoryType, Effects, NEW p \in {"right", "wrong"}, Login(p)
      PROVE  Effects'
  BY <1>1 DEF Login
<1>2. ASSUME ControlInv, HistoryType, Effects, LoginMobile PROVE Effects'
  BY <1>2 DEF LoginMobile
<1>3. ASSUME ControlInv, HistoryType, Effects, Logout PROVE Effects'
  BY <1>3 DEF Logout
<1>4. ASSUME ControlInv, HistoryType, Effects, NEW k \in CallKinds, NEW s \in Scopes \union {NoScope}, Begin(k, s)
      PROVE  Effects'
  <2>1. /\ call = NoCall /\ applied' = applied /\ rc' = rc
        /\ \/ rpc' = [rpc EXCEPT !["leg"] = "send"]
           \/ rpc' = [rpc EXCEPT !["op"] = IF k = "open" THEN "send" ELSE "ensure"]
    BY <1>4, BeginControl, Zenon
  <2> QED
    BY <1>4, <2>1
<1>5. ASSUME ControlInv, HistoryType, Effects, Finish PROVE Effects'
  BY <1>5 DEF Finish
<1>6. ASSUME ControlInv, HistoryType, Effects, LegReturned PROVE Effects'
  BY <1>6 DEF LegReturned, EndCheckin
<1>7. ASSUME ControlInv, HistoryType, Effects, EnsureHit PROVE Effects'
  BY <1>7 DEF EnsureHit
<1>8. ASSUME ControlInv, HistoryType, Effects, EnsureNoCredential
      PROVE  Effects'
  BY <1>8 DEF EnsureNoCredential, FailEnsure, EndEnsure
<1>9. ASSUME ControlInv, HistoryType, Effects, EnsureMiss PROVE Effects'
  BY <1>9 DEF EnsureMiss, StartCheckin, NoCheckin, StartAcquire
<1>10. ASSUME ControlInv, HistoryType, Effects, ProactiveDone PROVE Effects'
  BY <1>10 DEF ProactiveDone, StartAcquire
<1>11. ASSUME ControlInv, HistoryType, Effects, ChallengeReturned
       PROVE  Effects'
  BY <1>11 DEF ChallengeReturned, StartRecovery, StartCheckin, NoCheckin, EndEnsure
<1>12. ASSUME ControlInv, HistoryType, Effects, RtcCheckinDone PROVE Effects'
  <2>1. applied' = applied
    BY <1>12, Zenon DEF RtcCheckinDone
  <2> QED
    BY <1>12, <2>1, RecheckControl, SMT DEF ControlKept
<1>13. ASSUME ControlInv, HistoryType, Effects, TokenReturned PROVE Effects'
  <2>1. /\ apc = "post" /\ call' = call /\ applied' = applied /\ rc' = rc
        /\ \/ rpc' = [rpc EXCEPT !["op"] = AfterEnsure, !["auth"] = "idle"]
           \/ rpc' = [rpc EXCEPT !["auth"] = "idle", !["leg"] = "send"]
           \/ rpc' = [rpc EXCEPT !["op"] = "ret", !["auth"] = "idle"] /\ rc # "OK"
    BY <1>13, Zenon DEF TokenReturned, StartRecovery
  <2> QED
    BY <1>13, <2>1
<1>14. ASSUME ControlInv, HistoryType, Effects, DriftCheckinDone PROVE Effects'
  <2>1. applied' = applied
    BY <1>14, Zenon DEF DriftCheckinDone
  <2> QED
    BY <1>14, <2>1, RecheckControl, SMT DEF ControlKept
<1>15. ASSUME ControlInv, HistoryType, Effects, NEW f \in {"op", "auth"}, CertCheckinDone(f)
       PROVE  Effects'
  <2>1. applied' = applied
    BY <1>15, Zenon DEF CertCheckinDone
  <2> QED
    BY <1>15, <2>1, CertControl, SMT DEF ControlKept
<1>16. ASSUME ControlInv, HistoryType, Effects, NEW f \in Frames, SendUnreachable(f)
       PROVE  Effects'
  BY <1>16 DEF SendUnreachable, Fail
<1>17. ASSUME ControlInv, HistoryType, Effects, NEW f \in Frames, SendLost(f)
       PROVE  Effects'
  <2>1. /\ Sending(f) /\ rpc' = [rpc EXCEPT ![f] = "ret"] /\ rc' = "NETWORK" /\ call' = call
        /\ applied' = applied \/ (f = "op" /\ applied' = Bump(applied))
    BY <1>17, Zenon DEF SendLost, Fail, BrokenOffCode, NotExecuted, Executed
  <2> QED
    BY <1>17, <2>1
<1>18. ASSUME ControlInv, HistoryType, Effects, NEW f \in Frames, SendExpired(f)
       PROVE  Effects'
  <2>1. /\ Sending(f) /\ call' = call /\ applied' = applied
        /\ \/ rpc' = [rpc EXCEPT ![f] = "cert", !["leg"] = "send"] /\ rc' = rc
           \/ rpc' = [rpc EXCEPT ![f] = "ret"] /\ rc' = "NETWORK"
    BY <1>18, Zenon DEF SendExpired, Fail
  <2> QED
    BY <1>18, <2>1
<1>19. ASSUME ControlInv, HistoryType, Effects, OpReply PROVE Effects'
  <2>1. Sending("op") /\ call' = call
    BY <1>19, OpReplyControl, Zenon DEF ControlKept
  <2>2. CASE OpExecuted
    BY <1>19, <2>1, <2>2 DEF OpExecuted
  <2>3. CASE OpRefused
    BY <1>19, <2>1, <2>3 DEF OpRefused
  <2> QED
    BY <1>19, <2>2, <2>3, OpReplyEffect, Zenon
<1>20. ASSUME ControlInv, HistoryType, Effects, ChallengeReply PROVE Effects'
  <2>1. applied' = applied
    BY <1>20, Zenon DEF ChallengeReply
  <2> QED
    BY <1>20, <2>1, AuthReplyControl, SMT DEF ControlKept
<1>21. ASSUME ControlInv, HistoryType, Effects, TokenReply PROVE Effects'
  <2>1. applied' = applied
    BY <1>21, Zenon DEF TokenReply
  <2> QED
    BY <1>21, <2>1, AuthReplyControl, SMT DEF ControlKept
<1>22. ASSUME ControlInv, HistoryType, Effects, LegReply PROVE Effects'
  <2>1. applied' = applied
    BY <1>22, Zenon DEF LegReply
  <2> QED
    BY <1>22, <2>1, LegReplyControl, SMT DEF ControlKept
<1>23. ASSUME ControlInv, HistoryType, Effects, MobileConfirm PROVE Effects'
  <2>1. apc = "confirm" /\ call' = call /\ applied' = applied
    BY <1>23, Zenon DEF MobileConfirm
  <2>2. rpc["op"] \in {"ensure", "ensure2"} /\ applied = 0
    BY <1>23, <2>1
  <2>3. CASE rpc' = [rpc EXCEPT !["op"] = AfterEnsure]
    BY <1>23, <2>1, <2>2, <2>3
  <2>4. CASE rpc' = [rpc EXCEPT !["op"] = "ret", !["auth"] = "idle"] /\ rc' # "OK"
    BY <1>23, <2>1, <2>2, <2>4
  <2> QED
    BY <1>23, <2>3, <2>4, MobileControl, Zenon
<1>24. ASSUME ControlInv, HistoryType, Effects, Tick PROVE Effects'
  BY <1>24 DEF Tick
<1>25. ASSUME ControlInv, HistoryType, Effects, Restart PROVE Effects'
  BY <1>25 DEF Restart
<1>26. ASSUME ControlInv, HistoryType, Effects, CertExpires PROVE Effects'
  BY <1>26 DEF CertExpires
<1>27. ASSUME ControlInv, HistoryType, Effects, NEW o \in Offsets, ClockDrifts(o)
       PROVE  Effects'
  BY <1>27 DEF ClockDrifts
<1>28. ASSUME ControlInv, HistoryType, Effects, UNCHANGED vars PROVE Effects'
  BY <1>28 DEF vars
<1> QED
  BY <1>1, <1>2, <1>3, <1>4, <1>5, <1>6, <1>7, <1>8, <1>9, <1>10, <1>11, <1>12,
     <1>13, <1>14, <1>15, <1>16, <1>17, <1>18, <1>19, <1>20, <1>21, <1>22, <1>23,
     <1>24, <1>25, <1>26, <1>27, <1>28
     DEF Next, Client, Exchange, User, World

-----------------------------------------------------------------------------
(* Codes and last_error                                                    *)

\* An activation, or a check-in of the application, has returned its code
Returned ==
  \/ \E f \in Frames : rpc[f] = "ret"
  \/ call.kind = "checkin" /\ cpc = 0

\* Code and last_error belong together; a refused push confirmation keeps its
\* code over whatever the drift check-in left in last_error
Agreed ==
  /\ Fits(rc, err.http) \/ (mode = "mobile" /\ rc = "AUTH_FAILED")
  /\ err.expired => rc = "OK" \/ rc = "NETWORK" \/ mode = "mobile"

\* Every code that is returned belongs to the last_error left with it, and a
\* request that was executed and failed is a 500
Answered ==
  /\ Returned => Agreed
  /\ applied = 1 /\ rc = "DEVICE" => err.http = 500

\* A failure exit that sets both agrees.
LEMMA FailureAgrees ==
  ASSUME NEW code, NEW http, NEW expired \in BOOLEAN,
         Fits(code, http), expired => code = "NETWORK",
         rc' = code, err' = Err(http, expired)
  PROVE  Agreed'
<1>1. err'.http = http /\ err'.expired = expired
  BY DEF Err
<1> QED
  BY <1>1, Zenon DEF Agreed

\* So does a reply that ends its activation.
LEMMA DeliverAgrees ==
  ASSUME NEW f, Delivered(f)
  PROVE  \/ rpc' = [rpc EXCEPT ![f] = "ret"] /\ Agreed'
         \/ f = "op" /\ rpc' = [rpc EXCEPT ![f] = "ensure2"]
<1>1. PICK r \in Replies, code \in Codes, http \in Statuses :
        Fits(code, http) /\ Deliver(f, r, code, http)
  BY Zenon DEF Delivered
<1>2. CASE TokenRejected(f, r)
  BY <1>1, <1>2, Zenon DEF Deliver, TokenRejected
<1>3. CASE ~TokenRejected(f, r) /\ code = "OK"
  <2>1. rpc' = [rpc EXCEPT ![f] = "ret"] /\ rc' = "OK"
    BY <1>1, <1>3, Zenon DEF Deliver
  <2>2. \A h : Fits("OK", h)
    BY DEF Fits
  <2> QED
    BY <2>1, <2>2, Zenon DEF Agreed
<1>4. CASE ~TokenRejected(f, r) /\ code # "OK"
  <2>1. /\ rpc' = [rpc EXCEPT ![f] = "ret"]
        /\ rc' = code /\ err' = Err(http, FALSE)
    BY <1>1, <1>4, Zenon DEF Deliver
  <2> QED
    BY <1>1, <2>1, FailureAgrees, Zenon
<1> QED
  BY <1>2, <1>3, <1>4, Zenon

\* Codes keep agreeing with last_error through every recovery and resend.
LEMMA AnswerStep ==
  ControlInv /\ HistoryType /\ Effects /\ Answered /\ [Next]_vars => Answered'
<1> USE DEF ctxVars, authVars, frameVars, localVars, deviceVars, historyVars
<1> USE DEF Answered, Returned, Effects, HistoryType, ControlInv, FrameType, GuardExact,
            Nesting, Idle, NoCall, Ensuring, CheckinOver, Sending, Frames,
            RequestPcs, AuthPcs, AfterEnsure, MoreLegs
<1>1. ASSUME ControlInv, HistoryType, Effects, Answered, NEW p \in {"right", "wrong"}, Login(p)
      PROVE  Answered'
  BY <1>1 DEF Login, Agreed
<1>2. ASSUME ControlInv, HistoryType, Effects, Answered, LoginMobile
      PROVE  Answered'
  BY <1>2 DEF LoginMobile, Agreed
<1>3. ASSUME ControlInv, HistoryType, Effects, Answered, Logout
      PROVE  Answered'
  BY <1>3 DEF Logout, Agreed
<1>4. ASSUME ControlInv, HistoryType, Effects, Answered, NEW k \in CallKinds, NEW s \in Scopes \union {NoScope}, Begin(k, s)
      PROVE  Answered'
  <2>1. /\ call = NoCall /\ call' = [kind |-> k, scope |-> s] /\ applied' = applied
        /\ \/ /\ k = "checkin" /\ cpc' = 1
              /\ rpc' = [rpc EXCEPT !["leg"] = "send"]
           \/ /\ k # "checkin" /\ cpc' = cpc
              /\ rpc' = [rpc EXCEPT !["op"] = IF k = "open" THEN "send" ELSE "ensure"]
    BY <1>4, BeginControl, ZenonT(60)
  <2> QED
    BY <1>4, <2>1
<1>5. ASSUME ControlInv, HistoryType, Effects, Answered, Finish
      PROVE  Answered'
  BY <1>5 DEF Finish
<1>6. ASSUME ControlInv, HistoryType, Effects, Answered, LegReturned
      PROVE  Answered'
  BY <1>6 DEF LegReturned, EndCheckin, Agreed
<1>7. ASSUME ControlInv, HistoryType, Effects, Answered, EnsureHit
      PROVE  Answered'
  BY <1>7 DEF EnsureHit
<1>8. ASSUME ControlInv, HistoryType, Effects, Answered, EnsureNoCredential
      PROVE  Answered'
  <2>1. /\ rc' = "AUTH_EXPIRED" /\ err' = Err(0, FALSE) /\ applied' = applied
    BY <1>8, Zenon DEF EnsureNoCredential, FailEnsure, NoErr
  <2>2. Fits("AUTH_EXPIRED", 0) /\ "AUTH_EXPIRED" # "DEVICE"
    BY DEF Fits
  <2>3. Agreed'
    BY <2>1, <2>2, FailureAgrees, Zenon
  <2> QED
    BY <2>1, <2>2, <2>3, Zenon
<1>9. ASSUME ControlInv, HistoryType, Effects, Answered, EnsureMiss
      PROVE  Answered'
  BY <1>9 DEF EnsureMiss, StartCheckin, NoCheckin, StartAcquire
<1>10. ASSUME ControlInv, HistoryType, Effects, Answered, ProactiveDone
      PROVE  Answered'
  BY <1>10 DEF ProactiveDone, StartAcquire
<1>11. ASSUME ControlInv, HistoryType, Effects, Answered, ChallengeReturned
      PROVE  Answered'
  BY <1>11 DEF ChallengeReturned, StartRecovery, StartCheckin, NoCheckin, EndEnsure, Agreed
<1>12. ASSUME ControlInv, HistoryType, Effects, Answered, RtcCheckinDone
      PROVE  Answered'
  <2>1. CASE rc = "OK"
    BY <1>12, <2>1 DEF RtcCheckinDone
  <2>2. CASE rc # "OK"
    <3>1. /\ rc' = "SCOPE_DENIED" /\ err' = Err(403, FALSE)
      BY <1>12, <2>2, Zenon DEF RtcCheckinDone, FailEnsure
    <3>2. Fits("SCOPE_DENIED", 403) /\ "SCOPE_DENIED" # "DEVICE"
      BY DEF Fits
    <3>3. Agreed'
      BY <3>1, <3>2, FailureAgrees, Zenon
    <3> QED
      BY <3>1, <3>2, <3>3, Zenon
  <2> QED
    BY <2>1, <2>2, Zenon
<1>13. ASSUME ControlInv, HistoryType, Effects, Answered, TokenReturned
      PROVE  Answered'
  <2>1. /\ apc = "post" /\ rpc["auth"] = "ret"
        /\ call' = call /\ applied' = applied /\ rc' = rc /\ err' = err /\ mode' = mode
        /\ \/ rpc' = [rpc EXCEPT !["op"] = AfterEnsure, !["auth"] = "idle"]
           \/ rpc' = [rpc EXCEPT !["auth"] = "idle", !["leg"] = "send"]
           \/ rpc' = [rpc EXCEPT !["op"] = "ret", !["auth"] = "idle"]
    BY <1>13, Zenon DEF TokenReturned, StartRecovery
  <2>2. Agreed /\ Agreed'
    BY <1>13, <2>1 DEF Agreed
  <2> QED
    BY <1>13, <2>1, <2>2
<1>14. ASSUME ControlInv, HistoryType, Effects, Answered, DriftCheckinDone
      PROVE  Answered'
  <2>1. CASE rc = "OK"
    BY <1>14, <2>1 DEF DriftCheckinDone
  <2>2. CASE rc # "OK"
    <3>1. /\ rc' = "AUTH_FAILED" /\ err' = Err(401, FALSE)
      BY <1>14, <2>2, Zenon DEF DriftCheckinDone, FailEnsure
    <3>2. Fits("AUTH_FAILED", 401) /\ "AUTH_FAILED" # "DEVICE"
      BY DEF Fits
    <3>3. Agreed'
      BY <3>1, <3>2, FailureAgrees, Zenon
    <3> QED
      BY <3>1, <3>2, <3>3, Zenon
  <2> QED
    BY <2>1, <2>2, Zenon
<1>15. ASSUME ControlInv, HistoryType, Effects, Answered, NEW f \in {"op", "auth"}, CertCheckinDone(f)
      PROVE  Answered'
  <2>2. CASE rc = "OK"
    <3>1. rc' = "OK" /\ "OK" # "DEVICE"
      BY <1>15, <2>2 DEF CertCheckinDone
    <3>2. \A h : Fits("OK", h)
      BY DEF Fits
    <3> QED
      BY <3>1, <3>2, Zenon DEF Agreed
  <2>3. CASE rc # "OK"
    <3>1. rc' = "NETWORK" /\ err' = Err(0, TRUE)
      BY <1>15, <2>3, Zenon DEF CertCheckinDone, Fail
    <3>2. Fits("NETWORK", 0) /\ "NETWORK" # "DEVICE"
      BY DEF Fits
    <3>3. Agreed'
      BY <3>1, <3>2, FailureAgrees, Zenon
    <3> QED
      BY <3>1, <3>2, <3>3, Zenon
  <2> QED
    BY <2>2, <2>3, Zenon
<1>16. ASSUME ControlInv, HistoryType, Effects, Answered, NEW f \in Frames, SendUnreachable(f)
      PROVE  Answered'
  <2>1. rc' = "UNREACHABLE" /\ err' = Err(0, FALSE)
    BY <1>16, Zenon DEF SendUnreachable, Fail
  <2>2. Fits("UNREACHABLE", 0) /\ "UNREACHABLE" # "DEVICE"
    BY DEF Fits
  <2>3. Agreed'
    BY <2>1, <2>2, FailureAgrees, Zenon
  <2> QED
    BY <2>1, <2>2, <2>3, Zenon
<1>17. ASSUME ControlInv, HistoryType, Effects, Answered, NEW f \in Frames, SendLost(f)
      PROVE  Answered'
  <2>1. rc' = "NETWORK" /\ err' = Err(0, FALSE)
    BY <1>17, Zenon DEF SendLost, Fail, BrokenOffCode
  <2>2. Fits("NETWORK", 0) /\ "NETWORK" # "DEVICE"
    BY DEF Fits
  <2>3. Agreed'
    BY <2>1, <2>2, FailureAgrees, Zenon
  <2> QED
    BY <2>1, <2>2, <2>3, Zenon
<1>18. ASSUME ControlInv, HistoryType, Effects, Answered, NEW f \in Frames, SendExpired(f)
      PROVE  Answered'
  <2>1. Fits("NETWORK", 0) /\ "NETWORK" # "DEVICE"
    BY DEF Fits
  <2>2. CASE rpc[f] = "send" /\ CertRecoverable(f)
    <3>1. /\ rpc' = [rpc EXCEPT ![f] = "cert", !["leg"] = "send"] /\ cpc' = 1
          /\ call' = call /\ applied' = applied
      BY <1>18, <2>2, Zenon DEF SendExpired, StartCheckin
    <3> QED
      BY <1>18, <2>2, <3>1
  <2>3. CASE ~(rpc[f] = "send" /\ CertRecoverable(f))
    <3>1. rc' = "NETWORK" /\ err' = Err(0, rpc[f] # "send2")
      BY <1>18, <2>3, Zenon DEF SendExpired, Fail
    <3>2. (rpc[f] # "send2") \in BOOLEAN
      BY Zenon
    <3>3. Agreed'
      BY <2>1, <3>1, <3>2, FailureAgrees, Zenon
    <3> QED
      BY <2>1, <3>1, <3>3, Zenon
  <2> QED
    BY <2>2, <2>3, Zenon
<1>19. ASSUME ControlInv, HistoryType, Effects, Answered, OpReply
      PROVE  Answered'
  <2>1. Sending("op") /\ call' = call /\ cpc' = cpc
    BY <1>19, OpReplyControl, Zenon DEF ControlKept
  <2>2. applied' = 1 /\ rc' = "DEVICE" => err'.http = 500
    <3>1. CASE OpExecuted
      BY <3>1, Zenon DEF OpExecuted
    <3>2. CASE OpRefused
      BY <1>19, <2>1, <3>2 DEF OpRefused
    <3> QED
      BY <1>19, <3>1, <3>2, OpReplyEffect, Zenon
  <2>3. CASE Agreed'
    BY <2>2, <2>3, Zenon
  <2>4. CASE rpc' = [rpc EXCEPT !["op"] = "ensure2"]
    BY <1>19, <2>1, <2>2, <2>4
  <2> QED
    BY <1>19, <2>3, <2>4, OpReplyDelivers, DeliverAgrees, ZenonT(60)
<1>20. ASSUME ControlInv, HistoryType, Effects, Answered, ChallengeReply
      PROVE  Answered'
  <2>1. Sending("auth") /\ applied' = applied
    BY <1>20, Zenon DEF ChallengeReply
  <2>2. Agreed' /\ "auth" # "op"
    BY <1>20, AuthReplyDelivers, DeliverAgrees
  <2>3. applied' = 0
    BY <1>20, <2>1
  <2> QED
    BY <2>2, <2>3
<1>21. ASSUME ControlInv, HistoryType, Effects, Answered, TokenReply
      PROVE  Answered'
  <2>1. Sending("auth") /\ applied' = applied
    BY <1>21, Zenon DEF TokenReply
  <2>2. Agreed' /\ "auth" # "op"
    BY <1>21, AuthReplyDelivers, DeliverAgrees
  <2>3. applied' = 0
    BY <1>21, <2>1
  <2> QED
    BY <2>2, <2>3
<1>22. ASSUME ControlInv, HistoryType, Effects, Answered, LegReply
      PROVE  Answered'
  <2>1. Sending("leg") /\ applied' = applied
    BY <1>22, Zenon DEF LegReply
  <2>2. Agreed' /\ "leg" # "op"
    BY <1>22, LegReplyDelivers, DeliverAgrees
  <2>3. applied' = 0
    BY <1>22, <2>1
  <2> QED
    BY <2>2, <2>3
<1>23. ASSUME ControlInv, HistoryType, Effects, Answered, MobileConfirm
      PROVE  Answered'
  <2>1. /\ apc = "confirm" /\ call' = call /\ applied' = applied /\ cpc' = cpc
        /\ mode' = mode
    BY <1>23, Zenon DEF MobileConfirm
  <2>2. applied' = 0 /\ mode' = "mobile"
    BY <1>23, <2>1
  <2>3. CASE rpc' = [rpc EXCEPT !["op"] = AfterEnsure]
    BY <1>23, <2>1, <2>2, <2>3
  <2>4. CASE ConfirmFailed
    <3>1. PICK code, e : /\ Fits(code, e.http) \/ code = "AUTH_FAILED"
                         /\ FailEnsure(code, e)
      <4>1. ASSUME NEW x \in ConfirmFailures
            PROVE  Fits(x.code, Err(x.http, FALSE).http)
        BY DEF ConfirmFailures, Fits, Err
      <4>2. Fits("NETWORK", Err(0, TRUE).http)
        BY DEF Fits, Err
      <4> QED
        BY <2>4, <4>1, <4>2, Zenon DEF ConfirmFailed
    <3>2. rc' = code /\ err' = e
      BY <3>1, Zenon DEF FailEnsure
    <3>3. Agreed'
      BY <2>2, <3>1, <3>2, Zenon DEF Agreed
    <3> QED
      BY <2>2, <3>3
  <2> QED
    BY <1>23, <2>3, <2>4, Zenon DEF MobileConfirm
<1>24. ASSUME ControlInv, HistoryType, Effects, Answered, Tick PROVE Answered'
  BY <1>24 DEF Tick, Agreed
<1>25. ASSUME ControlInv, HistoryType, Effects, Answered, Restart
      PROVE  Answered'
  BY <1>25 DEF Restart, Agreed
<1>26. ASSUME ControlInv, HistoryType, Effects, Answered, CertExpires
      PROVE  Answered'
  BY <1>26 DEF CertExpires, Agreed
<1>27. ASSUME ControlInv, HistoryType, Effects, Answered, NEW o \in Offsets, ClockDrifts(o)
      PROVE  Answered'
  BY <1>27 DEF ClockDrifts, Agreed
<1>28. ASSUME ControlInv, HistoryType, Effects, Answered, UNCHANGED vars
      PROVE  Answered'
  BY <1>28 DEF vars, Agreed
<1> QED
  BY <1>1, <1>2, <1>3, <1>4, <1>5, <1>6, <1>7, <1>8, <1>9, <1>10, <1>11, <1>12,
     <1>13, <1>14, <1>15, <1>16, <1>17, <1>18, <1>19, <1>20, <1>21, <1>22, <1>23,
     <1>24, <1>25, <1>26, <1>27, <1>28, SMTT(60)
     DEF Next, Client, Exchange, User, World

-----------------------------------------------------------------------------
(* The session: the proactive latch, the credential, calls without one     *)

\* Before the latch is set no proactive check-in was made
LatchExact == proactives <= 1 /\ (~loginDone => proactives = 0)

\* Without a session a scoped call never gets past ensure_token
Sessionless ==
  mode = "out" /\ call.scope # NoScope =>
    rpc["op"] \in {"ensure", "ret"} /\ apc = "idle"

\* login_checkin_done is set before the proactive check-in runs.
LEMMA LatchStep == HistoryType /\ LatchExact /\ [Next]_vars => LatchExact'
<1> USE DEF ctxVars, authVars, frameVars, localVars, deviceVars, historyVars
<1>1. ASSUME HistoryType, LatchExact, NEW p \in {"right", "wrong"}, Login(p)
      PROVE  LatchExact'
  BY <1>1 DEF Login, LatchExact, HistoryType, ProactiveDue, Bump
<1>2. ASSUME HistoryType, LatchExact, LoginMobile PROVE LatchExact'
  BY <1>2 DEF LoginMobile, LatchExact, HistoryType, ProactiveDue, Bump
<1>3. ASSUME HistoryType, LatchExact, Logout PROVE LatchExact'
  BY <1>3 DEF Logout, LatchExact, HistoryType, ProactiveDue, Bump
<1>4. ASSUME HistoryType, LatchExact, NEW k \in CallKinds, NEW s \in Scopes \union {NoScope}, Begin(k, s)
      PROVE  LatchExact'
  <2>1. loginDone' = loginDone /\ proactives' = proactives
    BY <1>4, Zenon DEF Begin
  <2> QED
    BY <1>4, <2>1, Zenon DEF LatchExact
<1>5. ASSUME HistoryType, LatchExact, Finish PROVE LatchExact'
  BY <1>5 DEF Finish, LatchExact, HistoryType, ProactiveDue, Bump
<1>6. ASSUME HistoryType, LatchExact, LegReturned PROVE LatchExact'
  BY <1>6 DEF LegReturned, EndCheckin, LatchExact, HistoryType, ProactiveDue, Bump
<1>7. ASSUME HistoryType, LatchExact, EnsureHit PROVE LatchExact'
  BY <1>7 DEF EnsureHit, LatchExact, HistoryType, ProactiveDue, Bump
<1>8. ASSUME HistoryType, LatchExact, EnsureNoCredential PROVE LatchExact'
  BY <1>8
     DEF EnsureNoCredential, FailEnsure, EndEnsure, LatchExact, HistoryType,
         ProactiveDue, Bump
<1>9. ASSUME HistoryType, LatchExact, EnsureMiss PROVE LatchExact'
  BY <1>9
     DEF EnsureMiss, StartCheckin, NoCheckin, StartAcquire, LatchExact, HistoryType,
         ProactiveDue, Bump
<1>10. ASSUME HistoryType, LatchExact, ProactiveDone PROVE LatchExact'
  BY <1>10 DEF ProactiveDone, StartAcquire, LatchExact, HistoryType, ProactiveDue, Bump
<1>11. ASSUME HistoryType, LatchExact, ChallengeReturned PROVE LatchExact'
  BY <1>11
     DEF ChallengeReturned, StartRecovery, StartCheckin, NoCheckin, EndEnsure,
         LatchExact, HistoryType, ProactiveDue, Bump
<1>12. ASSUME HistoryType, LatchExact, RtcCheckinDone PROVE LatchExact'
  <2>1. loginDone' = loginDone /\ proactives' = proactives
    BY <1>12, Zenon DEF RtcCheckinDone
  <2> QED
    BY <1>12, <2>1, Zenon DEF LatchExact
<1>13. ASSUME HistoryType, LatchExact, TokenReturned PROVE LatchExact'
  BY <1>13
     DEF TokenReturned, StartRecovery, StartCheckin, NoCheckin, EndEnsure,
         LatchExact, HistoryType, ProactiveDue, Bump
<1>14. ASSUME HistoryType, LatchExact, DriftCheckinDone PROVE LatchExact'
  <2>1. loginDone' = loginDone /\ proactives' = proactives
    BY <1>14, Zenon DEF DriftCheckinDone
  <2> QED
    BY <1>14, <2>1, Zenon DEF LatchExact
<1>15. ASSUME HistoryType, LatchExact, NEW f \in {"op", "auth"}, CertCheckinDone(f)
       PROVE  LatchExact'
  <2>1. loginDone' = loginDone /\ proactives' = proactives
    BY <1>15, Zenon DEF CertCheckinDone
  <2> QED
    BY <1>15, <2>1, Zenon DEF LatchExact
<1>16. ASSUME HistoryType, LatchExact, NEW f \in Frames, SendUnreachable(f)
       PROVE  LatchExact'
  BY <1>16 DEF SendUnreachable, Fail, LatchExact, HistoryType, ProactiveDue, Bump
<1>17. ASSUME HistoryType, LatchExact, NEW f \in Frames, SendLost(f)
       PROVE  LatchExact'
  BY <1>17
     DEF SendLost, Fail, NotExecuted, Executed, Repaired, LatchExact, HistoryType,
         ProactiveDue, Bump
<1>18. ASSUME HistoryType, LatchExact, NEW f \in Frames, SendExpired(f)
       PROVE  LatchExact'
  BY <1>18
     DEF SendExpired, Fail, StartCheckin, NoCheckin, LatchExact, HistoryType,
         ProactiveDue, Bump
<1>19. ASSUME HistoryType, LatchExact, OpReply PROVE LatchExact'
  <2>1. loginDone' = loginDone /\ proactives' = proactives
    BY <1>19, Zenon DEF OpReply
  <2> QED
    BY <1>19, <2>1, Zenon DEF LatchExact
<1>20. ASSUME HistoryType, LatchExact, ChallengeReply PROVE LatchExact'
  <2>1. loginDone' = loginDone /\ proactives' = proactives
    BY <1>20, Zenon DEF ChallengeReply
  <2> QED
    BY <1>20, <2>1, Zenon DEF LatchExact
<1>21. ASSUME HistoryType, LatchExact, TokenReply PROVE LatchExact'
  <2>1. loginDone' = loginDone /\ proactives' = proactives
    BY <1>21, Zenon DEF TokenReply
  <2> QED
    BY <1>21, <2>1, Zenon DEF LatchExact
<1>22. ASSUME HistoryType, LatchExact, LegReply PROVE LatchExact'
  <2>1. loginDone' = loginDone /\ proactives' = proactives
    BY <1>22, Zenon DEF LegReply
  <2> QED
    BY <1>22, <2>1, Zenon DEF LatchExact
<1>23. ASSUME HistoryType, LatchExact, MobileConfirm PROVE LatchExact'
  <2>1. loginDone' = loginDone /\ proactives' = proactives
    BY <1>23, Zenon DEF MobileConfirm
  <2> QED
    BY <1>23, <2>1, Zenon DEF LatchExact
<1>24. ASSUME HistoryType, LatchExact, Tick PROVE LatchExact'
  BY <1>24 DEF Tick, LatchExact, HistoryType, ProactiveDue, Bump
<1>25. ASSUME HistoryType, LatchExact, Restart PROVE LatchExact'
  BY <1>25 DEF Restart, LatchExact, HistoryType, ProactiveDue, Bump
<1>26. ASSUME HistoryType, LatchExact, CertExpires PROVE LatchExact'
  BY <1>26 DEF CertExpires, LatchExact, HistoryType, ProactiveDue, Bump
<1>27. ASSUME HistoryType, LatchExact, NEW o \in Offsets, ClockDrifts(o)
       PROVE  LatchExact'
  BY <1>27 DEF ClockDrifts, LatchExact, HistoryType, ProactiveDue, Bump
<1>28. ASSUME HistoryType, LatchExact, UNCHANGED vars PROVE LatchExact'
  BY <1>28 DEF vars, LatchExact, HistoryType, ProactiveDue, Bump
<1> QED
  BY <1>1, <1>2, <1>3, <1>4, <1>5, <1>6, <1>7, <1>8, <1>9, <1>10, <1>11, <1>12,
     <1>13, <1>14, <1>15, <1>16, <1>17, <1>18, <1>19, <1>20, <1>21, <1>22, <1>23,
     <1>24, <1>25, <1>26, <1>27, <1>28
     DEF Next, Client, Exchange, User, World

\* ensure_token fails at once when there is no session.
LEMMA SessionlessStep == ControlInv /\ Sessionless /\ [Next]_vars => Sessionless'
<1> USE DEF ctxVars, authVars, frameVars, localVars, deviceVars, historyVars
<1> USE DEF Sessionless, Hit, CredentialHeld, ScopedKinds, Kinds, ControlInv,
            FrameType, GuardExact, Nesting, Idle, NoCall, Ensuring,
            CheckinOver, Sending, Frames, RequestPcs, AuthPcs, AfterEnsure,
            MoreLegs
<1>1. ASSUME ControlInv, Sessionless, NEW p \in {"right", "wrong"}, Login(p)
      PROVE  Sessionless'
  BY <1>1 DEF Login
<1>2. ASSUME ControlInv, Sessionless, LoginMobile PROVE Sessionless'
  BY <1>2 DEF LoginMobile
<1>3. ASSUME ControlInv, Sessionless, Logout PROVE Sessionless'
  BY <1>3 DEF Logout
<1>4. ASSUME ControlInv, Sessionless, NEW k \in CallKinds, NEW s \in Scopes \union {NoScope}, Begin(k, s)
      PROVE  Sessionless'
  <2>1. /\ k \in Kinds /\ call = NoCall /\ call' = [kind |-> k, scope |-> s]
        /\ (k \in ScopedKinds) <=> (s # NoScope)
        /\ apc' = apc /\ mode' = mode
    BY <1>4, BeginControl, Zenon
  <2>2. CASE k = "checkin"
    <3>1. inCheckin' = TRUE /\ cpc' = 1 /\ rpc' = [rpc EXCEPT !["leg"] = "send"]
      BY <1>4, <2>2, BeginControl, Zenon
    <3> QED
      BY <1>4, <2>1, <2>2, <3>1
  <2>3. CASE k # "checkin"
    <3>1. /\ inCheckin' = inCheckin /\ cpc' = cpc
          /\ rpc' = [rpc EXCEPT !["op"] = IF k = "open" THEN "send" ELSE "ensure"]
      BY <1>4, <2>3, BeginControl, Zenon
    <3> QED
      BY <1>4, <2>1, <2>3, <3>1
  <2> QED
    BY <2>2, <2>3, Zenon
<1>5. ASSUME ControlInv, Sessionless, Finish PROVE Sessionless'
  BY <1>5 DEF Finish
<1>6. ASSUME ControlInv, Sessionless, LegReturned PROVE Sessionless'
  BY <1>6 DEF LegReturned, EndCheckin
<1>7. ASSUME ControlInv, Sessionless, EnsureHit PROVE Sessionless'
  BY <1>7 DEF EnsureHit
<1>8. ASSUME ControlInv, Sessionless, EnsureNoCredential PROVE Sessionless'
  BY <1>8 DEF EnsureNoCredential, FailEnsure, EndEnsure
<1>9. ASSUME ControlInv, Sessionless, EnsureMiss PROVE Sessionless'
  BY <1>9 DEF EnsureMiss, StartCheckin, NoCheckin, StartAcquire
<1>10. ASSUME ControlInv, Sessionless, ProactiveDone PROVE Sessionless'
  BY <1>10 DEF ProactiveDone, StartAcquire
<1>11. ASSUME ControlInv, Sessionless, ChallengeReturned PROVE Sessionless'
  BY <1>11 DEF ChallengeReturned, StartRecovery, StartCheckin, NoCheckin, EndEnsure
<1>12. ASSUME ControlInv, Sessionless, RtcCheckinDone PROVE Sessionless'
  BY <1>12, RecheckControl DEF ControlKept
<1>13. ASSUME ControlInv, Sessionless, TokenReturned PROVE Sessionless'
  BY <1>13 DEF TokenReturned, StartRecovery, StartCheckin, NoCheckin, EndEnsure
<1>14. ASSUME ControlInv, Sessionless, DriftCheckinDone PROVE Sessionless'
  BY <1>14, RecheckControl DEF ControlKept
<1>15. ASSUME ControlInv, Sessionless, NEW f \in {"op", "auth"}, CertCheckinDone(f)
       PROVE  Sessionless'
  BY <1>15, CertControl DEF ControlKept
<1>16. ASSUME ControlInv, Sessionless, NEW f \in Frames, SendUnreachable(f)
       PROVE  Sessionless'
  BY <1>16 DEF SendUnreachable, Fail
<1>17. ASSUME ControlInv, Sessionless, NEW f \in Frames, SendLost(f)
       PROVE  Sessionless'
  BY <1>17 DEF SendLost, Fail, NotExecuted, Executed, Repaired
<1>18. ASSUME ControlInv, Sessionless, NEW f \in Frames, SendExpired(f)
       PROVE  Sessionless'
  BY <1>18 DEF SendExpired, Fail, StartCheckin, NoCheckin
<1>19. ASSUME ControlInv, Sessionless, OpReply PROVE Sessionless'
  BY <1>19, OpReplyControl DEF ControlKept
<1>20. ASSUME ControlInv, Sessionless, ChallengeReply PROVE Sessionless'
  BY <1>20, AuthReplyControl DEF ControlKept
<1>21. ASSUME ControlInv, Sessionless, TokenReply PROVE Sessionless'
  BY <1>21, AuthReplyControl DEF ControlKept
<1>22. ASSUME ControlInv, Sessionless, LegReply PROVE Sessionless'
  BY <1>22, LegReplyControl DEF ControlKept
<1>23. ASSUME ControlInv, Sessionless, MobileConfirm PROVE Sessionless'
  BY <1>23, MobileControl DEF ControlKept
<1>24. ASSUME ControlInv, Sessionless, Tick PROVE Sessionless'
  BY <1>24 DEF Tick
<1>25. ASSUME ControlInv, Sessionless, Restart PROVE Sessionless'
  BY <1>25 DEF Restart
<1>26. ASSUME ControlInv, Sessionless, CertExpires PROVE Sessionless'
  BY <1>26 DEF CertExpires
<1>27. ASSUME ControlInv, Sessionless, NEW o \in Offsets, ClockDrifts(o)
       PROVE  Sessionless'
  BY <1>27 DEF ClockDrifts
<1>28. ASSUME ControlInv, Sessionless, UNCHANGED vars PROVE Sessionless'
  BY <1>28 DEF vars
<1> QED
  BY <1>1, <1>2, <1>3, <1>4, <1>5, <1>6, <1>7, <1>8, <1>9, <1>10, <1>11, <1>12,
     <1>13, <1>14, <1>15, <1>16, <1>17, <1>18, <1>19, <1>20, <1>21, <1>22, <1>23,
     <1>24, <1>25, <1>26, <1>27, <1>28
     DEF Next, Client, Exchange, User, World

\* A reply drops one cached token or leaves the cache alone.
LEMMA DeliverSession ==
  ASSUME NEW f, NEW r, NEW code, NEW http, Deliver(f, r, code, http)
  PROVE  cache' = cache \/ cache' = [cache EXCEPT ![call.scope] = Absent]
BY Zenon DEF Deliver

\* No answer touches the credential.
LEMMA ReplySession ==
  ASSUME OpReply \/ ChallengeReply \/ TokenReply \/ LegReply
  PROVE  /\ mode' = mode /\ pass' = pass /\ retain' = retain
         /\ cache' = cache \/ cache' = [cache EXCEPT ![call.scope] = Absent]
<1>1. mode' = mode /\ pass' = pass /\ retain' = retain
  BY Zenon DEF OpReply, ChallengeReply, TokenReply, LegReply
<1>2. \E f : Delivered(f)
  BY OpReplyDelivers, AuthReplyDelivers, LegReplyDelivers, Zenon
<1>3. \E f, r, code, http : Deliver(f, r, code, http)
  BY <1>2, Zenon DEF Delivered
<1> QED
  BY <1>1, <1>3, DeliverSession, Zenon

\* The passphrase is scrubbed in the step that caches the token.
LEMMA PassphraseStep == AuthType /\ Nesting /\ PassphraseSpent /\ [Next]_vars => PassphraseSpent'
<1> USE DEF ctxVars, authVars, frameVars, localVars, deviceVars, historyVars
<1>1. ASSUME AuthType, Nesting, PassphraseSpent, NEW p \in {"right", "wrong"}, Login(p)
      PROVE  PassphraseSpent'
  <2>1. cache' = NoTokens
    BY <1>1, Zenon DEF Login
  <2> QED
    BY <2>1 DEF PassphraseSpent, NoTokens
<1>2. ASSUME AuthType, Nesting, PassphraseSpent, LoginMobile
      PROVE  PassphraseSpent'
  <2>1. cache' = NoTokens
    BY <1>2, Zenon DEF LoginMobile
  <2> QED
    BY <2>1 DEF PassphraseSpent, NoTokens
<1>3. ASSUME AuthType, Nesting, PassphraseSpent, Logout PROVE PassphraseSpent'
  <2>1. cache' = NoTokens
    BY <1>3, Zenon DEF Logout
  <2> QED
    BY <2>1 DEF PassphraseSpent, NoTokens
<1>4. ASSUME AuthType, Nesting, PassphraseSpent, NEW k \in CallKinds, NEW s \in Scopes \union {NoScope}, Begin(k, s)
      PROVE  PassphraseSpent'
  <2>1. mode' = mode /\ pass' = pass /\ retain' = retain /\ cache' = cache
    BY <1>4, Zenon DEF Begin
  <2> QED
    BY <1>4, <2>1, Zenon DEF PassphraseSpent
<1>5. ASSUME AuthType, Nesting, PassphraseSpent, Finish PROVE PassphraseSpent'
  <2>1. \/ cache' = NoTokens
        \/ cache' = cache /\ mode' = mode /\ pass' = pass /\ retain' = retain
    BY <1>5, Zenon DEF Finish
  <2>2. \A s \in Scopes : NoTokens[s] = Absent
    BY DEF NoTokens
  <2> QED
    BY <1>5, <2>1, <2>2, Zenon DEF PassphraseSpent
<1>6. ASSUME AuthType, Nesting, PassphraseSpent, LegReturned
      PROVE  PassphraseSpent'
  BY <1>6, Zenon DEF LegReturned, EndCheckin, PassphraseSpent
<1>7. ASSUME AuthType, Nesting, PassphraseSpent, EnsureHit
      PROVE  PassphraseSpent'
  BY <1>7, Zenon DEF EnsureHit, PassphraseSpent
<1>8. ASSUME AuthType, Nesting, PassphraseSpent, EnsureNoCredential
      PROVE  PassphraseSpent'
  BY <1>8, Zenon DEF EnsureNoCredential, FailEnsure, EndEnsure, PassphraseSpent
<1>9. ASSUME AuthType, Nesting, PassphraseSpent, EnsureMiss
      PROVE  PassphraseSpent'
  BY <1>9, Zenon DEF EnsureMiss, StartCheckin, NoCheckin, StartAcquire, PassphraseSpent
<1>10. ASSUME AuthType, Nesting, PassphraseSpent, ProactiveDone
       PROVE  PassphraseSpent'
  BY <1>10, Zenon DEF ProactiveDone, StartAcquire, PassphraseSpent
<1>11. ASSUME AuthType, Nesting, PassphraseSpent, ChallengeReturned
       PROVE  PassphraseSpent'
  BY <1>11, Zenon
     DEF ChallengeReturned, StartRecovery, StartCheckin, NoCheckin, EndEnsure,
         PassphraseSpent
<1>12. ASSUME AuthType, Nesting, PassphraseSpent, RtcCheckinDone
       PROVE  PassphraseSpent'
  <2>1. mode' = mode /\ pass' = pass /\ retain' = retain /\ cache' = cache
    BY <1>12, Zenon DEF RtcCheckinDone
  <2> QED
    BY <1>12, <2>1, Zenon DEF PassphraseSpent
<1>13. ASSUME AuthType, Nesting, PassphraseSpent, TokenReturned
       PROVE  PassphraseSpent'
  <2>1. CASE rc = "OK"
    <3>1. mode' = mode /\ retain' = retain /\ pass' = PassAfterUse
      BY <1>13, <2>1, Zenon DEF TokenReturned, DriftRecoverable
    <3> QED
      BY <1>13, <3>1, Zenon DEF PassphraseSpent, PassAfterUse
  <2>2. CASE rc # "OK"
    <3>1. mode' = mode /\ pass' = pass /\ retain' = retain /\ cache' = cache
      BY <1>13, <2>2, Zenon DEF TokenReturned
    <3> QED
      BY <1>13, <3>1, Zenon DEF PassphraseSpent
  <2> QED
    BY <2>1, <2>2, Zenon
<1>14. ASSUME AuthType, Nesting, PassphraseSpent, DriftCheckinDone
       PROVE  PassphraseSpent'
  <2>1. mode' = mode /\ pass' = pass /\ retain' = retain /\ cache' = cache
    BY <1>14, Zenon DEF DriftCheckinDone
  <2> QED
    BY <1>14, <2>1, Zenon DEF PassphraseSpent
<1>15. ASSUME AuthType, Nesting, PassphraseSpent, NEW f \in {"op", "auth"}, CertCheckinDone(f)
       PROVE  PassphraseSpent'
  <2>1. mode' = mode /\ pass' = pass /\ retain' = retain /\ cache' = cache
    BY <1>15, Zenon DEF CertCheckinDone
  <2> QED
    BY <1>15, <2>1, Zenon DEF PassphraseSpent
<1>16. ASSUME AuthType, Nesting, PassphraseSpent, NEW f \in Frames, SendUnreachable(f)
       PROVE  PassphraseSpent'
  BY <1>16, Zenon DEF SendUnreachable, Fail, PassphraseSpent
<1>17. ASSUME AuthType, Nesting, PassphraseSpent, NEW f \in Frames, SendLost(f)
       PROVE  PassphraseSpent'
  BY <1>17, Zenon DEF SendLost, Fail, NotExecuted, Executed, Repaired, PassphraseSpent
<1>18. ASSUME AuthType, Nesting, PassphraseSpent, NEW f \in Frames, SendExpired(f)
       PROVE  PassphraseSpent'
  BY <1>18, Zenon DEF SendExpired, Fail, StartCheckin, NoCheckin, PassphraseSpent
<1>19. ASSUME AuthType, Nesting, PassphraseSpent, OpReply
       PROVE  PassphraseSpent'
  <2>1. /\ mode' = mode /\ pass' = pass /\ retain' = retain
        /\ cache' = cache \/ cache' = [cache EXCEPT ![call.scope] = Absent]
    BY <1>19, ReplySession, Zenon
  <2>2. \A s \in Scopes : cache[s] = Absent => cache'[s] = Absent
    BY <1>19, <2>1 DEF AuthType
  <2> QED
    BY <1>19, <2>1, <2>2, Zenon DEF PassphraseSpent
<1>20. ASSUME AuthType, Nesting, PassphraseSpent, ChallengeReply
       PROVE  PassphraseSpent'
  <2>1. /\ mode' = mode /\ pass' = pass /\ retain' = retain
        /\ cache' = cache \/ cache' = [cache EXCEPT ![call.scope] = Absent]
    BY <1>20, ReplySession, Zenon
  <2>2. \A s \in Scopes : cache[s] = Absent => cache'[s] = Absent
    BY <1>20, <2>1 DEF AuthType
  <2> QED
    BY <1>20, <2>1, <2>2, Zenon DEF PassphraseSpent
<1>21. ASSUME AuthType, Nesting, PassphraseSpent, TokenReply
       PROVE  PassphraseSpent'
  <2>1. /\ mode' = mode /\ pass' = pass /\ retain' = retain
        /\ cache' = cache \/ cache' = [cache EXCEPT ![call.scope] = Absent]
    BY <1>21, ReplySession, Zenon
  <2>2. \A s \in Scopes : cache[s] = Absent => cache'[s] = Absent
    BY <1>21, <2>1 DEF AuthType
  <2> QED
    BY <1>21, <2>1, <2>2, Zenon DEF PassphraseSpent
<1>22. ASSUME AuthType, Nesting, PassphraseSpent, LegReply
       PROVE  PassphraseSpent'
  <2>1. /\ mode' = mode /\ pass' = pass /\ retain' = retain
        /\ cache' = cache \/ cache' = [cache EXCEPT ![call.scope] = Absent]
    BY <1>22, ReplySession, Zenon
  <2>2. \A s \in Scopes : cache[s] = Absent => cache'[s] = Absent
    BY <1>22, <2>1 DEF AuthType
  <2> QED
    BY <1>22, <2>1, <2>2, Zenon DEF PassphraseSpent
<1>23. ASSUME AuthType, Nesting, PassphraseSpent, MobileConfirm
       PROVE  PassphraseSpent'
  <2>1. apc = "confirm" /\ mode' = mode
    BY <1>23, Zenon DEF MobileConfirm
  <2> QED
    BY <1>23, <2>1 DEF PassphraseSpent, Nesting
<1>24. ASSUME AuthType, Nesting, PassphraseSpent, Tick PROVE PassphraseSpent'
  BY <1>24, Zenon DEF Tick, PassphraseSpent
<1>25. ASSUME AuthType, Nesting, PassphraseSpent, Restart
       PROVE  PassphraseSpent'
  BY <1>25, Zenon DEF Restart, PassphraseSpent
<1>26. ASSUME AuthType, Nesting, PassphraseSpent, CertExpires
       PROVE  PassphraseSpent'
  BY <1>26, Zenon DEF CertExpires, PassphraseSpent
<1>27. ASSUME AuthType, Nesting, PassphraseSpent, NEW o \in Offsets, ClockDrifts(o)
       PROVE  PassphraseSpent'
  BY <1>27, Zenon DEF ClockDrifts, PassphraseSpent
<1>28. ASSUME AuthType, Nesting, PassphraseSpent, UNCHANGED vars PROVE PassphraseSpent'
  BY <1>28, Zenon DEF vars, PassphraseSpent
<1> QED
  BY <1>1, <1>2, <1>3, <1>4, <1>5, <1>6, <1>7, <1>8, <1>9, <1>10, <1>11, <1>12,
     <1>13, <1>14, <1>15, <1>16, <1>17, <1>18, <1>19, <1>20, <1>21, <1>22, <1>23,
     <1>24, <1>25, <1>26, <1>27, <1>28
     DEF Next, Client, Exchange, User, World

-----------------------------------------------------------------------------
(* cert_refreshed                                                          *)

\* RefreshVerified, as a property of one step
RefreshJustified == certRefreshed' # certRefreshed => ~certExpired'

\* A reply to a request under the context's own TLS posture was read from a
\* device whose certificate verifies.
LEMMA VerifiedReply ==
  ASSUME OpReply \/ ChallengeReply \/ TokenReply
  PROVE  ~certExpired'
<1>1. \A f \in {"op", "auth"} : Reachable(f) => ~certExpired
  <2>1. \A f \in {"op", "auth"} : ToDevice(f) /\ Tls(f) # "RELAX"
    BY DEF ToDevice, Tls
  <2> QED
    BY <2>1, Zenon DEF Reachable
<1>2. CASE OpReply
  BY <1>1, <1>2, Zenon DEF OpReply
<1>3. CASE ChallengeReply
  BY <1>1, <1>3, Zenon DEF ChallengeReply, deviceVars
<1>4. CASE TokenReply
  BY <1>1, <1>4, Zenon DEF TokenReply
<1> QED
  BY <1>2, <1>3, <1>4, Zenon

\* Only a verified reply, or the confirm engine's own recovery, sets it.
LEMMA RefreshStep ==
  TypeOK /\ Nesting /\ [Next]_vars => RefreshJustified
<1> USE DEF ctxVars, authVars, frameVars, localVars, deviceVars, historyVars
<1>1. ASSUME NEW p \in {"right", "wrong"}, Login(p) PROVE RefreshJustified
  BY <1>1, Zenon DEF Login, RefreshJustified
<1>2. ASSUME LoginMobile PROVE RefreshJustified
  BY <1>2, Zenon DEF LoginMobile, RefreshJustified
<1>3. ASSUME Logout PROVE RefreshJustified
  BY <1>3, Zenon DEF Logout, RefreshJustified
<1>4. ASSUME NEW k \in CallKinds, NEW s \in Scopes \union {NoScope}, Begin(k, s)
      PROVE  RefreshJustified
  BY <1>4, Zenon DEF Begin, RefreshJustified
<1>5. ASSUME Finish PROVE RefreshJustified
  BY <1>5, Zenon DEF Finish, RefreshJustified
<1>6. ASSUME LegReturned PROVE RefreshJustified
  BY <1>6, Zenon DEF LegReturned, RefreshJustified
<1>7. ASSUME EnsureHit PROVE RefreshJustified
  BY <1>7, Zenon DEF EnsureHit, RefreshJustified
<1>8. ASSUME EnsureNoCredential PROVE RefreshJustified
  BY <1>8, Zenon DEF EnsureNoCredential, RefreshJustified
<1>9. ASSUME EnsureMiss PROVE RefreshJustified
  BY <1>9, Zenon DEF EnsureMiss, RefreshJustified
<1>10. ASSUME ProactiveDone PROVE RefreshJustified
  BY <1>10, Zenon DEF ProactiveDone, RefreshJustified
<1>11. ASSUME ChallengeReturned PROVE RefreshJustified
  BY <1>11, Zenon DEF ChallengeReturned, RefreshJustified
<1>12. ASSUME RtcCheckinDone PROVE RefreshJustified
  BY <1>12, Zenon DEF RtcCheckinDone, RefreshJustified
<1>13. ASSUME TokenReturned PROVE RefreshJustified
  BY <1>13, Zenon DEF TokenReturned, RefreshJustified
<1>14. ASSUME DriftCheckinDone PROVE RefreshJustified
  BY <1>14, Zenon DEF DriftCheckinDone, RefreshJustified
<1>15. ASSUME NEW f \in {"op", "auth"}, CertCheckinDone(f)
       PROVE  RefreshJustified
  BY <1>15, Zenon DEF CertCheckinDone, RefreshJustified
<1>16. ASSUME NEW f \in Frames, SendUnreachable(f) PROVE RefreshJustified
  BY <1>16, Zenon DEF SendUnreachable, RefreshJustified
<1>17. ASSUME NEW f \in Frames, SendLost(f) PROVE RefreshJustified
  BY <1>17, Zenon DEF SendLost, RefreshJustified
<1>18. ASSUME NEW f \in Frames, SendExpired(f) PROVE RefreshJustified
  BY <1>18, Zenon DEF SendExpired, RefreshJustified
<1>19. ASSUME OpReply PROVE RefreshJustified
  BY <1>19, VerifiedReply, Zenon DEF RefreshJustified
<1>20. ASSUME ChallengeReply PROVE RefreshJustified
  BY <1>20, VerifiedReply, Zenon DEF RefreshJustified
<1>21. ASSUME TokenReply PROVE RefreshJustified
  BY <1>21, VerifiedReply, Zenon DEF RefreshJustified
<1>22. ASSUME TypeOK, Nesting, LegReply PROVE RefreshJustified
  <2>1. PICK r, code, http : Deliver("leg", r, code, http)
    BY <1>22, Zenon DEF LegReply
  <2>2. rpc["leg"] # "resend"
    BY <1>22 DEF Nesting
  <2>3. certRefreshed' = (certRefreshed \/ rpc["leg"] = "resend")
    BY <2>1, Zenon DEF Deliver, RefreshProven
  <2>4. certRefreshed \in BOOLEAN
    BY <1>22, Zenon DEF TypeOK, FlagType
  <2> QED
    BY <2>2, <2>3, <2>4, Zenon DEF RefreshJustified
<1>23. ASSUME FlagType, MobileConfirm PROVE RefreshJustified
  <2>1. \/ certRefreshed' = (certRefreshed \/ (certExpired /\ ~certExpired'))
        \/ certRefreshed' = certRefreshed
    BY <1>23, Zenon DEF MobileConfirm
  <2> QED
    BY <1>23, <2>1, Zenon DEF RefreshJustified, FlagType
<1>24. ASSUME Tick PROVE RefreshJustified
  BY <1>24, Zenon DEF Tick, RefreshJustified
<1>25. ASSUME Restart PROVE RefreshJustified
  BY <1>25, Zenon DEF Restart, RefreshJustified
<1>26. ASSUME CertExpires PROVE RefreshJustified
  BY <1>26, Zenon DEF CertExpires, RefreshJustified
<1>27. ASSUME NEW o \in Offsets, ClockDrifts(o) PROVE RefreshJustified
  BY <1>27, Zenon DEF ClockDrifts, RefreshJustified
<1>28. ASSUME UNCHANGED vars PROVE RefreshJustified
  BY <1>28, Zenon DEF vars, RefreshJustified
<1> QED
  BY <1>1, <1>2, <1>3, <1>4, <1>5, <1>6, <1>7, <1>8, <1>9, <1>10, <1>11, <1>12,
     <1>13, <1>14, <1>15, <1>16, <1>17, <1>18, <1>19, <1>20, <1>21, <1>22, <1>23,
     <1>24, <1>25, <1>26, <1>27, <1>28
     DEF Next, Client, Exchange, User, World, TypeOK

-----------------------------------------------------------------------------
(* The recoveries of an undisturbed call                                   *)

\* What a completed check-in leaves: clock set and true, the certificate valid or
\* the old one kept
Mended == rtcSet /\ off = 0 /\ (certExpired => kept)

CertGood == ~certExpired
OnceKept == kept

\* The device was asked again and still serves the expired certificate
Stale == kept /\ rc = "NETWORK" /\ err = Err(0, TRUE)

\* The request that started a second check-in has not been answered since
Retrying ==
  \/ rpc["op"] \in {"cert", "resend", "ret"} \/ rpc["auth"] \in {"cert", "resend"}
  \/ rpc["auth"] = "ret" /\ rc # "OK"

\* The check-ins of a call are counted, and its steps know one was made
Counted ==
  /\ Idle => checkins = 0
  /\ spent => apc # "idle"
  /\ cpc # 0 \/ spent \/ apc \in {"rtc", "reget", "driftck"} => checkins # 0
  /\ \A f \in Frames : rpc[f] \in {"cert", "resend"} => checkins # 0

\* Before the latch is set no token was ever asked for
LatchCovers ==
  opts.onLogin /\ ~loginDone =>
    /\ \A s \in Scopes : cache[s] = Absent
    /\ apc = "idle"
    /\ call.scope # NoScope => rpc["op"] \in {"ensure", "ret"} /\ checkins = 0

\* An acquisition has a credential, and a wrong one buys nothing
Credentialed ==
  /\ apc # "idle" => CredentialHeld
  /\ apc \in {"get", "reget", "post", "rtc", "driftck"} => mode = "pass"
  /\ apc = "post" /\ rpc["auth"] = "ret" /\ rc = "OK" => pass # "wrong"

\* The time ensure_token read is past, and not long past
InTime ==
  /\ nowA <= now
  /\ ~disturbed /\ apc # "idle" => now - nowA < Lifetime - Skew

\* One check-in mends the device, and then nothing but a kept certificate asks
\* for another, which is the last
Mends ==
  ~disturbed /\ pass # "wrong" =>
    /\ checkins <= 1 \/ (checkins = 2 /\ OnceKept)
    /\ checkins = 2 => CertGood \/ Retrying
    /\ rpc["leg"] = "ret" => rc = "OK" /\ (cpc = 3 => Mended)
    /\ checkins # 0 /\ cpc = 0 /\ rpc["op"] # "ret" => Mended
    /\ checkins # 0 /\ rpc["auth"] = "ret" => rc = "OK" \/ Stale
    /\ /\ cpc = 0
       /\ "cert" \in {rpc["op"], rpc["auth"]} \/ apc \in {"rtc", "driftck"}
       => rc = "OK"

\* The call has all it needs to succeed
Helped ==
  /\ ~disturbed /\ ~opts.noAuto /\ mode = "pass" /\ pass = "right"
  /\ call.kind \in ScopedKinds

\* The challenge or the token POST failed in the way a check-in mends
AuthMendable ==
  /\ checkins = 0
  /\ \/ apc = "get" /\ err.http = 403
     \/ apc = "post" /\ rc = "AUTH_FAILED" /\ err.http = 401 /\ drift

\* Every failure met so far is one that a recovery takes on
OnTrack ==
  /\ rpc["op"] = "ret" => Outcome = "OK" \/ Stale
  /\ rpc["op"] \in {"ensure2", "send2"} => ~certExpired
  /\ rpc["op"] = "ensure2" /\ apc = "idle" => cache[call.scope] = Absent
  /\ rpc["op"] = "send2" => BearerGood
  /\ rpc["auth"] = "ret" => rc = "OK" \/ AuthMendable \/ Stale
  /\ apc \in {"get", "reget"} /\ rpc["auth"] = "ret" /\ rc = "OK" =>
       rtcSet /\ (drift \/ off <= Skew)
  /\ apc = "post" => rtcSet /\ (drift \/ off <= Skew)
  /\ apc = "post" /\ rpc["auth"] = "ret" /\ rc = "OK" =>
       call.scope \in live /\ DeviceNow < granted

Recovers == Helped => OnTrack

\* Every check-in is counted, whatever starts it.
LEMMA CountStep == ControlInv /\ HistoryType /\ Counted /\ [Next]_vars => Counted'
<1> USE DEF ctxVars, authVars, frameVars, localVars, deviceVars, historyVars
<1> USE DEF Counted, HistoryType, Bump, ControlInv, FrameType, GuardExact, Nesting, Idle, NoCall, Ensuring, CheckinOver,
            Sending, Frames, RequestPcs, AuthPcs, AfterEnsure, MoreLegs
<1>1. ASSUME ControlInv, HistoryType, Counted, NEW p \in {"right", "wrong"}, Login(p)
      PROVE  Counted'
  BY <1>1 DEF Login
<1>2. ASSUME ControlInv, HistoryType, Counted, LoginMobile PROVE Counted'
  BY <1>2 DEF LoginMobile
<1>3. ASSUME ControlInv, HistoryType, Counted, Logout PROVE Counted'
  BY <1>3 DEF Logout
<1>4. ASSUME ControlInv, HistoryType, Counted, NEW k \in CallKinds, NEW s \in Scopes \union {NoScope}, Begin(k, s)
      PROVE  Counted'
  BY <1>4 DEF Begin, StartCheckin, NoCheckin
<1>5. ASSUME ControlInv, HistoryType, Counted, Finish PROVE Counted'
  BY <1>5 DEF Finish
<1>6. ASSUME ControlInv, HistoryType, Counted, LegReturned PROVE Counted'
  BY <1>6 DEF LegReturned, EndCheckin
<1>7. ASSUME ControlInv, HistoryType, Counted, EnsureHit PROVE Counted'
  BY <1>7 DEF EnsureHit
<1>8. ASSUME ControlInv, HistoryType, Counted, EnsureNoCredential
      PROVE  Counted'
  BY <1>8 DEF EnsureNoCredential, FailEnsure, EndEnsure
<1>9. ASSUME ControlInv, HistoryType, Counted, EnsureMiss PROVE Counted'
  BY <1>9 DEF EnsureMiss, StartAcquire, StartCheckin, NoCheckin
<1>10. ASSUME ControlInv, HistoryType, Counted, ProactiveDone PROVE Counted'
  BY <1>10 DEF ProactiveDone, StartAcquire
<1>11. ASSUME ControlInv, HistoryType, Counted, ChallengeReturned
      PROVE  Counted'
  BY <1>11 DEF ChallengeReturned, StartRecovery, StartCheckin, NoCheckin, EndEnsure
<1>12. ASSUME ControlInv, HistoryType, Counted, RtcCheckinDone PROVE Counted'
  BY <1>12 DEF RtcCheckinDone, FailEnsure, EndEnsure
<1>13. ASSUME ControlInv, HistoryType, Counted, TokenReturned PROVE Counted'
  BY <1>13 DEF TokenReturned, StartRecovery, StartCheckin, NoCheckin, EndEnsure
<1>14. ASSUME ControlInv, HistoryType, Counted, DriftCheckinDone
      PROVE  Counted'
  BY <1>14 DEF DriftCheckinDone, FailEnsure, EndEnsure
<1>15. ASSUME ControlInv, HistoryType, Counted, NEW f \in {"op", "auth"}, CertCheckinDone(f)
      PROVE  Counted'
  BY <1>15 DEF CertCheckinDone, Fail
<1>16. ASSUME ControlInv, HistoryType, Counted, NEW f \in Frames, SendUnreachable(f)
      PROVE  Counted'
  BY <1>16 DEF SendUnreachable, Fail
<1>17. ASSUME ControlInv, HistoryType, Counted, NEW f \in Frames, SendLost(f)
      PROVE  Counted'
  BY <1>17 DEF SendLost, Fail, NotExecuted, Executed, Repaired
<1>18. ASSUME ControlInv, HistoryType, Counted, NEW f \in Frames, SendExpired(f)
      PROVE  Counted'
  BY <1>18 DEF SendExpired, Fail, StartCheckin, NoCheckin
<1>19. ASSUME ControlInv, HistoryType, Counted, OpReply PROVE Counted'
  <2>1. UNCHANGED <<call, cpc, apc, spent, checkins>>
    BY <1>19, Zenon DEF OpReply
  <2> QED
    BY <1>19, <2>1, OpReplyControl
<1>20. ASSUME ControlInv, HistoryType, Counted, ChallengeReply PROVE Counted'
  <2>1. UNCHANGED <<call, cpc, apc, spent, checkins>>
    BY <1>20, Zenon DEF ChallengeReply
  <2> QED
    BY <1>20, <2>1, AuthReplyControl
<1>21. ASSUME ControlInv, HistoryType, Counted, TokenReply PROVE Counted'
  <2>1. UNCHANGED <<call, cpc, apc, spent, checkins>>
    BY <1>21, Zenon DEF TokenReply
  <2> QED
    BY <1>21, <2>1, AuthReplyControl
<1>22. ASSUME ControlInv, HistoryType, Counted, LegReply PROVE Counted'
  <2>1. UNCHANGED <<call, cpc, apc, spent, checkins>>
    BY <1>22, ZenonT(60) DEF LegReply
  <2> QED
    BY <1>22, <2>1, LegReplyControl
<1>23. ASSUME ControlInv, HistoryType, Counted, MobileConfirm PROVE Counted'
  <2>1. /\ call' = call /\ cpc' = cpc /\ apc' = "idle" /\ spent' = FALSE
        /\ checkins' = checkins \/ checkins' = Bump(checkins)
    BY <1>23, Zenon DEF MobileConfirm, ConfirmFailed, FailEnsure, EndEnsure
  <2> QED
    BY <1>23, <2>1, MobileControl
<1>24. ASSUME ControlInv, HistoryType, Counted, Tick PROVE Counted'
  BY <1>24 DEF Tick
<1>25. ASSUME ControlInv, HistoryType, Counted, Restart PROVE Counted'
  BY <1>25 DEF Restart
<1>26. ASSUME ControlInv, HistoryType, Counted, CertExpires PROVE Counted'
  BY <1>26 DEF CertExpires
<1>27. ASSUME ControlInv, HistoryType, Counted, NEW o \in Offsets, ClockDrifts(o)
      PROVE  Counted'
  BY <1>27 DEF ClockDrifts
<1>28. ASSUME ControlInv, HistoryType, Counted, UNCHANGED vars PROVE Counted'
  BY <1>28 DEF vars
<1> QED
  BY <1>1, <1>2, <1>3, <1>4, <1>5, <1>6, <1>7, <1>8, <1>9, <1>10, <1>11, <1>12,
     <1>13, <1>14, <1>15, <1>16, <1>17, <1>18, <1>19, <1>20, <1>21, <1>22, <1>23,
     <1>24, <1>25, <1>26, <1>27, <1>28
     DEF Next, Client, Exchange, User, World

\* The latch is set before the first token is asked for.
LEMMA LatchCoverStep ==
  /\ ControlInv /\ FlagType /\ AuthType /\ DeviceType /\ Counted /\ LatchCovers /\ [Next]_vars
  => LatchCovers'
<1> USE DEF ctxVars, authVars, frameVars, localVars, deviceVars, historyVars
<1> USE DEF LatchCovers, Counted, FlagType, ScopedKinds, Kinds,
            ControlInv, FrameType, GuardExact, Nesting, Idle, NoCall, Ensuring, CheckinOver,
            Sending, Frames, RequestPcs, AuthPcs, AfterEnsure, MoreLegs
<1>1. ASSUME ControlInv, FlagType, AuthType, DeviceType, Counted, LatchCovers, NEW p \in {"right", "wrong"}, Login(p)
      PROVE  LatchCovers'
  BY <1>1 DEF Login, NoTokens
<1>2. ASSUME ControlInv, FlagType, AuthType, DeviceType, Counted, LatchCovers, LoginMobile
      PROVE  LatchCovers'
  BY <1>2 DEF LoginMobile, NoTokens
<1>3. ASSUME ControlInv, FlagType, AuthType, DeviceType, Counted, LatchCovers, Logout
      PROVE  LatchCovers'
  BY <1>3 DEF Logout, NoTokens
<1>4. ASSUME ControlInv, FlagType, AuthType, DeviceType, Counted, LatchCovers, NEW k \in CallKinds, NEW s \in Scopes \union {NoScope}, Begin(k, s)
      PROVE  LatchCovers'
  BY <1>4 DEF Begin, StartCheckin, NoCheckin
<1>5. ASSUME ControlInv, FlagType, AuthType, DeviceType, Counted, LatchCovers, Finish
      PROVE  LatchCovers'
  BY <1>5 DEF Finish, NoTokens
<1>6. ASSUME ControlInv, FlagType, AuthType, DeviceType, Counted, LatchCovers, LegReturned
      PROVE  LatchCovers'
  BY <1>6 DEF LegReturned, EndCheckin
<1>7. ASSUME ControlInv, FlagType, AuthType, DeviceType, Counted, LatchCovers, EnsureHit
      PROVE  LatchCovers'
  BY <1>7 DEF EnsureHit, Hit, Absent, DeviceType, AuthType
<1>8. ASSUME ControlInv, FlagType, AuthType, DeviceType, Counted, LatchCovers, EnsureNoCredential
      PROVE  LatchCovers'
  BY <1>8 DEF EnsureNoCredential, FailEnsure, EndEnsure
<1>9. ASSUME ControlInv, FlagType, AuthType, DeviceType, Counted, LatchCovers, EnsureMiss
      PROVE  LatchCovers'
  BY <1>9 DEF EnsureMiss, ProactiveDue
<1>10. ASSUME ControlInv, FlagType, AuthType, DeviceType, Counted, LatchCovers, ProactiveDone
      PROVE  LatchCovers'
  BY <1>10 DEF ProactiveDone, StartAcquire
<1>11. ASSUME ControlInv, FlagType, AuthType, DeviceType, Counted, LatchCovers, ChallengeReturned
      PROVE  LatchCovers'
  BY <1>11 DEF ChallengeReturned, StartRecovery, StartCheckin, NoCheckin, EndEnsure
<1>12. ASSUME ControlInv, FlagType, AuthType, DeviceType, Counted, LatchCovers, RtcCheckinDone
      PROVE  LatchCovers'
  BY <1>12 DEF RtcCheckinDone, FailEnsure, EndEnsure
<1>13. ASSUME ControlInv, FlagType, AuthType, DeviceType, Counted, LatchCovers, TokenReturned
      PROVE  LatchCovers'
  BY <1>13 DEF TokenReturned, StartRecovery, StartCheckin, NoCheckin, EndEnsure
<1>14. ASSUME ControlInv, FlagType, AuthType, DeviceType, Counted, LatchCovers, DriftCheckinDone
      PROVE  LatchCovers'
  BY <1>14 DEF DriftCheckinDone, FailEnsure, EndEnsure
<1>15. ASSUME ControlInv, FlagType, AuthType, DeviceType, Counted, LatchCovers, NEW f \in {"op", "auth"}, CertCheckinDone(f)
      PROVE  LatchCovers'
  BY <1>15 DEF CertCheckinDone, Fail
<1>16. ASSUME ControlInv, FlagType, AuthType, DeviceType, Counted, LatchCovers, NEW f \in Frames, SendUnreachable(f)
      PROVE  LatchCovers'
  BY <1>16 DEF SendUnreachable, Fail
<1>17. ASSUME ControlInv, FlagType, AuthType, DeviceType, Counted, LatchCovers, NEW f \in Frames, SendLost(f)
      PROVE  LatchCovers'
  BY <1>17 DEF SendLost, Fail, NotExecuted, Executed, Repaired
<1>18. ASSUME ControlInv, FlagType, AuthType, DeviceType, Counted, LatchCovers, NEW f \in Frames, SendExpired(f)
      PROVE  LatchCovers'
  BY <1>18 DEF SendExpired, Fail, StartCheckin, NoCheckin
<1>19. ASSUME ControlInv, FlagType, AuthType, DeviceType, Counted, LatchCovers, OpReply
      PROVE  LatchCovers'
  <2>1. /\ UNCHANGED <<opts, loginDone, call, apc, checkins>>
        /\ call.scope = NoScope => cache' = cache
    BY <1>19, ZenonT(60) DEF OpReply, Deliver, TokenRejected
  <2> QED
    BY <1>19, <2>1, OpReplyControl
<1>20. ASSUME ControlInv, FlagType, AuthType, DeviceType, Counted, LatchCovers, ChallengeReply
      PROVE  LatchCovers'
  <2>1. Sending("auth") /\ UNCHANGED <<opts, loginDone>>
    BY <1>20, Zenon DEF ChallengeReply
  <2> QED
    BY <1>20, <2>1
<1>21. ASSUME ControlInv, FlagType, AuthType, DeviceType, Counted, LatchCovers, TokenReply
      PROVE  LatchCovers'
  <2>1. Sending("auth") /\ UNCHANGED <<opts, loginDone>>
    BY <1>21, Zenon DEF TokenReply
  <2> QED
    BY <1>21, <2>1
<1>22. ASSUME ControlInv, FlagType, AuthType, DeviceType, Counted, LatchCovers, LegReply
      PROVE  LatchCovers'
  <2>1. UNCHANGED <<opts, loginDone, call, apc, checkins, cache>>
    BY <1>22, Zenon DEF LegReply, Deliver, TokenRejected
  <2> QED
    BY <1>22, <2>1, LegReplyControl
<1>23. ASSUME ControlInv, FlagType, AuthType, DeviceType, Counted, LatchCovers, MobileConfirm
      PROVE  LatchCovers'
  <2>1. apc = "confirm" /\ UNCHANGED <<opts, loginDone>>
    BY <1>23, Zenon DEF MobileConfirm
  <2> QED
    BY <1>23, <2>1
<1>24. ASSUME ControlInv, FlagType, AuthType, DeviceType, Counted, LatchCovers, Tick
      PROVE  LatchCovers'
  BY <1>24 DEF Tick, NoTokens
<1>25. ASSUME ControlInv, FlagType, AuthType, DeviceType, Counted, LatchCovers, Restart
      PROVE  LatchCovers'
  BY <1>25 DEF Restart, NoTokens
<1>26. ASSUME ControlInv, FlagType, AuthType, DeviceType, Counted, LatchCovers, CertExpires
      PROVE  LatchCovers'
  BY <1>26 DEF CertExpires, NoTokens
<1>27. ASSUME ControlInv, FlagType, AuthType, DeviceType, Counted, LatchCovers, NEW o \in Offsets, ClockDrifts(o)
      PROVE  LatchCovers'
  BY <1>27 DEF ClockDrifts, NoTokens
<1>28. ASSUME ControlInv, FlagType, AuthType, DeviceType, Counted, LatchCovers, UNCHANGED vars
      PROVE  LatchCovers'
  BY <1>28 DEF vars
<1> QED
  BY <1>1, <1>2, <1>3, <1>4, <1>5, <1>6, <1>7, <1>8, <1>9, <1>10, <1>11, <1>12,
     <1>13, <1>14, <1>15, <1>16, <1>17, <1>18, <1>19, <1>20, <1>21, <1>22, <1>23,
     <1>24, <1>25, <1>26, <1>27, <1>28
     DEF Next, Client, Exchange, User, World

\* A malformed answer is never taken for a success.
LEMMA GarbageFails ==
  \A r \in Garbage : (IF r.body = "nofield" THEN "PROTOCOL" ELSE JsonCode(r)) # "OK"
BY DEF Garbage, Reply, JsonCode, RawCode, MapStatus

\* An answer to the challenge GET or token POST ends it with its code.
LEMMA AuthDelivered ==
  ASSUME NEW r, NEW code, NEW http, Deliver("auth", r, code, http)
  PROVE  /\ rc' = code /\ rpc' = [rpc EXCEPT !["auth"] = "ret"]
         /\ cache' = cache /\ bearer' = bearer
         /\ \/ code = "OK" /\ err' = err
            \/ code # "OK" /\ err' = Err(http, FALSE)
<1>1. ~TokenRejected("auth", r)
  <2>1. "auth" # "op"
    OBVIOUS
  <2> QED
    BY <2>1, Zenon DEF TokenRejected
<1> QED
  BY <1>1, Zenon DEF Deliver

\* The device grants a token to the right passphrase only.
LEMMA TokenPaid == TokenReply /\ rc' = "OK" => pass = "right"
<1> SUFFICES ASSUME TokenReply, rc' = "OK", pass # "right" PROVE FALSE
  OBVIOUS
<1>1. ~TokenAccepted /\ "AUTH_FAILED" # "OK"
  BY DEF TokenAccepted
<1>2. CASE Deliver("auth", Reply(401, "json"), "AUTH_FAILED", 401)
  BY <1>1, <1>2, AuthDelivered
<1>3. CASE \E r \in Garbage :
             Deliver("auth", r,
                     IF r.body = "nofield" THEN "PROTOCOL" ELSE JsonCode(r),
                     JsonHttp(r))
  BY <1>3, AuthDelivered, GarbageFails, Zenon
<1> QED
  BY <1>1, <1>2, <1>3, Zenon DEF TokenReply

\* Only an acquisition with a credential goes on, and a wrong one buys nothing.
LEMMA CredentialStep == ControlInv /\ AuthType /\ Credentialed /\ [Next]_vars => Credentialed'
<1> USE DEF ctxVars, authVars, frameVars, localVars, deviceVars, historyVars
<1> USE DEF Credentialed, CredentialHeld, AuthType, ControlInv, FrameType, GuardExact, Nesting, Idle, NoCall, Ensuring, CheckinOver,
            Sending, Frames, RequestPcs, AuthPcs, AfterEnsure, MoreLegs
<1>1. ASSUME ControlInv, AuthType, Credentialed, NEW p \in {"right", "wrong"}, Login(p)
      PROVE  Credentialed'
  BY <1>1 DEF Login
<1>2. ASSUME ControlInv, AuthType, Credentialed, LoginMobile
      PROVE  Credentialed'
  BY <1>2 DEF LoginMobile
<1>3. ASSUME ControlInv, AuthType, Credentialed, Logout PROVE Credentialed'
  BY <1>3 DEF Logout
<1>4. ASSUME ControlInv, AuthType, Credentialed, NEW k \in CallKinds, NEW s \in Scopes \union {NoScope}, Begin(k, s)
      PROVE  Credentialed'
  BY <1>4 DEF Begin, StartCheckin, NoCheckin
<1>5. ASSUME ControlInv, AuthType, Credentialed, Finish PROVE Credentialed'
  BY <1>5 DEF Finish
<1>6. ASSUME ControlInv, AuthType, Credentialed, LegReturned
      PROVE  Credentialed'
  BY <1>6 DEF LegReturned, EndCheckin
<1>7. ASSUME ControlInv, AuthType, Credentialed, EnsureHit PROVE Credentialed'
  BY <1>7 DEF EnsureHit
<1>8. ASSUME ControlInv, AuthType, Credentialed, EnsureNoCredential
      PROVE  Credentialed'
  BY <1>8 DEF EnsureNoCredential, FailEnsure, EndEnsure
<1>9. ASSUME ControlInv, AuthType, Credentialed, EnsureMiss
      PROVE  Credentialed'
  BY <1>9 DEF EnsureMiss, StartAcquire, StartCheckin, NoCheckin
<1>10. ASSUME ControlInv, AuthType, Credentialed, ProactiveDone
      PROVE  Credentialed'
  BY <1>10 DEF ProactiveDone, StartAcquire
<1>11. ASSUME ControlInv, AuthType, Credentialed, ChallengeReturned
      PROVE  Credentialed'
  BY <1>11 DEF ChallengeReturned, StartRecovery, StartCheckin, NoCheckin, EndEnsure
<1>12. ASSUME ControlInv, AuthType, Credentialed, RtcCheckinDone
      PROVE  Credentialed'
  BY <1>12 DEF RtcCheckinDone, FailEnsure, EndEnsure
<1>13. ASSUME ControlInv, AuthType, Credentialed, TokenReturned
      PROVE  Credentialed'
  BY <1>13 DEF TokenReturned, StartRecovery, StartCheckin, NoCheckin, EndEnsure
<1>14. ASSUME ControlInv, AuthType, Credentialed, DriftCheckinDone
      PROVE  Credentialed'
  BY <1>14 DEF DriftCheckinDone, FailEnsure, EndEnsure
<1>15. ASSUME ControlInv, AuthType, Credentialed, NEW f \in {"op", "auth"}, CertCheckinDone(f)
      PROVE  Credentialed'
  <2>1. UNCHANGED <<apc, mode, pass>>
    BY <1>15, Zenon DEF CertCheckinDone, authVars
  <2> QED
    BY <1>15, <2>1, CertControl
<1>16. ASSUME ControlInv, AuthType, Credentialed, NEW f \in Frames, SendUnreachable(f)
      PROVE  Credentialed'
  BY <1>16 DEF SendUnreachable, Fail
<1>17. ASSUME ControlInv, AuthType, Credentialed, NEW f \in Frames, SendLost(f)
      PROVE  Credentialed'
  <2>1. rc' = "NETWORK" /\ UNCHANGED <<apc, mode, pass>>
    BY <1>17, Zenon DEF SendLost, Fail, BrokenOffCode, authVars
  <2> QED
    BY <1>17, <2>1
<1>18. ASSUME ControlInv, AuthType, Credentialed, NEW f \in Frames, SendExpired(f)
      PROVE  Credentialed'
  BY <1>18 DEF SendExpired, Fail, StartCheckin, NoCheckin
<1>19. ASSUME ControlInv, AuthType, Credentialed, OpReply PROVE Credentialed'
  <2>1. UNCHANGED <<apc, mode, pass>>
    BY <1>19, Zenon DEF OpReply
  <2> QED
    BY <1>19, <2>1, OpReplyControl
<1>20. ASSUME ControlInv, AuthType, Credentialed, ChallengeReply
      PROVE  Credentialed'
  <2>1. UNCHANGED <<apc, mode, pass>> /\ apc \in {"get", "reget"}
    BY <1>20, Zenon DEF ChallengeReply
  <2> QED
    BY <1>20, <2>1
<1>21. ASSUME ControlInv, AuthType, Credentialed, TokenReply
      PROVE  Credentialed'
  <2>1. UNCHANGED <<apc, mode, pass>>
    BY <1>21, Zenon DEF TokenReply
  <2> QED
    BY <1>21, <2>1, TokenPaid
<1>22. ASSUME ControlInv, AuthType, Credentialed, LegReply PROVE Credentialed'
  <2>1. UNCHANGED <<apc, mode, pass>>
    BY <1>22, Zenon DEF LegReply
  <2> QED
    BY <1>22, <2>1, LegReplyControl
<1>23. ASSUME ControlInv, AuthType, Credentialed, MobileConfirm
      PROVE  Credentialed'
  <2>1. apc' = "idle"
    BY <1>23, MobileControl, Zenon
  <2> QED
    BY <2>1
<1>24. ASSUME ControlInv, AuthType, Credentialed, Tick PROVE Credentialed'
  BY <1>24 DEF Tick
<1>25. ASSUME ControlInv, AuthType, Credentialed, Restart PROVE Credentialed'
  BY <1>25 DEF Restart
<1>26. ASSUME ControlInv, AuthType, Credentialed, CertExpires
      PROVE  Credentialed'
  BY <1>26 DEF CertExpires
<1>27. ASSUME ControlInv, AuthType, Credentialed, NEW o \in Offsets, ClockDrifts(o)
      PROVE  Credentialed'
  BY <1>27 DEF ClockDrifts
<1>28. ASSUME ControlInv, AuthType, Credentialed, UNCHANGED vars
      PROVE  Credentialed'
  BY <1>28 DEF vars
<1> QED
  BY <1>1, <1>2, <1>3, <1>4, <1>5, <1>6, <1>7, <1>8, <1>9, <1>10, <1>11, <1>12,
     <1>13, <1>14, <1>15, <1>16, <1>17, <1>18, <1>19, <1>20, <1>21, <1>22, <1>23,
     <1>24, <1>25, <1>26, <1>27, <1>28
     DEF Next, Client, Exchange, User, World

\* An acquisition that is overtaken by time is disturbed.
LEMMA TimeStep ==
  FlagType /\ LocalType /\ DeviceType /\ Nesting /\ InTime /\ [Next]_vars => InTime'
<1> USE DEF ctxVars, authVars, frameVars, localVars, deviceVars, historyVars
<1> USE DEF InTime, FlagType, LocalType, DeviceType, Nesting, Idle, NoCall, Ensuring
<1>1. ASSUME FlagType, LocalType, DeviceType, Nesting, InTime, NEW p \in {"right", "wrong"}, Login(p)
      PROVE  InTime'
  BY <1>1 DEF Login
<1>2. ASSUME FlagType, LocalType, DeviceType, Nesting, InTime, LoginMobile
      PROVE  InTime'
  BY <1>2 DEF LoginMobile
<1>3. ASSUME FlagType, LocalType, DeviceType, Nesting, InTime, Logout
      PROVE  InTime'
  BY <1>3 DEF Logout
<1>4. ASSUME FlagType, LocalType, DeviceType, Nesting, InTime, NEW k \in CallKinds, NEW s \in Scopes \union {NoScope}, Begin(k, s)
      PROVE  InTime'
  BY <1>4 DEF Begin
<1>5. ASSUME FlagType, LocalType, DeviceType, Nesting, InTime, Finish
      PROVE  InTime'
  BY <1>5 DEF Finish
<1>6. ASSUME FlagType, LocalType, DeviceType, Nesting, InTime, LegReturned
      PROVE  InTime'
  BY <1>6 DEF LegReturned
<1>7. ASSUME FlagType, LocalType, DeviceType, Nesting, InTime, EnsureHit
      PROVE  InTime'
  BY <1>7 DEF EnsureHit
<1>8. ASSUME FlagType, LocalType, DeviceType, Nesting, InTime, EnsureNoCredential
      PROVE  InTime'
  BY <1>8 DEF EnsureNoCredential, FailEnsure, EndEnsure
<1>9. ASSUME FlagType, LocalType, DeviceType, Nesting, InTime, EnsureMiss
      PROVE  InTime'
  BY <1>9, SessionAssumption DEF EnsureMiss
<1>10. ASSUME FlagType, LocalType, DeviceType, Nesting, InTime, ProactiveDone
      PROVE  InTime'
  BY <1>10 DEF ProactiveDone
<1>11. ASSUME FlagType, LocalType, DeviceType, Nesting, InTime, ChallengeReturned
      PROVE  InTime'
  BY <1>11 DEF ChallengeReturned, StartRecovery, EndEnsure
<1>12. ASSUME FlagType, LocalType, DeviceType, Nesting, InTime, RtcCheckinDone
      PROVE  InTime'
  <2>1. /\ now' = now /\ disturbed' = disturbed
        /\ (apc # "idle" /\ nowA' = nowA) \/ (apc' = "idle" /\ nowA' = 0)
    <3>1. "rtc" # "idle"
      OBVIOUS
    <3> QED
      BY <1>12, <3>1, Zenon DEF RtcCheckinDone, FailEnsure, EndEnsure
  <2> QED
    BY <1>12, <2>1
<1>13. ASSUME FlagType, LocalType, DeviceType, Nesting, InTime, TokenReturned
      PROVE  InTime'
  BY <1>13 DEF TokenReturned, StartRecovery, EndEnsure
<1>14. ASSUME FlagType, LocalType, DeviceType, Nesting, InTime, DriftCheckinDone
      PROVE  InTime'
  <2>1. /\ now' = now /\ disturbed' = disturbed
        /\ nowA' = now \/ (apc' = "idle" /\ nowA' = 0)
    BY <1>14, Zenon DEF DriftCheckinDone, FailEnsure, EndEnsure
  <2> QED
    BY <1>14, <2>1, SessionAssumption
<1>15. ASSUME FlagType, LocalType, DeviceType, Nesting, InTime, NEW f \in {"op", "auth"}, CertCheckinDone(f)
      PROVE  InTime'
  BY <1>15 DEF CertCheckinDone
<1>16. ASSUME FlagType, LocalType, DeviceType, Nesting, InTime, NEW f \in Frames, SendUnreachable(f)
      PROVE  InTime'
  BY <1>16 DEF SendUnreachable
<1>17. ASSUME FlagType, LocalType, DeviceType, Nesting, InTime, NEW f \in Frames, SendLost(f)
      PROVE  InTime'
  BY <1>17 DEF SendLost
<1>18. ASSUME FlagType, LocalType, DeviceType, Nesting, InTime, NEW f \in Frames, SendExpired(f)
      PROVE  InTime'
  BY <1>18 DEF SendExpired
<1>19. ASSUME FlagType, LocalType, DeviceType, Nesting, InTime, OpReply
      PROVE  InTime'
  <2>1. UNCHANGED <<apc, now, nowA>> /\ (disturbed' = disturbed \/ disturbed' = TRUE)
    BY <1>19, Zenon DEF OpReply
  <2> QED
    BY <1>19, <2>1
<1>20. ASSUME FlagType, LocalType, DeviceType, Nesting, InTime, ChallengeReply
      PROVE  InTime'
  <2>1. UNCHANGED <<apc, now, nowA>> /\ (disturbed' = disturbed \/ disturbed' = TRUE)
    BY <1>20, Zenon DEF ChallengeReply
  <2> QED
    BY <1>20, <2>1
<1>21. ASSUME FlagType, LocalType, DeviceType, Nesting, InTime, TokenReply
      PROVE  InTime'
  <2>1. UNCHANGED <<apc, now, nowA>> /\ (disturbed' = disturbed \/ disturbed' = TRUE)
    BY <1>21, Zenon DEF TokenReply
  <2> QED
    BY <1>21, <2>1
<1>22. ASSUME FlagType, LocalType, DeviceType, Nesting, InTime, LegReply
      PROVE  InTime'
  <2>1. UNCHANGED <<apc, now, nowA>> /\ (disturbed' = disturbed \/ disturbed' = TRUE)
    BY <1>22, Zenon DEF LegReply
  <2> QED
    BY <1>22, <2>1
<1>23. ASSUME FlagType, LocalType, DeviceType, Nesting, InTime, MobileConfirm
      PROVE  InTime'
  <2>1. apc' = "idle" /\ nowA' = 0 /\ now' = now
    BY <1>23, Zenon DEF MobileConfirm, ConfirmFailed, FailEnsure, EndEnsure
  <2> QED
    BY <1>23, <2>1
<1>24. ASSUME FlagType, LocalType, DeviceType, Nesting, InTime, Tick
      PROVE  InTime'
  <2>1. now' = now + 1 /\ UNCHANGED <<apc, nowA>>
    BY <1>24 DEF Tick
  <2>2. ~disturbed' => ~(apc # "idle" /\ now' - nowA >= Lifetime - Skew)
    BY <1>24, Zenon DEF Tick, Outlasted
  <2> QED
    BY <1>24, <2>1, <2>2, SessionAssumption
<1>25. ASSUME FlagType, LocalType, DeviceType, Nesting, InTime, Restart
      PROVE  InTime'
  BY <1>25 DEF Restart
<1>26. ASSUME FlagType, LocalType, DeviceType, Nesting, InTime, CertExpires
      PROVE  InTime'
  BY <1>26 DEF CertExpires
<1>27. ASSUME FlagType, LocalType, DeviceType, Nesting, InTime, NEW o \in Offsets, ClockDrifts(o)
      PROVE  InTime'
  BY <1>27 DEF ClockDrifts
<1>28. ASSUME FlagType, LocalType, DeviceType, Nesting, InTime, UNCHANGED vars
      PROVE  InTime'
  BY <1>28 DEF vars
<1> QED
  BY <1>1, <1>2, <1>3, <1>4, <1>5, <1>6, <1>7, <1>8, <1>9, <1>10, <1>11, <1>12,
     <1>13, <1>14, <1>15, <1>16, <1>17, <1>18, <1>19, <1>20, <1>21, <1>22, <1>23,
     <1>24, <1>25, <1>26, <1>27, <1>28
     DEF Next, Client, Exchange, User, World

\* What an answer is that does not disturb the call: to the challenge GET,
LEMMA ChallengeCalm ==
  ASSUME ChallengeReply, ~disturbed'
  PROVE  /\ ~disturbed
         /\ \/ rtcSet /\ drift' = DriftEvident /\ rc' = "OK"
            \/ ~rtcSet /\ rc' = "SCOPE_DENIED" /\ err' = Err(403, FALSE)
<1>1. "SCOPE_DENIED" # "OK"
  OBVIOUS
<1>2. /\ ~disturbed
      /\ \/ rtcSet /\ drift' = DriftEvident /\ Deliver("auth", Reply(200, "json"), "OK", 0)
         \/ ~rtcSet /\ Deliver("auth", Reply(403, "json"), "SCOPE_DENIED", 403)
  BY SMT DEF ChallengeReply
<1>3. Deliver("auth", Reply(200, "json"), "OK", 0) => rc' = "OK"
  BY AuthDelivered, Zenon
<1>4. Deliver("auth", Reply(403, "json"), "SCOPE_DENIED", 403) =>
        rc' = "SCOPE_DENIED" /\ err' = Err(403, FALSE)
  BY <1>1, AuthDelivered, ZenonT(60)
<1> QED
  BY <1>2, <1>3, <1>4, Zenon

\* to the token POST,
LEMMA TokenCalm ==
  ASSUME TokenReply, ~disturbed'
  PROVE  /\ ~disturbed
         /\ \/ /\ TokenAccepted /\ rc' = "OK" /\ live' = live \union {call.scope}
               /\ \E life \in Lives :
                    granted' = IF nowA + Lifetime < DeviceNow + life
                               THEN nowA + Lifetime ELSE DeviceNow + life
            \/ ~TokenAccepted /\ rc' = "AUTH_FAILED" /\ err' = Err(401, FALSE)
<1>1. "AUTH_FAILED" # "OK"
  OBVIOUS
<1>2. /\ ~disturbed
      /\ \/ /\ TokenAccepted /\ Deliver("auth", Reply(200, "json"), "OK", 0)
            /\ live' = live \union {call.scope}
            /\ \E life \in Lives :
                 granted' = IF nowA + Lifetime < DeviceNow + life
                            THEN nowA + Lifetime ELSE DeviceNow + life
         \/ ~TokenAccepted /\ Deliver("auth", Reply(401, "json"), "AUTH_FAILED", 401)
  BY SMT DEF TokenReply
<1>3. Deliver("auth", Reply(200, "json"), "OK", 0) => rc' = "OK"
  BY AuthDelivered, Zenon
<1>4. Deliver("auth", Reply(401, "json"), "AUTH_FAILED", 401) =>
        rc' = "AUTH_FAILED" /\ err' = Err(401, FALSE)
  BY <1>1, AuthDelivered, ZenonT(60)
<1> QED
  BY <1>2, <1>3, <1>4, Zenon

\* to a check-in leg, the last of which mends the device,
LEMMA LegCalm ==
  ASSUME LegReply, ~disturbed'
  PROVE  /\ ~disturbed /\ rc' = "OK"
         /\ cpc = 3 => Mended'
<1>1. "leg" # "op"
  OBVIOUS
<1>2. \A r : ~TokenRejected("leg", r)
  BY <1>1, Zenon DEF TokenRejected
<1>3. /\ ~disturbed /\ Deliver("leg", Reply(200, "json"), "OK", 0)
      /\ cpc = 3 => Repaired
  BY SMT DEF LegReply
<1> QED
  BY <1>2, <1>3, Zenon DEF Deliver, Repaired, Mended

\* and to the request itself: it is executed, or its bearer is refused.
LEMMA OpCalm ==
  ASSUME OpReply, ~disturbed'
  PROVE  /\ ~disturbed /\ Reachable("op")
         /\ \/ Executed /\ Deliver("op", Success, OpCode(Success), OpHttp(Success))
            \/ /\ call.scope # NoScope /\ ~BearerGood /\ NotExecuted
               /\ Deliver("op", Reply(401, "json"), "AUTH_FAILED", 401)
BY SMT DEF OpReply

\* The mended device lets an acquisition with the right passphrase through.
LEMMA MendedAccepts ==
  ASSUME Mended, LocalType, DeviceType, Credentialed, InTime,
         apc = "post", pass # "wrong", AuthType, ~disturbed
  PROVE  TokenAccepted
<1>1. pass = "right"
  BY DEF Credentialed, CredentialHeld, AuthType
<1>2. nowA + Lifetime > DeviceNow
  <2>1. off = 0 /\ now - nowA < Lifetime - Skew
    BY DEF Mended, InTime
  <2> QED
    BY <2>1, SessionAssumption DEF DeviceNow, LocalType, DeviceType
<1> QED
  BY <1>1, <1>2, Zenon DEF TokenAccepted, Mended

\* What the repairs are argued from
RecoveryBase == Counted /\ LatchCovers /\ Credentialed /\ InTime

\* After one check-in an undisturbed call finds nothing left to repair.
LEMMA MendStep == ControlInv /\ TypeOK /\ RecoveryBase /\ Mends /\ [Next]_vars => Mends'
<1> USE DEF ctxVars, authVars, frameVars, localVars, deviceVars, historyVars
<1> USE DEF RecoveryBase, Counted, Mends, TypeOK, FlagType, HistoryType, Bump,
            ControlInv, FrameType, GuardExact, Nesting, Idle, NoCall, Ensuring, CheckinOver,
            Sending, Frames, RequestPcs, AuthPcs, AfterEnsure, MoreLegs, Retrying
<1>1. ASSUME ControlInv, TypeOK, RecoveryBase, Mends, NEW p \in {"right", "wrong"}, Login(p)
      PROVE  Mends'
  BY <1>1 DEF Login
<1>2. ASSUME ControlInv, TypeOK, RecoveryBase, Mends, LoginMobile PROVE Mends'
  BY <1>2 DEF LoginMobile
<1>3. ASSUME ControlInv, TypeOK, RecoveryBase, Mends, Logout PROVE Mends'
  BY <1>3 DEF Logout
<1>4. ASSUME ControlInv, TypeOK, RecoveryBase, Mends, NEW k \in CallKinds, NEW s \in Scopes \union {NoScope}, Begin(k, s)
      PROVE  Mends'
  BY <1>4 DEF Begin, StartCheckin, NoCheckin
<1>5. ASSUME ControlInv, TypeOK, RecoveryBase, Mends, Finish PROVE Mends'
  BY <1>5 DEF Finish
<1>6. ASSUME ControlInv, TypeOK, RecoveryBase, Mends, LegReturned PROVE Mends'
  <2>1. (Mended => Mended') /\ (OnceKept => OnceKept') /\ (CertGood => CertGood')
    BY <1>6, Zenon DEF LegReturned, Mended, OnceKept, CertGood, deviceVars, historyVars
  <2> QED
    BY <1>6, <2>1 DEF LegReturned, EndCheckin
<1>7. ASSUME ControlInv, TypeOK, RecoveryBase, Mends, EnsureHit PROVE Mends'
  <2>1. (Mended => Mended') /\ (OnceKept => OnceKept') /\ (CertGood => CertGood')
    BY <1>7, Zenon DEF EnsureHit, Mended, OnceKept, CertGood, deviceVars, historyVars
  <2> QED
    BY <1>7, <2>1 DEF EnsureHit
<1>8. ASSUME ControlInv, TypeOK, RecoveryBase, Mends, EnsureNoCredential
      PROVE  Mends'
  <2>1. /\ UNCHANGED <<cpc, checkins, disturbed, pass>> /\ apc' = "idle"
        /\ rpc' = [rpc EXCEPT !["op"] = "ret", !["auth"] = "idle"]
        /\ rpc["op"] \in {"ensure", "ensure2"} /\ apc = "idle"
    BY <1>8, Zenon DEF EnsureNoCredential, FailEnsure, EndEnsure, authVars
  <2>2. (OnceKept => OnceKept') /\ (CertGood => CertGood')
    BY <1>8, Zenon DEF EnsureNoCredential, OnceKept, CertGood, deviceVars
  <2> QED
    BY <1>8, <2>1, <2>2
<1>9. ASSUME ControlInv, TypeOK, RecoveryBase, Mends, EnsureMiss PROVE Mends'
  <2>1. (Mended => Mended') /\ (OnceKept => OnceKept') /\ (CertGood => CertGood')
    BY <1>9, Zenon DEF EnsureMiss, Mended, OnceKept, CertGood, deviceVars, historyVars
  <2>2. ProactiveDue => checkins = 0
    BY <1>9 DEF EnsureMiss, ProactiveDue, LatchCovers
  <2> QED
    BY <1>9, <2>1, <2>2 DEF EnsureMiss, StartAcquire, StartCheckin, NoCheckin
<1>10. ASSUME ControlInv, TypeOK, RecoveryBase, Mends, ProactiveDone
      PROVE  Mends'
  <2>1. (Mended => Mended') /\ (OnceKept => OnceKept') /\ (CertGood => CertGood')
    BY <1>10, Zenon DEF ProactiveDone, Mended, OnceKept, CertGood, deviceVars, historyVars
  <2> QED
    BY <1>10, <2>1 DEF ProactiveDone, StartAcquire
<1>11. ASSUME ControlInv, TypeOK, RecoveryBase, Mends, ChallengeReturned
      PROVE  Mends'
  <2>1. (Mended => Mended') /\ (OnceKept => OnceKept') /\ (CertGood => CertGood')
    BY <1>11, Zenon DEF ChallengeReturned, Mended, OnceKept, CertGood, deviceVars, historyVars
  <2>2. Stale => rc # "OK" /\ err.http # 403
    BY DEF Stale, Err
  <2>3. rc = "OK" \/ ~RtcRecoverable \/ checkins = 0 \/ disturbed \/ pass = "wrong"
    BY <1>11, <2>2 DEF ChallengeReturned, RtcRecoverable
  <2>4. UNCHANGED <<pass, disturbed>>
    BY <1>11, Zenon DEF ChallengeReturned, authVars
  <2> QED
    BY <1>11, <2>1, <2>3, <2>4 DEF ChallengeReturned, StartRecovery, StartCheckin, NoCheckin, EndEnsure
<1>12. ASSUME ControlInv, TypeOK, RecoveryBase, Mends, RtcCheckinDone
      PROVE  Mends'
  <2>1. (Mended => Mended') /\ (OnceKept => OnceKept') /\ (CertGood => CertGood')
    BY <1>12, Zenon DEF RtcCheckinDone, Mended, OnceKept, CertGood, deviceVars, historyVars
  <2>2. /\ UNCHANGED <<cpc, checkins, disturbed, pass>>
        /\ rc = "OK" => rc' = rc
    BY <1>12, Zenon DEF RtcCheckinDone, authVars
  <2> QED
    BY <1>12, <2>1, <2>2, RecheckControl
<1>13. ASSUME ControlInv, TypeOK, RecoveryBase, Mends, TokenReturned
      PROVE  Mends'
  <2>1. (Mended => Mended') /\ (OnceKept => OnceKept') /\ (CertGood => CertGood')
    BY <1>13, Zenon DEF TokenReturned, Mended, OnceKept, CertGood, deviceVars, historyVars
  <2>2. pass # "wrong" \/ pass' = pass
    BY <1>13 DEF TokenReturned, Credentialed
  <2>3. Stale => rc = "NETWORK"
    BY Zenon DEF Stale
  <2>4. ~DriftRecoverable \/ checkins = 0 \/ disturbed \/ pass = "wrong"
    BY <1>13, <2>3 DEF TokenReturned, DriftRecoverable
  <2>5. disturbed' = disturbed
    BY <1>13, Zenon DEF TokenReturned
  <2> QED
    BY <1>13, <2>1, <2>2, <2>4, <2>5 DEF TokenReturned, StartRecovery, StartCheckin, NoCheckin, EndEnsure,
       DriftRecoverable
<1>14. ASSUME ControlInv, TypeOK, RecoveryBase, Mends, DriftCheckinDone
      PROVE  Mends'
  <2>1. (Mended => Mended') /\ (OnceKept => OnceKept') /\ (CertGood => CertGood')
    BY <1>14, Zenon DEF DriftCheckinDone, Mended, OnceKept, CertGood, deviceVars, historyVars
  <2>2. /\ UNCHANGED <<cpc, checkins, disturbed, pass>>
        /\ rc = "OK" => rc' = rc
    BY <1>14, Zenon DEF DriftCheckinDone, authVars
  <2> QED
    BY <1>14, <2>1, <2>2, RecheckControl
<1>15. ASSUME ControlInv, TypeOK, RecoveryBase, Mends, NEW f \in {"op", "auth"}, CertCheckinDone(f)
      PROVE  Mends'
  <2>1. (Mended => Mended') /\ (OnceKept => OnceKept') /\ (CertGood => CertGood')
    BY <1>15, Zenon DEF CertCheckinDone, Mended, OnceKept, CertGood, deviceVars, historyVars
  <2>2. /\ UNCHANGED <<checkins, disturbed, pass>>
        /\ rc = "OK" => rc' = rc
    BY <1>15, Zenon DEF CertCheckinDone, authVars, historyVars
  <2> QED
    BY <1>15, <2>1, <2>2, CertControl DEF ControlKept
<1>16. ASSUME ControlInv, TypeOK, RecoveryBase, Mends, NEW f \in Frames, SendUnreachable(f)
      PROVE  Mends'
  <2>1. disturbed'
    BY <1>16, Zenon DEF SendUnreachable
  <2> QED
    BY <2>1, Zenon
<1>17. ASSUME ControlInv, TypeOK, RecoveryBase, Mends, NEW f \in Frames, SendLost(f)
      PROVE  Mends'
  <2>1. disturbed'
    BY <1>17, Zenon DEF SendLost
  <2> QED
    BY <2>1, Zenon
<1>18. ASSUME ControlInv, TypeOK, RecoveryBase, Mends, NEW f \in Frames, SendExpired(f)
      PROVE  Mends'
  <2>1. (Mended => Mended') /\ (OnceKept => OnceKept') /\ (CertGood => CertGood')
    BY <1>18, Zenon DEF SendExpired, Mended, OnceKept, CertGood, deviceVars
  <2>2. f # "leg" => ~CertGood /\ (Mended => OnceKept)
    BY <1>18, Zenon DEF SendExpired, ToDevice, Mended, CertGood, OnceKept
  <2>3. f = "leg" => disturbed'
    BY <1>18, Zenon DEF SendExpired, ToDevice, Tls
  <2>4. CertRecoverable(f) => f # "leg" /\ cpc = 0
    BY <1>18 DEF CertRecoverable, Tls
  <2>5. disturbed => disturbed'
    BY <1>18, Zenon DEF SendExpired
  <2>6. pass' = pass /\ apc' = apc /\ Sending(f)
    BY <1>18, Zenon DEF SendExpired, authVars
  <2>7. CASE rpc[f] = "send" /\ CertRecoverable(f)
    <3>1. /\ rpc' = [rpc EXCEPT ![f] = "cert", !["leg"] = "send"]
          /\ cpc' = 1 /\ checkins' = Bump(checkins)
      BY <1>18, <2>7, Zenon DEF SendExpired, StartCheckin
    <3>2. /\ rpc["op"] # "ret" /\ rpc["auth"] # "ret" /\ rpc["leg"] = "idle"
          /\ ~Retrying
      BY <1>18, <2>4, <2>7
    <3>3. ~disturbed /\ pass # "wrong" => checkins = 0 \/ (checkins = 1 /\ OnceKept)
      BY <1>18, <2>2, <2>4, <2>7, <3>2
    <3>4. Retrying' /\ rpc'["auth"] # "ret" /\ rpc'["leg"] = "send"
      BY <1>18, <2>4, <2>7, <3>1, <3>2
    <3> QED
      BY <1>18, <2>1, <2>5, <2>6, <3>1, <3>3, <3>4
  <2>8. CASE ~(rpc[f] = "send" /\ CertRecoverable(f))
    <3>1. /\ rpc' = [rpc EXCEPT ![f] = "ret"] /\ rc' = "NETWORK"
          /\ err' = Err(0, rpc[f] # "send2")
          /\ cpc' = cpc /\ checkins' = checkins
      BY <1>18, <2>8, Zenon DEF SendExpired, Fail, NoCheckin
    <3>2. CASE f = "leg"
      BY <2>3, <3>2, Zenon DEF Mends
    <3>3. CASE f = "op"
      BY <1>18, <2>1, <2>5, <2>6, <3>1, <3>3
    <3>4. CASE f = "auth"
      <4>1. rpc[f] # "send2" /\ rpc["op"] # "ret" /\ cpc = 0 /\ rpc["leg"] = "idle"
        BY <1>18, <2>6, <3>4
      <4>2. err' = Err(0, TRUE)
        BY <3>1, <4>1
      <4>3. ~disturbed /\ pass # "wrong" /\ checkins # 0 => Stale'
        <5>1. ~disturbed /\ pass # "wrong" /\ checkins # 0 => OnceKept'
          BY <1>18, <2>1, <2>2, <3>4, <4>1
        <5> QED
          BY <3>1, <4>2, <5>1, Zenon DEF Stale, OnceKept
      <4>4. Retrying' /\ rpc'["leg"] = "idle" /\ rpc'["op"] = rpc["op"] /\ rpc'["auth"] = "ret"
        BY <1>18, <3>1, <3>4, <4>1
      <4> QED
        BY <1>18, <2>1, <2>5, <2>6, <3>1, <4>1, <4>3, <4>4
    <3> QED
      BY <3>2, <3>3, <3>4 DEF Frames
  <2> QED
    BY <2>7, <2>8, Zenon
<1>19. ASSUME ControlInv, TypeOK, RecoveryBase, Mends, OpReply PROVE Mends'
  <2> SUFFICES ASSUME ~disturbed' PROVE Mends'
    BY Zenon DEF Mends
  <2>1. UNCHANGED <<pass, cpc, apc, checkins>> /\ Sending("op") /\ (OnceKept => OnceKept')
    BY <1>19, Zenon DEF OpReply, OnceKept
  <2>4. CertGood'
    BY <1>19, VerifiedReply, Zenon DEF CertGood
  <2>2. CASE rpc' = [rpc EXCEPT !["op"] = "ret"]
    BY <1>19, <2>1, <2>2, <2>4, OpCalm DEF Mends
  <2>3. CASE rpc' # [rpc EXCEPT !["op"] = "ret"]
    <3>1. NotExecuted /\ rpc' = [rpc EXCEPT !["op"] = "ensure2"]
      <4>1. Success.status # 401
        BY DEF Success, Reply
      <4>2. ~Deliver("op", Success, OpCode(Success), OpHttp(Success))
        BY <2>3, <4>1, DeliverEnds, Zenon
      <4>3. NotExecuted
        BY <1>19, <4>2, OpCalm, Zenon
      <4> QED
        BY <1>19, <2>3, <4>3, OpReplyControl, Zenon
    <3>2. Mended => Mended'
      BY <1>19, <3>1, Zenon DEF OpReply, NotExecuted, Mended
    <3> QED
      BY <1>19, <2>1, <2>4, <3>1, <3>2, OpCalm DEF Mends
  <2> QED
    BY <2>2, <2>3, Zenon
<1>20. ASSUME ControlInv, TypeOK, RecoveryBase, Mends, ChallengeReply
      PROVE  Mends'
  <2> SUFFICES ASSUME ~disturbed' PROVE Mends'
    BY Zenon DEF Mends
  <2>1. /\ UNCHANGED <<pass, cpc, apc, checkins>> /\ (Mended => Mended')
        /\ (OnceKept => OnceKept')
    BY <1>20, Zenon DEF ChallengeReply, Mended, OnceKept, deviceVars
  <2>3. CertGood'
    BY <1>20, VerifiedReply, Zenon DEF CertGood
  <2>2. ~disturbed /\ (Mended => rc' = "OK")
    BY <1>20, ChallengeCalm, Zenon DEF Mended
  <2> QED
    BY <1>20, <2>1, <2>2, <2>3, AuthReplyControl DEF Mends
<1>21. ASSUME ControlInv, TypeOK, RecoveryBase, Mends, TokenReply PROVE Mends'
  <2> SUFFICES ASSUME ~disturbed', pass # "wrong" PROVE Mends'
    <3>1. pass' = pass
      BY <1>21, Zenon DEF TokenReply
    <3> QED
      BY <3>1, Zenon DEF Mends
  <2>1. /\ UNCHANGED <<pass, cpc, apc, checkins>> /\ apc = "post" /\ (Mended => Mended')
        /\ (OnceKept => OnceKept')
    BY <1>21, Zenon DEF TokenReply, Mended, OnceKept
  <2>3. CertGood'
    BY <1>21, VerifiedReply, Zenon DEF CertGood
  <2>2. ~disturbed /\ (Mended => rc' = "OK")
    BY <1>21, <2>1, TokenCalm, MendedAccepts, Zenon
  <2> QED
    BY <1>21, <2>1, <2>2, <2>3, AuthReplyControl DEF Mends
<1>22. ASSUME ControlInv, TypeOK, RecoveryBase, Mends, LegReply PROVE Mends'
  <2> SUFFICES ASSUME ~disturbed' PROVE Mends'
    BY Zenon DEF Mends
  <2>1. UNCHANGED <<pass, cpc, apc, checkins>>
    BY <1>22, Zenon DEF LegReply
  <2>2. Repaired \/ NotRepaired
    BY <1>22, Zenon DEF LegReply
  <2>3. (OnceKept => OnceKept') /\ (CertGood => CertGood')
    <3>1. CASE Repaired
      <4>1. kept' = (kept \/ certExpired')
        BY <3>1, Zenon DEF Repaired
      <4>2. CASE certExpired' = FALSE
        BY <4>1, <4>2, Zenon DEF OnceKept, CertGood
      <4>3. CASE certExpired' = certExpired
        BY <4>1, <4>3, Zenon DEF OnceKept, CertGood
      <4>4. certExpired' = FALSE \/ certExpired' = certExpired
        BY <3>1, Zenon DEF Repaired
      <4> QED
        BY <4>2, <4>3, <4>4, Zenon
    <3>2. CASE NotRepaired
      BY <3>2, Zenon DEF NotRepaired, OnceKept, CertGood
    <3> QED
      BY <2>2, <3>1, <3>2, Zenon
  <2> QED
    BY <1>22, <2>1, <2>3, LegCalm, LegReplyControl DEF Mends
<1>23. ASSUME ControlInv, TypeOK, RecoveryBase, Mends, MobileConfirm
      PROVE  Mends'
  <2>1. apc = "confirm" /\ cpc' = cpc /\ pass' = pass /\ apc' = "idle"
    BY <1>23, MobileControl, Zenon DEF MobileConfirm, ControlKept
  <2>2. disturbed => disturbed'
    BY <1>23, Zenon DEF MobileConfirm
  <2>3. \/ Mended' /\ (Mended => ~CertGood) /\ checkins' = Bump(checkins)
        \/ (Mended => Mended') /\ checkins' = checkins
    BY <1>23, Zenon DEF MobileConfirm, Repaired, NotRepaired, Mended, CertGood
  <2>4. (OnceKept => OnceKept') /\ (CertGood' \/ disturbed')
    BY <1>23, Zenon DEF MobileConfirm, Repaired, NotRepaired, OnceKept, CertGood
  <2>5. Mended => CertGood \/ OnceKept
    BY Zenon DEF Mended, CertGood, OnceKept
  <2>6. /\ rpc["op"] \in {"ensure", "ensure2"} /\ rpc["auth"] = "idle" /\ rpc["leg"] = "idle"
        /\ cpc = 0
    BY <1>23, <2>1
  <2>7. /\ rpc'["auth"] = "idle" /\ rpc'["leg"] = "idle"
        /\ "cert" \notin {rpc'["op"], rpc'["auth"]}
    BY <1>23, <2>6, MobileControl
  <2> QED
    BY <1>23, <2>1, <2>2, <2>3, <2>4, <2>5, <2>6, <2>7
<1>24. ASSUME ControlInv, TypeOK, RecoveryBase, Mends, Tick PROVE Mends'
  <2>1. /\ (Mended => Mended') /\ (OnceKept => OnceKept') /\ (CertGood => CertGood')
        /\ (disturbed => disturbed')
    BY <1>24, Zenon DEF Tick, Mended, OnceKept, CertGood, deviceVars
  <2>2. Stale => Stale'
    BY <1>24, Zenon DEF Tick, Stale, ctxVars, frameVars
  <2> QED
    BY <1>24, <2>1, <2>2 DEF Tick
<1>25. ASSUME ControlInv, TypeOK, RecoveryBase, Mends, Restart PROVE Mends'
  <2>1. disturbed' = ~Idle
    BY <1>25, Zenon DEF Restart
  <2>2. Idle => checkins' = 0 /\ rpc' = rpc /\ apc' = apc
    BY <1>25 DEF Restart
  <2>3. CASE Idle
    BY <1>25, <2>2, <2>3
  <2>4. CASE ~Idle
    BY <2>1, <2>4, Zenon DEF Mends
  <2> QED
    BY <2>3, <2>4, Zenon
<1>26. ASSUME ControlInv, TypeOK, RecoveryBase, Mends, CertExpires
      PROVE  Mends'
  <2>1. disturbed' = ~Idle
    BY <1>26, Zenon DEF CertExpires
  <2>2. Idle => checkins' = 0 /\ rpc' = rpc /\ apc' = apc
    BY <1>26 DEF CertExpires
  <2>3. CASE Idle
    BY <1>26, <2>2, <2>3
  <2>4. CASE ~Idle
    BY <2>1, <2>4, Zenon DEF Mends
  <2> QED
    BY <2>3, <2>4, Zenon
<1>27. ASSUME ControlInv, TypeOK, RecoveryBase, Mends, NEW o \in Offsets, ClockDrifts(o)
      PROVE  Mends'
  BY <1>27 DEF ClockDrifts
<1>28. ASSUME ControlInv, TypeOK, RecoveryBase, Mends, UNCHANGED vars
      PROVE  Mends'
  <2>1. (Mended => Mended') /\ (OnceKept => OnceKept') /\ (CertGood => CertGood')
    BY <1>28, Zenon DEF vars, Mended, OnceKept, CertGood, deviceVars, historyVars
  <2>2. Stale => Stale'
    BY <1>28, Zenon DEF vars, Stale, ctxVars, frameVars, historyVars
  <2> QED
    BY <1>28, <2>1, <2>2 DEF vars
<1> QED
  BY <1>1, <1>2, <1>3, <1>4, <1>5, <1>6, <1>7, <1>8, <1>9, <1>10, <1>11, <1>12,
     <1>13, <1>14, <1>15, <1>16, <1>17, <1>18, <1>19, <1>20, <1>21, <1>22, <1>23,
     <1>24, <1>25, <1>26, <1>27, <1>28
     DEF Next, Client, Exchange, User, World

\* The answer to an executed request is an OK of its binding.
LEMMA SuccessIsOk ==
  ASSUME Deliver("op", Success, OpCode(Success), OpHttp(Success)), call' = call
  PROVE  rpc' = [rpc EXCEPT !["op"] = "ret"] /\ Outcome' = "OK"
<1>1. ~TokenRejected("op", Success)
  BY DEF TokenRejected, Success, Reply
<1>2. rpc' = [rpc EXCEPT !["op"] = "ret"] /\ rc' = OpCode(Success)
  BY <1>1, Zenon DEF Deliver
<1>3. CASE call.kind \in Empty200Kinds
  <2>1. OpCode(Success) = "PROTOCOL" /\ OpHttp(Success) = 200
    BY <1>3 DEF OpCode, OpHttp, Success, RawCode, RawHttp, Reply
  <2>2. err' = Err(200, FALSE)
    BY <1>1, <2>1 DEF Deliver
  <2>3. err'.http = 200
    BY <2>2 DEF Err
  <2> QED
    BY <1>2, <1>3, <2>1, <2>3 DEF Outcome, BindingCode, EmptyOk
<1>4. CASE call.kind \notin Empty200Kinds
  <2>1. OpCode(Success) = "OK"
    BY <1>4, SMTT(30) DEF OpCode, Success, JsonCode, RawCode, Reply
  <2> QED
    BY <1>2, <1>4, <2>1 DEF Outcome, BindingCode
<1> QED
  BY <1>3, <1>4, Zenon

\* Every failure of a call that has all it needs is taken on by a recovery.
LEMMA RecoverStep ==
  ControlInv /\ TypeOK /\ RecoveryBase /\ Mends /\ Recovers /\ [Next]_vars => Recovers'
<1> USE DEF ctxVars, authVars, frameVars, localVars, deviceVars, historyVars
<1> USE DEF RecoveryBase, Counted, Mends, TypeOK, FlagType, HistoryType, AuthType,
            ControlInv, FrameType, GuardExact, Nesting, Idle, NoCall, Ensuring, CheckinOver,
            Sending, Frames, RequestPcs, AuthPcs, AfterEnsure, MoreLegs
<1>1. ASSUME ControlInv, TypeOK, RecoveryBase, Mends, Recovers, NEW p \in {"right", "wrong"}, Login(p)
      PROVE  Recovers'
  <2>1. call' = NoCall
    BY <1>1, Zenon DEF Login, Idle, frameVars
  <2> QED
    BY <2>1 DEF Recovers, Helped, NoCall, ScopedKinds, Kinds
<1>2. ASSUME ControlInv, TypeOK, RecoveryBase, Mends, Recovers, LoginMobile
      PROVE  Recovers'
  <2>1. call' = NoCall
    BY <1>2, Zenon DEF LoginMobile, Idle, frameVars
  <2> QED
    BY <2>1 DEF Recovers, Helped, NoCall, ScopedKinds, Kinds
<1>3. ASSUME ControlInv, TypeOK, RecoveryBase, Mends, Recovers, Logout
      PROVE  Recovers'
  <2>1. call' = NoCall
    BY <1>3, Zenon DEF Logout, Idle, frameVars
  <2> QED
    BY <2>1 DEF Recovers, Helped, NoCall, ScopedKinds, Kinds
<1>4. ASSUME ControlInv, TypeOK, RecoveryBase, Mends, Recovers, NEW k \in CallKinds, NEW s \in Scopes \union {NoScope}, Begin(k, s)
      PROVE  Recovers'
  <2>1. /\ rpc'["op"] \notin {"ret", "ensure2", "send2"}
        /\ rpc'["auth"] = "idle" /\ apc' = "idle"
    BY <1>4, BeginControl, ZenonT(60)
  <2> QED
    BY <2>1 DEF Recovers, OnTrack
<1>5. ASSUME ControlInv, TypeOK, RecoveryBase, Mends, Recovers, Finish
      PROVE  Recovers'
  <2>1. call' = NoCall
    BY <1>5, Zenon DEF Finish, Idle, frameVars
  <2> QED
    BY <2>1 DEF Recovers, Helped, NoCall, ScopedKinds, Kinds
<1>6. ASSUME ControlInv, TypeOK, RecoveryBase, Mends, Recovers, LegReturned
      PROVE  Recovers'
  <2> SUFFICES ASSUME Helped' PROVE OnTrack'
    BY Zenon DEF Recovers
  <2>1. Helped
    BY <1>6, Zenon DEF LegReturned, Helped, ctxVars, authVars, frameVars, historyVars
  <2>2. OnTrack
    BY <1>6, <2>1, Zenon DEF Recovers
  <2>3. /\ rpc'["op"] = rpc["op"] /\ rpc'["auth"] = rpc["auth"]
        /\ UNCHANGED <<apc, rc, err, call, cache, bearer, granted, drift, checkins,
                       certExpired, rtcSet, off, live, now>>
    BY <1>6 DEF LegReturned, EndCheckin
  <2>4. Outcome' = Outcome /\ BearerGood' = BearerGood /\ AuthMendable' = AuthMendable
    BY <2>3 DEF Outcome, BindingCode, EmptyOk, BearerGood, DeviceNow, AuthMendable
  <2>5. Stale => Stale'
    BY <1>6, Zenon DEF LegReturned, Stale, historyVars
  <2> QED
    BY <2>2, <2>3, <2>4, <2>5 DEF OnTrack, DeviceNow
<1>7. ASSUME ControlInv, TypeOK, RecoveryBase, Mends, Recovers, EnsureHit
      PROVE  Recovers'
  <2> SUFFICES ASSUME Helped' PROVE OnTrack'
    BY Zenon DEF Recovers
  <2>1. Helped
    BY <1>7, Zenon DEF EnsureHit, Helped, ctxVars, authVars, frameVars, historyVars
  <2>2. OnTrack
    BY <1>7, <2>1, Zenon DEF Recovers
  <2>3. rpc["op"] = "ensure" /\ apc = "idle"
    BY <1>7, <2>2 DEF EnsureHit, Hit, OnTrack, Absent, DeviceType
  <2> QED
    BY <1>7, <2>3 DEF EnsureHit, OnTrack
<1>8. ASSUME ControlInv, TypeOK, RecoveryBase, Mends, Recovers, EnsureNoCredential
      PROVE  Recovers'
  <2> SUFFICES ASSUME Helped' PROVE OnTrack'
    BY Zenon DEF Recovers
  <2>1. CredentialHeld
    BY <1>8 DEF EnsureNoCredential, Helped, CredentialHeld
  <2> QED
    BY <1>8, <2>1, Zenon DEF EnsureNoCredential
<1>9. ASSUME ControlInv, TypeOK, RecoveryBase, Mends, Recovers, EnsureMiss
      PROVE  Recovers'
  <2> SUFFICES ASSUME Helped' PROVE OnTrack'
    BY Zenon DEF Recovers
  <2>1. Helped
    BY <1>9, Zenon DEF EnsureMiss, Helped, ctxVars, authVars, frameVars, historyVars
  <2>2. OnTrack
    BY <1>9, <2>1, Zenon DEF Recovers
  <2>3. /\ rpc["op"] \in {"ensure", "ensure2"} /\ rpc'["op"] = rpc["op"]
        /\ apc' \in {"proactive", "get"} /\ rpc'["auth"] # "ret"
        /\ certExpired' = certExpired
    BY <1>9, <2>1 DEF EnsureMiss, StartAcquire, Helped
  <2> QED
    BY <2>2, <2>3 DEF OnTrack
<1>10. ASSUME ControlInv, TypeOK, RecoveryBase, Mends, Recovers, ProactiveDone
      PROVE  Recovers'
  <2> SUFFICES ASSUME Helped' PROVE OnTrack'
    BY Zenon DEF Recovers
  <2>1. Helped
    BY <1>10, Zenon DEF ProactiveDone, Helped, ctxVars, authVars, frameVars, historyVars
  <2>2. OnTrack
    BY <1>10, <2>1, Zenon DEF Recovers
  <2>3. /\ rpc["op"] \in {"ensure", "ensure2"} /\ rpc'["op"] = rpc["op"]
        /\ apc' = "get" /\ rpc'["auth"] = "send"
        /\ certExpired' = certExpired
    BY <1>10, <2>1 DEF ProactiveDone, StartAcquire, Helped
  <2> QED
    BY <2>2, <2>3 DEF OnTrack
<1>11. ASSUME ControlInv, TypeOK, RecoveryBase, Mends, Recovers, ChallengeReturned
      PROVE  Recovers'
  <2> SUFFICES ASSUME Helped' PROVE OnTrack'
    BY Zenon DEF Recovers
  <2>1. Helped
    BY <1>11, Zenon DEF ChallengeReturned, Helped, ctxVars, authVars, frameVars, historyVars
  <2>2. OnTrack
    BY <1>11, <2>1, Zenon DEF Recovers
  <2>3. rc = "OK" \/ RtcRecoverable \/ Stale
    BY <1>11, <2>1, <2>2 DEF ChallengeReturned, OnTrack, AuthMendable, RtcRecoverable,
       RecoveryOpen, Helped
  <2>5. Stale => rc # "OK" /\ ~RtcRecoverable
    BY DEF Stale, Err, RtcRecoverable
  <2>6. CASE Stale
    <3>1. rpc' = [rpc EXCEPT !["op"] = "ret", !["auth"] = "idle"] /\ apc' = "idle"
      BY <1>11, <2>5, <2>6, Zenon DEF ChallengeReturned, EndEnsure
    <3>2. Stale'
      BY <1>11, <2>6, Zenon DEF ChallengeReturned, Stale
    <3> QED
      BY <1>11, <3>1, <3>2 DEF OnTrack
  <2> SUFFICES ASSUME ~Stale PROVE OnTrack'
    BY <2>6, Zenon
  <2>4. /\ rpc["op"] \in {"ensure", "ensure2"} /\ rpc'["op"] = rpc["op"]
        /\ rpc'["auth"] # "ret" /\ apc' \in {"post", "rtc"}
        /\ apc' = "post" => rc = "OK"
        /\ UNCHANGED <<drift, certExpired, rtcSet, off>>
    BY <1>11, <2>3 DEF ChallengeReturned, StartRecovery
  <2> QED
    BY <1>11, <2>2, <2>4 DEF OnTrack, ChallengeReturned
<1>12. ASSUME ControlInv, TypeOK, RecoveryBase, Mends, Recovers, RtcCheckinDone
      PROVE  Recovers'
  <2> SUFFICES ASSUME Helped' PROVE OnTrack'
    BY Zenon DEF Recovers
  <2>1. Helped
    BY <1>12, Zenon DEF RtcCheckinDone, Helped, ctxVars, authVars, frameVars, historyVars
  <2>2. OnTrack
    BY <1>12, <2>1, Zenon DEF Recovers
  <2>3. rc = "OK"
    BY <1>12, <2>1 DEF RtcCheckinDone, Helped
  <2>4. /\ rpc["op"] \in {"ensure", "ensure2"} /\ rpc'["op"] = rpc["op"]
        /\ apc' = "reget" /\ rpc'["auth"] = "send"
        /\ certExpired' = certExpired
    BY <1>12, <2>3 DEF RtcCheckinDone
  <2> QED
    BY <2>2, <2>4 DEF OnTrack
<1>13. ASSUME ControlInv, TypeOK, RecoveryBase, Mends, Recovers, TokenReturned
      PROVE  Recovers'
  <2> SUFFICES ASSUME Helped' PROVE OnTrack'
    BY Zenon DEF Recovers
  <2>1. Helped
    <3>1. pass = "right"
      BY <1>13 DEF TokenReturned, PassAfterUse, Helped
    <3> QED
      BY <1>13, <3>1, Zenon DEF TokenReturned, Helped
  <2>2. OnTrack
    BY <1>13, <2>1, Zenon DEF Recovers
  <2>3. rc = "OK" \/ DriftRecoverable \/ Stale
    BY <1>13, <2>1, <2>2 DEF TokenReturned, OnTrack, AuthMendable, DriftRecoverable,
       RecoveryOpen, Helped
  <2>6. Stale => rc # "OK" /\ ~DriftRecoverable
    BY DEF Stale, DriftRecoverable
  <2>7. CASE Stale
    <3>1. rpc' = [rpc EXCEPT !["op"] = "ret", !["auth"] = "idle"] /\ apc' = "idle"
      BY <1>13, <2>6, <2>7, Zenon DEF TokenReturned, EndEnsure
    <3>2. Stale'
      BY <1>13, <2>7, Zenon DEF TokenReturned, Stale
    <3> QED
      BY <1>13, <3>1, <3>2 DEF OnTrack
  <2> SUFFICES ASSUME ~Stale PROVE OnTrack'
    BY <2>7, Zenon
  <2>4. CASE rc = "OK"
    <3>1. /\ rpc["op"] \in {"ensure", "ensure2"} /\ rpc'["op"] = AfterEnsure
          /\ rpc'["auth"] = "idle" /\ apc' = "idle"
          /\ bearer' = granted - Skew
          /\ UNCHANGED <<call, certExpired, rtcSet, off, live, now>>
      BY <1>13, <2>4 DEF TokenReturned, EndEnsure, DriftRecoverable
    <3>2. /\ rtcSet /\ call.scope \in live /\ DeviceNow < granted
      BY <1>13, <2>2, <2>4 DEF TokenReturned, OnTrack
    <3>3. BearerGood'
      <4>1. (DeviceNow < bearer + Skew)'
        BY <1>13, <3>1, <3>2, SessionAssumption DEF DeviceNow, LocalType, DeviceType
      <4> QED
        BY <3>1, <3>2, <4>1, Zenon DEF BearerGood
    <3> QED
      BY <2>2, <3>1, <3>3 DEF OnTrack
  <2>5. CASE rc # "OK"
    <3>1. /\ rpc["op"] \in {"ensure", "ensure2"} /\ rpc'["op"] = rpc["op"]
          /\ rpc'["auth"] = "idle" /\ apc' = "driftck"
          /\ certExpired' = certExpired
      BY <1>13, <2>3, <2>5 DEF TokenReturned, StartRecovery
    <3> QED
      BY <2>2, <3>1 DEF OnTrack
  <2> QED
    BY <2>4, <2>5, Zenon
<1>14. ASSUME ControlInv, TypeOK, RecoveryBase, Mends, Recovers, DriftCheckinDone
      PROVE  Recovers'
  <2> SUFFICES ASSUME Helped' PROVE OnTrack'
    BY Zenon DEF Recovers
  <2>1. Helped
    BY <1>14, Zenon DEF DriftCheckinDone, Helped, ctxVars, authVars, frameVars, historyVars
  <2>2. OnTrack
    BY <1>14, <2>1, Zenon DEF Recovers
  <2>3. rc = "OK"
    BY <1>14, <2>1 DEF DriftCheckinDone, Helped
  <2>4. /\ rpc["op"] \in {"ensure", "ensure2"} /\ rpc'["op"] = rpc["op"]
        /\ apc' = "get" /\ rpc'["auth"] = "send"
        /\ certExpired' = certExpired
    BY <1>14, <2>3 DEF DriftCheckinDone
  <2> QED
    BY <2>2, <2>4 DEF OnTrack
<1>15. ASSUME ControlInv, TypeOK, RecoveryBase, Mends, Recovers, NEW f \in {"op", "auth"}, CertCheckinDone(f)
      PROVE  Recovers'
  <2> SUFFICES ASSUME Helped' PROVE OnTrack'
    BY Zenon DEF Recovers
  <2>1. Helped
    BY <1>15, Zenon DEF CertCheckinDone, Helped, ctxVars, authVars, frameVars, historyVars
  <2>2. OnTrack
    BY <1>15, <2>1, Zenon DEF Recovers
  <2>3. rc = "OK"
    BY <1>15, <2>1, SMT DEF CertCheckinDone, Helped
  <2>4. /\ rpc[f] = "cert" /\ rpc' = [rpc EXCEPT ![f] = "resend"]
        /\ UNCHANGED <<apc, rc, err, call, cache, drift, certExpired, rtcSet, off>>
    BY <1>15, <2>3, Zenon DEF CertCheckinDone, authVars, localVars, deviceVars
  <2> QED
    BY <1>15, <2>2, <2>4 DEF OnTrack
<1>16. ASSUME ControlInv, TypeOK, RecoveryBase, Mends, Recovers, NEW f \in Frames, SendUnreachable(f)
      PROVE  Recovers'
  <2>1. disturbed'
    BY <1>16, Zenon DEF SendUnreachable
  <2> QED
    BY <2>1, Zenon DEF Recovers, Helped
<1>17. ASSUME ControlInv, TypeOK, RecoveryBase, Mends, Recovers, NEW f \in Frames, SendLost(f)
      PROVE  Recovers'
  <2>1. disturbed'
    BY <1>17, Zenon DEF SendLost
  <2> QED
    BY <2>1, Zenon DEF Recovers, Helped
<1>18. ASSUME ControlInv, TypeOK, RecoveryBase, Mends, Recovers, NEW f \in Frames, SendExpired(f)
      PROVE  Recovers'
  <2> SUFFICES ASSUME Helped' PROVE OnTrack'
    BY Zenon DEF Recovers
  <2>1. Helped
    BY <1>18, Zenon DEF SendExpired, Helped, authVars
  <2>2. OnTrack
    BY <1>18, <2>1, Zenon DEF Recovers
  <2>3. f # "leg" /\ certExpired /\ Sending(f)
    BY <1>18, Zenon DEF SendExpired, Helped, ToDevice, Tls
  <2>4. rpc[f] # "send2"
    BY <1>18, <2>2, <2>3 DEF OnTrack
  <2>5. CASE rpc[f] = "resend"
    <3>1. /\ rpc' = [rpc EXCEPT ![f] = "ret"] /\ rc' = "NETWORK" /\ apc' = apc
          /\ err' = Err(0, rpc[f] # "send2") /\ kept' = kept
      <4>1. rpc[f] # "send"
        BY <2>5
      <4> QED
        BY <1>18, <4>1, Zenon DEF SendExpired, Fail
    <3>2. checkins # 0 /\ cpc = 0 /\ rpc["op"] # "ret" /\ pass # "wrong" /\ ~disturbed
      BY <1>18, <2>1, <2>3, <2>5 DEF Helped
    <3>3. Mended
      BY <1>18, <3>2
    <3>4. kept
      BY <2>3, <3>3, Zenon DEF Mended
    <3>5. err' = Err(0, TRUE)
      BY <2>4, <3>1
    <3>6. Stale'
      BY <3>1, <3>4, <3>5, Zenon DEF Stale
    <3>7. UNCHANGED <<call, cache, drift, certExpired, rtcSet, off>>
      BY <1>18, Zenon DEF SendExpired, authVars, localVars, deviceVars
    <3> QED
      BY <1>18, <2>2, <2>3, <2>5, <3>1, <3>6, <3>7 DEF OnTrack
  <2>6. CASE rpc[f] = "send"
    <3>1. ~inCheckin
      BY <1>18, <2>3
    <3>2. CertRecoverable(f)
      BY <2>1, <2>3, <3>1, Zenon DEF CertRecoverable, Tls, Helped
    <3>3. /\ rpc' = [rpc EXCEPT ![f] = "cert", !["leg"] = "send"]
          /\ UNCHANGED <<apc, rc, err, call, cache, drift, certExpired, rtcSet, off>>
      BY <1>18, <2>6, <3>2, Zenon DEF SendExpired, authVars, localVars, deviceVars
    <3> QED
      BY <1>18, <2>2, <2>3, <2>6, <3>3 DEF OnTrack
  <2> QED
    BY <2>3, <2>4, <2>5, <2>6 DEF Sending
<1>19. ASSUME ControlInv, TypeOK, RecoveryBase, Mends, Recovers, OpReply
      PROVE  Recovers'
  <2> SUFFICES ASSUME Helped' PROVE OnTrack'
    BY Zenon DEF Recovers
  <2>1. ~disturbed'
    BY Zenon DEF Helped
  <2>2. Helped
    BY <1>19, <2>1, OpCalm, Zenon DEF OpReply, Helped
  <2>3. OnTrack
    BY <1>19, <2>2, Zenon DEF Recovers
  <2>4. /\ Sending("op") /\ rpc["auth"] = "idle" /\ apc = "idle"
        /\ UNCHANGED <<apc, call, certExpired>>
    BY <1>19 DEF OpReply
  <2>5. CASE Deliver("op", Success, OpCode(Success), OpHttp(Success))
    BY <1>19, <2>4, <2>5, SuccessIsOk DEF OnTrack
  <2>6. CASE /\ call.scope # NoScope /\ ~BearerGood
             /\ Deliver("op", Reply(401, "json"), "AUTH_FAILED", 401)
    <3>1. rpc["op"] # "send2"
      BY <2>3, <2>6, Zenon DEF OnTrack
    <3>2. TokenRejected("op", Reply(401, "json"))
      BY <2>6, <3>1 DEF TokenRejected, Reply
    <3>3. /\ rpc' = [rpc EXCEPT !["op"] = "ensure2"]
          /\ cache' = [cache EXCEPT ![call.scope] = Absent]
      BY <2>6, <3>2, Zenon DEF Deliver
    <3>4. ~certExpired
      <4>1. Reachable("op") /\ "op" # "leg" /\ "DEFAULT" # "RELAX"
        BY <1>19, <2>1, OpCalm
      <4> QED
        BY <4>1, Zenon DEF Reachable, ToDevice, Tls
    <3>5. cache'[call.scope] = Absent
      BY <1>19, <2>6, <3>3 DEF AuthType
    <3> QED
      BY <1>19, <2>4, <3>3, <3>4, <3>5 DEF OnTrack
  <2> QED
    BY <1>19, <2>1, <2>5, <2>6, OpCalm, Zenon
<1>20. ASSUME ControlInv, TypeOK, RecoveryBase, Mends, Recovers, ChallengeReply
      PROVE  Recovers'
  <2> SUFFICES ASSUME Helped' PROVE OnTrack'
    BY Zenon DEF Recovers
  <2>1. ~disturbed'
    BY Zenon DEF Helped
  <2>2. Helped
    BY <1>20, <2>1, ChallengeCalm, Zenon DEF ChallengeReply, Helped
  <2>3. OnTrack
    BY <1>20, <2>2, Zenon DEF Recovers
  <2>4. /\ Sending("auth") /\ apc \in {"get", "reget"}
        /\ rpc' = [rpc EXCEPT !["auth"] = "ret"]
        /\ UNCHANGED <<apc, call, cpc, checkins, certExpired, rtcSet, off, nowA, now>>
    BY <1>20, AuthReplyControl, Zenon DEF ChallengeReply, deviceVars
  <2>5. CASE rtcSet /\ drift' = DriftEvident /\ rc' = "OK"
    <3>1. drift' \/ off <= Skew
      <4>1. CASE DriftEvident
        BY <2>5, <4>1, Zenon
      <4>2. CASE ~DriftEvident
        BY <1>20, <4>2, SessionAssumption DEF DriftEvident, DeviceNow, InTime, LocalType, DeviceType
      <4> QED
        BY <4>1, <4>2, Zenon
    <3> QED
      BY <1>20, <2>3, <2>4, <2>5, <3>1 DEF OnTrack
  <2>6. CASE ~rtcSet /\ rc' = "SCOPE_DENIED" /\ err' = Err(403, FALSE)
    <3>1. ~Mended
      BY <2>6, Zenon DEF Mended
    <3>2. checkins = 0
      BY <1>20, <2>2, <2>4, <3>1 DEF Helped
    <3>3. apc = "get"
      BY <1>20, <2>4, <3>2
    <3>4. err'.http = 403
      BY <2>6 DEF Err
    <3>5. AuthMendable'
      BY <2>4, <3>2, <3>3, <3>4 DEF AuthMendable
    <3> QED
      BY <1>20, <2>3, <2>4, <2>6, <3>5 DEF OnTrack
  <2> QED
    BY <1>20, <2>1, <2>5, <2>6, ChallengeCalm, Zenon
<1>21. ASSUME ControlInv, TypeOK, RecoveryBase, Mends, Recovers, TokenReply
      PROVE  Recovers'
  <2> SUFFICES ASSUME Helped' PROVE OnTrack'
    BY Zenon DEF Recovers
  <2>1. ~disturbed'
    BY Zenon DEF Helped
  <2>2. Helped
    BY <1>21, <2>1, TokenCalm, Zenon DEF TokenReply, Helped
  <2>3. OnTrack
    BY <1>21, <2>2, Zenon DEF Recovers
  <2>4. /\ Sending("auth") /\ apc = "post"
        /\ rpc' = [rpc EXCEPT !["auth"] = "ret"]
        /\ UNCHANGED <<apc, call, cpc, checkins, drift, certExpired, rtcSet, off, nowA, now>>
    BY <1>21, AuthReplyControl, Zenon DEF TokenReply
  <2>5. rtcSet /\ (drift \/ off <= Skew)
    BY <2>3, <2>4, Zenon DEF OnTrack
  <2>6. CASE /\ TokenAccepted /\ rc' = "OK" /\ live' = live \union {call.scope}
             /\ \E life \in Lives :
                  granted' = IF nowA + Lifetime < DeviceNow + life
                             THEN nowA + Lifetime ELSE DeviceNow + life
    <3>1. (DeviceNow < granted)'
      BY <1>21, <2>4, <2>6, SessionAssumption DEF DeviceNow, TokenAccepted, LocalType, DeviceType
    <3>2. (call.scope \in live)'
      BY <2>4, <2>6
    <3> QED
      BY <1>21, <2>3, <2>4, <2>5, <2>6, <3>1, <3>2 DEF OnTrack
  <2>7. CASE ~TokenAccepted /\ rc' = "AUTH_FAILED" /\ err' = Err(401, FALSE)
    <3>1. drift
      <4>1. nowA + Lifetime <= now + off
        BY <1>21, <2>2, <2>5, <2>7, SessionAssumption
           DEF Helped, TokenAccepted, DeviceNow, LocalType, DeviceType
      <4>2. now - nowA < Lifetime - Skew
        BY <1>21, <2>2, <2>4 DEF Helped, InTime
      <4> QED
        BY <1>21, <2>5, <4>1, <4>2, SessionAssumption DEF LocalType, DeviceType
    <3>2. checkins = 0
      <4>1. ~Mended
        BY <1>21, <2>2, <2>4, <2>7, MendedAccepts DEF Helped
      <4> QED
        BY <1>21, <2>2, <2>4, <4>1 DEF Helped
    <3>3. err'.http = 401
      BY <2>7 DEF Err
    <3>4. AuthMendable'
      BY <2>4, <2>7, <3>1, <3>2, <3>3 DEF AuthMendable
    <3> QED
      BY <1>21, <2>3, <2>4, <2>5, <2>7, <3>4 DEF OnTrack
  <2> QED
    BY <1>21, <2>1, <2>6, <2>7, TokenCalm, Zenon
<1>22. ASSUME ControlInv, TypeOK, RecoveryBase, Mends, Recovers, LegReply
      PROVE  Recovers'
  <2> SUFFICES ASSUME Helped' PROVE OnTrack'
    BY Zenon DEF Recovers
  <2>1. ~disturbed'
    BY Zenon DEF Helped
  <2>2. Helped
    BY <1>22, <2>1, LegCalm, Zenon DEF LegReply, Helped
  <2>3. OnTrack
    BY <1>22, <2>2, Zenon DEF Recovers
  <2>4. /\ rpc' = [rpc EXCEPT !["leg"] = "ret"] /\ Sending("leg")
        /\ UNCHANGED <<apc, call, cache, drift>>
    BY <1>22, LegReplyControl, Zenon DEF LegReply, Deliver, TokenRejected
  <2>5. /\ rpc["op"] \notin {"ret", "send2"} /\ rpc["auth"] # "ret"
    BY <1>22, <2>4
  <2>6. Repaired \/ NotRepaired
    BY <1>22, Zenon DEF LegReply
  <2>7. /\ (~certExpired => ~certExpired')
        /\ (rtcSet => rtcSet')
        /\ (off' = off \/ off' = 0)
    <3>1. CASE Repaired
      <4>1. rtcSet' /\ off' = 0
        BY <3>1, Zenon DEF Repaired
      <4>2. CASE certExpired' = FALSE
        BY <4>1, <4>2, Zenon
      <4>3. CASE certExpired' = certExpired
        BY <4>1, <4>3, Zenon
      <4>4. certExpired' = FALSE \/ certExpired' = certExpired
        BY <3>1, Zenon DEF Repaired
      <4> QED
        BY <4>2, <4>3, <4>4, Zenon
    <3>2. CASE NotRepaired
      BY <3>2, Zenon DEF NotRepaired
    <3> QED
      BY <2>6, <3>1, <3>2, Zenon
  <2> QED
    BY <1>22, <2>3, <2>4, <2>5, <2>7, SessionAssumption DEF OnTrack, DeviceType
<1>23. ASSUME ControlInv, TypeOK, RecoveryBase, Mends, Recovers, MobileConfirm
      PROVE  Recovers'
  <2>1. mode = "mobile" /\ mode' = mode
    BY <1>23 DEF MobileConfirm
  <2> QED
    BY <2>1 DEF Recovers, Helped
<1>24. ASSUME ControlInv, TypeOK, RecoveryBase, Mends, Recovers, Tick
      PROVE  Recovers'
  <2> SUFFICES ASSUME Helped' PROVE OnTrack'
    BY Zenon DEF Recovers
  <2>1. Helped /\ ~Sending("op")
    BY <1>24, Zenon DEF Tick, Helped, ctxVars, authVars, frameVars
  <2>2. OnTrack
    BY <1>24, <2>1, Zenon DEF Recovers
  <2>3. rpc["op"] # "send2" /\ rpc["auth"] # "ret"
    BY <1>24, <2>1 DEF Tick, Waiting, Helped, ScopedKinds, Kinds
  <2>4. UNCHANGED <<rpc, apc, rc, err, call, cache, drift, certExpired, rtcSet, off>>
    BY <1>24, Zenon DEF Tick, ctxVars, authVars, frameVars, localVars, deviceVars
  <2>5. Outcome' = Outcome
    BY <2>4 DEF Outcome, BindingCode, EmptyOk
  <2>6. Stale => Stale'
    BY <1>24, Zenon DEF Tick, Stale, ctxVars, frameVars
  <2> QED
    BY <2>2, <2>3, <2>4, <2>5, <2>6 DEF OnTrack
<1>25. ASSUME ControlInv, TypeOK, RecoveryBase, Mends, Recovers, Restart
      PROVE  Recovers'
  <2>1. ~disturbed' => call' = NoCall
    BY <1>25, Zenon DEF Restart, Idle, frameVars
  <2> QED
    BY <2>1 DEF Recovers, Helped, NoCall, ScopedKinds, Kinds
<1>26. ASSUME ControlInv, TypeOK, RecoveryBase, Mends, Recovers, CertExpires
      PROVE  Recovers'
  <2>1. ~disturbed' => call' = NoCall
    BY <1>26, Zenon DEF CertExpires, Idle, frameVars
  <2> QED
    BY <2>1 DEF Recovers, Helped, NoCall, ScopedKinds, Kinds
<1>27. ASSUME ControlInv, TypeOK, RecoveryBase, Mends, Recovers, NEW o \in Offsets, ClockDrifts(o)
      PROVE  Recovers'
  <2>1. call' = NoCall
    BY <1>27, Zenon DEF ClockDrifts, Idle, frameVars
  <2> QED
    BY <2>1 DEF Recovers, Helped, NoCall, ScopedKinds, Kinds
<1>28. ASSUME ControlInv, TypeOK, RecoveryBase, Mends, Recovers, UNCHANGED vars
      PROVE  Recovers'
  <2> SUFFICES ASSUME Helped' PROVE OnTrack'
    BY Zenon DEF Recovers
  <2>1. Helped
    BY <1>28, Zenon DEF vars, Helped, ctxVars, authVars, frameVars, historyVars
  <2>2. OnTrack
    BY <1>28, <2>1, Zenon DEF Recovers
  <2>3. UNCHANGED <<rpc, apc, rc, err, call, cache, bearer, granted, drift, checkins,
                    certExpired, rtcSet, off, live, now>>
    BY <1>28, Zenon DEF vars, ctxVars, authVars, frameVars, localVars, deviceVars, historyVars
  <2>4. Outcome' = Outcome /\ BearerGood' = BearerGood /\ AuthMendable' = AuthMendable
    BY <2>3 DEF Outcome, BindingCode, EmptyOk, BearerGood, DeviceNow, AuthMendable
  <2>5. Stale => Stale'
    BY <1>28, Zenon DEF vars, Stale, ctxVars, frameVars, historyVars
  <2> QED
    BY <2>2, <2>3, <2>4, <2>5 DEF OnTrack, DeviceNow
<1> QED
  BY <1>1, <1>2, <1>3, <1>4, <1>5, <1>6, <1>7, <1>8, <1>9, <1>10, <1>11, <1>12,
     <1>13, <1>14, <1>15, <1>16, <1>17, <1>18, <1>19, <1>20, <1>21, <1>22, <1>23,
     <1>24, <1>25, <1>26, <1>27, <1>28
     DEF Next, Client, Exchange, User, World

-----------------------------------------------------------------------------
(* The theorems                                                            *)

SafetyInv ==
  /\ TypeOK /\ GuardExact /\ Nesting /\ Effects /\ Answered
  /\ LatchExact /\ Sessionless /\ PassphraseSpent

\* A fresh context satisfies the inductive invariant.
LEMMA SafetyInit == Init => SafetyInv
<1> SUFFICES ASSUME Init PROVE SafetyInv
  OBVIOUS
<1>1. TypeOK
  BY TypeInit, Zenon
<1>2. GuardExact
  BY DEF Init, GuardExact, Idle, Frames
<1>3. Nesting
  BY DEF Init, Nesting, Frames, NoCall, ScopedKinds, Kinds, Ensuring
<1>4. Effects
  BY DEF Init, Effects, Frames
<1>5. LatchExact
  BY DEF Init, LatchExact
<1>7. Answered
  BY DEF Init, Answered, Returned, Frames, NoCall
<1>6. Sessionless /\ PassphraseSpent
  BY DEF Init, Sessionless, PassphraseSpent, NoCall
<1> QED
  BY <1>1, <1>2, <1>3, <1>4, <1>5, <1>6, <1>7, Zenon DEF SafetyInv

\* Every step of the client, the device and the world keeps it.
LEMMA SafetyNext == SafetyInv /\ [Next]_vars => SafetyInv'
<1> SUFFICES ASSUME SafetyInv, [Next]_vars PROVE SafetyInv'
  OBVIOUS
<1>1. /\ TypeOK /\ GuardExact /\ Nesting /\ Effects /\ Answered
      /\ LatchExact /\ Sessionless /\ PassphraseSpent
  BY Zenon DEF SafetyInv
<1>2. ControlInv /\ HistoryType /\ AuthType
  BY <1>1, Zenon DEF TypeOK, ControlInv
<1>3. TypeOK' /\ GuardExact' /\ Nesting' /\ Effects' /\ Answered'
  BY <1>1, <1>2, TypeNext, GuardStep, NestStep, EffectStep, AnswerStep, Zenon
<1>4. LatchExact' /\ Sessionless' /\ PassphraseSpent'
  BY <1>1, <1>2, LatchStep, SessionlessStep, PassphraseStep, Zenon
<1> QED
  BY <1>3, <1>4, Zenon DEF SafetyInv

\* The inductive invariant holds throughout.
THEOREM SafetyInvariant == Spec => []SafetyInv
<1>1. Init => SafetyInv
  BY SafetyInit
<1>2. SafetyInv /\ [Next]_vars => SafetyInv'
  BY SafetyNext
<1> QED
  BY <1>1, <1>2, PTL DEF Spec

\* ehem_checkin_run's recursion guard is up exactly while a check-in runs.
THEOREM GuardCorrect == Spec => []GuardExact
<1>1. SafetyInv => GuardExact
  BY DEF SafetyInv
<1> QED
  BY <1>1, SafetyInvariant, PTL

\* Whatever ehem_proto_request_raw resends, a call is executed at most once.
THEOREM ExecutedAtMostOnce == Spec => []AtMostOnce
<1>1. SafetyInv => AtMostOnce
  BY DEF SafetyInv, Effects, AtMostOnce
<1> QED
  BY <1>1, SafetyInvariant, PTL

\* checkin_on_login runs at most one proactive check-in per context.
THEOREM OneProactive == Spec => []ProactiveOnce
<1>1. SafetyInv => ProactiveOnce
  BY DEF SafetyInv, LatchExact, ProactiveOnce
<1> QED
  BY <1>1, SafetyInvariant, PTL

\* no_credential_retention: a passphrase that bought a token is gone.
THEOREM PassphraseGone == Spec => []PassphraseSpent
<1>1. SafetyInv => PassphraseSpent
  BY DEF SafetyInv
<1> QED
  BY <1>1, SafetyInvariant, PTL

\* Without a session no authenticated call sends anything: no request, no
\* acquisition and no check-in on its behalf.
THEOREM SilentWithoutSession == Spec => []NoTrafficAfterLogout
<1>1. SafetyInv => NoTrafficAfterLogout
  <2> SUFFICES ASSUME SafetyInv, mode = "out", call.scope # NoScope
               PROVE  \A f \in Frames : ~Sending(f)
    BY DEF NoTrafficAfterLogout
  <2>1. rpc["op"] \in {"ensure", "ret"} /\ apc = "idle"
    BY Zenon DEF SafetyInv, Sessionless
  <2>2. Nesting /\ GuardExact
    BY Zenon DEF SafetyInv
  <2>3. rpc["auth"] = "idle"
    BY <2>1, <2>2 DEF Nesting
  <2>4. rpc["leg"] = "idle"
    BY <2>1, <2>2, <2>3 DEF Nesting, ScopedKinds, Kinds
  <2> QED
    BY <2>1, <2>3, <2>4 DEF Frames, Sending
<1> QED
  BY <1>1, SafetyInvariant, PTL

\* An OK from a binding that reads a JSON answer was executed by the device.
THEOREM OkIsExecuted == Spec => OkMeansExecuted
<1>1. SafetyInv /\ [Next]_vars =>
        [Finish /\ call.kind = "json" /\ Outcome = "OK" => applied = 1]_vars
  <2> SUFFICES ASSUME SafetyInv, Finish, call.kind = "json", Outcome = "OK"
               PROVE  applied = 1
    BY Zenon
  <2>1. rpc["op"] = "ret"
    BY DEF Finish
  <2>2. rc = "OK"
    BY DEF Outcome, BindingCode, Empty200Kinds
  <2>3. Effects
    BY Zenon DEF SafetyInv
  <2> QED
    BY <2>1, <2>2, <2>3, Zenon DEF Effects
<1> QED
  BY <1>1, SafetyInvariant, PTL DEF Spec, OkMeansExecuted

\* After an authentication failure or an unreachable device, through all the
\* resends, the call was not executed.
THEOREM DefiniteFailures == Spec => DefiniteErrors
<1> DEFINE Definite == {"AUTH_EXPIRED", "AUTH_FAILED", "SCOPE_DENIED",
                        "USER_REJECTED", "CONFIRM_TIMEOUT", "UNREACHABLE"}
<1>1. SafetyInv /\ [Next]_vars =>
        [Finish /\ Outcome \in Definite => applied = 0]_vars
  <2> SUFFICES ASSUME SafetyInv, Outcome \in Definite
               PROVE  applied = 0
    BY Zenon
  <2>1. rc = Outcome
    BY DEF Outcome, BindingCode
  <2>2. applied \in 0..3
    BY Zenon DEF SafetyInv, TypeOK, HistoryType
  <2>3. Effects
    BY Zenon DEF SafetyInv
  <2> QED
    BY <2>1, <2>2, <2>3 DEF Effects
<1> QED
  BY <1>1, SafetyInvariant, PTL DEF Spec, DefiniteErrors

\* cert_refreshed is only ever set by a device whose certificate verifies.
THEOREM RefreshIsVerified == Spec => RefreshVerified
<1>1. SafetyInv /\ [Next]_vars => [certRefreshed' # certRefreshed => ~certExpired']_vars
  BY RefreshStep, Zenon DEF SafetyInv, RefreshJustified
<1> QED
  BY <1>1, SafetyInvariant, PTL DEF Spec, RefreshVerified

\* What the recoveries rely on, on top of the safety invariant
RecoveryInv == SafetyInv /\ RecoveryBase /\ Mends /\ Recovers

\* A fresh context has recovered from nothing and needs nothing.
LEMMA RecoveryInit == Init => RecoveryInv
<1> SUFFICES ASSUME Init PROVE RecoveryInv
  OBVIOUS
<1>1. SafetyInv
  BY SafetyInit, Zenon
<1>2. Counted /\ Credentialed
  BY DEF Init, Counted, Credentialed, Frames
<1>3. LatchCovers
  BY DEF Init, LatchCovers, NoCall
<1>4. InTime
  BY DEF Init, InTime
<1>5. Mends
  BY DEF Init, Mends, Frames
<1>6. Recovers
  BY DEF Init, Recovers, Helped
<1> QED
  BY <1>1, <1>2, <1>3, <1>4, <1>5, <1>6, Zenon DEF RecoveryInv, RecoveryBase

\* Every step keeps it.
LEMMA RecoveryNext == RecoveryInv /\ [Next]_vars => RecoveryInv'
<1> SUFFICES ASSUME RecoveryInv, [Next]_vars PROVE RecoveryInv'
  OBVIOUS
<1>1. SafetyInv /\ RecoveryBase /\ Mends /\ Recovers
  BY Zenon DEF RecoveryInv
<1>2. Counted /\ LatchCovers /\ Credentialed /\ InTime
  BY <1>1, Zenon DEF RecoveryBase
<1>3. TypeOK /\ ControlInv /\ Nesting
  BY <1>1, Zenon DEF SafetyInv, TypeOK, ControlInv
<1>4. FlagType /\ AuthType /\ LocalType /\ DeviceType /\ HistoryType
  BY <1>3, Zenon DEF TypeOK
<1>5. Counted' /\ LatchCovers' /\ Credentialed' /\ InTime'
  BY <1>2, <1>3, <1>4, CountStep, LatchCoverStep, CredentialStep, TimeStep, Zenon
<1>6. SafetyInv' /\ Mends' /\ Recovers'
  BY <1>1, <1>3, SafetyNext, MendStep, RecoverStep, Zenon
<1> QED
  BY <1>5, <1>6, Zenon DEF RecoveryInv, RecoveryBase

\* The invariant of the recoveries holds throughout.
THEOREM RecoveryInvariant == Spec => []RecoveryInv
<1>1. Init => RecoveryInv
  BY RecoveryInit
<1>2. RecoveryInv /\ [Next]_vars => RecoveryInv'
  BY RecoveryNext
<1> QED
  BY <1>1, <1>2, PTL DEF Spec

\* The proactive, certificate, clock and drift recoveries of one undisturbed
\* call share a single check-in, and a second where the first left the expired
\* certificate in service.
THEOREM OneCheckinSuffices == Spec => []OneCheckinRepairs
<1>1. RecoveryInv => OneCheckinRepairs
  <2> SUFFICES ASSUME RecoveryInv, ~disturbed, pass # "wrong"
               PROVE  checkins <= IF kept THEN 2 ELSE 1
    BY Zenon DEF OneCheckinRepairs
  <2>1. checkins <= 1 \/ (checkins = 2 /\ OnceKept)
    BY Zenon DEF RecoveryInv, Mends
  <2>2. checkins \in 0..3
    BY Zenon DEF RecoveryInv, SafetyInv, TypeOK, HistoryType
  <2>3. CASE kept
    BY <2>1, <2>2, <2>3
  <2>4. CASE ~kept
    <3>1. checkins <= 1
      BY <2>1, <2>4, Zenon DEF OnceKept
    <3> QED
      BY <2>2, <2>4, <3>1
  <2> QED
    BY <2>3, <2>4, Zenon
<1> QED
  BY <1>1, RecoveryInvariant, PTL

\* A call with automatic recovery and the right passphrase, that nothing outside
\* disturbs, succeeds whatever was wrong with clock, certificate or token, or says
\* that the device kept its expired certificate.
THEOREM RecoveryIsComplete == Spec => RecoveryComplete
<1>1. RecoveryInv /\ [Next]_vars =>
        [Finish /\ call.kind \in ScopedKinds /\ ~disturbed /\ ~opts.noAuto
           /\ mode = "pass" /\ pass = "right"
           => \/ Outcome = "OK"
              \/ kept /\ Outcome = "NETWORK" /\ err'.expired]_vars
  <2> SUFFICES ASSUME RecoveryInv, Finish, call.kind \in ScopedKinds, ~disturbed,
                      ~opts.noAuto, mode = "pass", pass = "right"
               PROVE  \/ Outcome = "OK"
                      \/ kept /\ Outcome = "NETWORK" /\ err'.expired
    BY Zenon
  <2>1. OnTrack
    BY Zenon DEF RecoveryInv, Recovers, Helped
  <2>2. rpc["op"] = "ret"
    BY DEF Finish, ScopedKinds, Kinds
  <2>3. CASE Stale
    <3>1. kept /\ rc = "NETWORK" /\ err = Err(0, TRUE)
      BY <2>3, Zenon DEF Stale
    <3>2. Outcome = "NETWORK"
      BY <3>1 DEF Outcome, BindingCode, EmptyOk
    <3>3. BindingCode(call.kind) # "OK"
      BY <3>2 DEF Outcome
    <3>4. err' = err
      BY <3>3, Zenon DEF Finish, BindingErr
    <3>5. Err(0, TRUE).expired
      BY DEF Err
    <3> QED
      BY <3>1, <3>2, <3>4, <3>5, Zenon
  <2> QED
    BY <2>1, <2>2, <2>3, Zenon DEF OnTrack
<1> QED
  BY <1>1, RecoveryInvariant, PTL DEF Spec, RecoveryComplete

\* The code a binding returns and the last_error it leaves agree, whatever the
\* recoveries in between wrote into last_error.
THEOREM CodesAgree == Spec => ErrorsAgree
<1>1. ASSUME SafetyInv, Finish, mode # "mobile"
      PROVE  /\ Outcome = "AUTH_FAILED" => err'.http = 401
             /\ Outcome = "SCOPE_DENIED" => err'.http = 403
             /\ Outcome = "NOT_FOUND" => err'.http \in {404, 406}
             /\ Outcome \in {"NETWORK", "UNREACHABLE", "AUTH_EXPIRED"} => err'.http = 0
             /\ err'.expired => Outcome \in {"NETWORK", "OK"}
  <2>1. Returned
    BY <1>1, Zenon DEF Finish, Returned, CheckinOver, Frames
  <2>2. Fits(rc, err.http) /\ (err.expired => rc = "OK" \/ rc = "NETWORK")
    BY <1>1, <2>1, Zenon DEF SafetyInv, Answered, Agreed
  <2>3. CASE Outcome = "OK"
    BY <2>3
  <2>4. CASE Outcome # "OK"
    <3>1. err' = err
      BY <1>1, <2>4, Zenon DEF Finish, Outcome, BindingErr
    <3>2. \/ Outcome = rc /\ rc # "OK"
          \/ Outcome = "NOT_FOUND" /\ rc = "DEVICE" /\ err.http = 406
      BY <2>4 DEF Outcome, BindingCode
    <3> QED
      BY <2>2, <3>1, <3>2 DEF Fits
  <2> QED
    BY <2>3, <2>4, Zenon
<1>2. SafetyInv /\ [Next]_vars =>
        [Finish /\ mode # "mobile" =>
           /\ Outcome = "AUTH_FAILED" => err'.http = 401
           /\ Outcome = "SCOPE_DENIED" => err'.http = 403
           /\ Outcome = "NOT_FOUND" => err'.http \in {404, 406}
           /\ Outcome \in {"NETWORK", "UNREACHABLE", "AUTH_EXPIRED"} => err'.http = 0
           /\ err'.expired => Outcome \in {"NETWORK", "OK"}]_vars
  BY <1>1
<1> QED
  BY <1>2, SafetyInvariant, PTL DEF Spec, ErrorsAgree

-----------------------------------------------------------------------------
(* The request path implements PathPromise                                 *)

\* Where the binding's activation may go in one step
PathMoves ==
  \/ rpc["op"] = "ret" /\ rpc'["op"] = "ret" /\ UNCHANGED <<rc, err, applied>>
  \/ rpc["op"] = "ret" /\ rpc'["op"] = "idle"
  \/ rpc["op"] = "idle" /\ rpc'["op"] # "ret"
  \/ rpc["op"] \notin {"idle", "ret"} /\ rpc'["op"] # "idle"

\* It is opened, runs, returns, and stays as it is until the binding has
\* collected the answer: nothing else runs once it has returned.
LEMMA PathStep == ControlInv /\ [Next]_vars => PathMoves
<1> USE DEF ctxVars, authVars, frameVars, localVars, deviceVars, historyVars
<1> USE DEF PathMoves, ControlInv, FrameType, GuardExact, Nesting, Idle, NoCall, Ensuring,
            CheckinOver, Sending, Frames, RequestPcs, AuthPcs, AfterEnsure, MoreLegs
<1>1. ASSUME ControlInv, NEW p \in {"right", "wrong"}, Login(p)
      PROVE  PathMoves
  BY <1>1 DEF Login
<1>2. ASSUME ControlInv, LoginMobile PROVE PathMoves
  BY <1>2 DEF LoginMobile
<1>3. ASSUME ControlInv, Logout PROVE PathMoves
  BY <1>3 DEF Logout
<1>4. ASSUME ControlInv, NEW k \in CallKinds, NEW s \in Scopes \union {NoScope}, Begin(k, s)
      PROVE  PathMoves
  BY <1>4, BeginControl
<1>5. ASSUME ControlInv, Finish PROVE PathMoves
  BY <1>5 DEF Finish
<1>6. ASSUME ControlInv, LegReturned PROVE PathMoves
  BY <1>6 DEF LegReturned, EndCheckin
<1>7. ASSUME ControlInv, EnsureHit PROVE PathMoves
  BY <1>7 DEF EnsureHit
<1>8. ASSUME ControlInv, EnsureNoCredential PROVE PathMoves
  BY <1>8 DEF EnsureNoCredential, FailEnsure, EndEnsure
<1>9. ASSUME ControlInv, EnsureMiss PROVE PathMoves
  BY <1>9 DEF EnsureMiss, StartAcquire
<1>10. ASSUME ControlInv, ProactiveDone PROVE PathMoves
  BY <1>10 DEF ProactiveDone, StartAcquire
<1>11. ASSUME ControlInv, ChallengeReturned PROVE PathMoves
  BY <1>11 DEF ChallengeReturned, StartRecovery
<1>12. ASSUME ControlInv, RtcCheckinDone PROVE PathMoves
  BY <1>12, RecheckControl
<1>13. ASSUME ControlInv, TokenReturned PROVE PathMoves
  BY <1>13 DEF TokenReturned, StartRecovery
<1>14. ASSUME ControlInv, DriftCheckinDone PROVE PathMoves
  BY <1>14, RecheckControl
<1>15. ASSUME ControlInv, NEW f \in {"op", "auth"}, CertCheckinDone(f)
      PROVE  PathMoves
  BY <1>15, CertControl
<1>16. ASSUME ControlInv, NEW f \in Frames, SendUnreachable(f) PROVE PathMoves
  BY <1>16 DEF SendUnreachable, Fail
<1>17. ASSUME ControlInv, NEW f \in Frames, SendLost(f) PROVE PathMoves
  BY <1>17 DEF SendLost, Fail
<1>18. ASSUME ControlInv, NEW f \in Frames, SendExpired(f) PROVE PathMoves
  BY <1>18 DEF SendExpired, Fail
<1>19. ASSUME ControlInv, OpReply PROVE PathMoves
  BY <1>19, OpReplyControl
<1>20. ASSUME ControlInv, ChallengeReply PROVE PathMoves
  BY <1>20, AuthReplyControl
<1>21. ASSUME ControlInv, TokenReply PROVE PathMoves
  BY <1>21, AuthReplyControl
<1>22. ASSUME ControlInv, LegReply PROVE PathMoves
  BY <1>22, LegReplyControl
<1>23. ASSUME ControlInv, MobileConfirm PROVE PathMoves
  BY <1>23, MobileControl
<1>24. ASSUME ControlInv, Tick PROVE PathMoves
  BY <1>24 DEF Tick
<1>25. ASSUME ControlInv, Restart PROVE PathMoves
  BY <1>25 DEF Restart
<1>26. ASSUME ControlInv, CertExpires PROVE PathMoves
  BY <1>26 DEF CertExpires
<1>27. ASSUME ControlInv, NEW o \in Offsets, ClockDrifts(o) PROVE PathMoves
  BY <1>27 DEF ClockDrifts
<1>28. ASSUME ControlInv, UNCHANGED vars PROVE PathMoves
  BY <1>28 DEF vars
<1> QED
  BY <1>1, <1>2, <1>3, <1>4, <1>5, <1>6, <1>7, <1>8, <1>9, <1>10, <1>11, <1>12,
     <1>13, <1>14, <1>15, <1>16, <1>17, <1>18, <1>19, <1>20, <1>21, <1>22, <1>23,
     <1>24, <1>25, <1>26, <1>27, <1>28
     DEF Next, Client, Exchange, User, World

\* What the path has returned tells whether the device executed the request.
LEMMA PathAnswered ==
  SafetyInv /\ rpc["op"] = "ret" =>
    \/ applied = 0 /\ PathAnswer \in PathFailures
    \/ applied = 1 /\ PathAnswer \in PathResults
<1> SUFFICES ASSUME SafetyInv, rpc["op"] = "ret"
             PROVE  \/ applied = 0 /\ PathAnswer \in PathFailures
                    \/ applied = 1 /\ PathAnswer \in PathResults
  OBVIOUS
<1>1. rc \in Codes /\ err.http \in Statuses /\ applied \in 0..3
  BY DEF SafetyInv, TypeOK, FrameType, CtxType, Errs, HistoryType
<1>2. Fits(rc, err.http) \/ rc = "AUTH_FAILED"
  BY Zenon DEF SafetyInv, Answered, Returned, Agreed, Frames
<1>3. /\ applied <= 1 /\ (rc = "OK" => applied = 1)
      /\ applied = 1 => rc \in {"OK", "NETWORK", "DEVICE", "PROTOCOL", "NOT_FOUND"}
      /\ applied = 1 /\ rc = "DEVICE" => err.http = 500
  BY DEF SafetyInv, Effects, Answered
<1>4. CASE rc = "OK"
  BY <1>3, <1>4 DEF PathAnswer, PathResults
<1>5. CASE rc # "OK" /\ applied = 1
  <2>1. PathAnswer = Answer(rc, err.http)
    BY <1>5, Zenon DEF PathAnswer
  <2> QED
    BY <1>2, <1>3, <1>5, <2>1 DEF Fits, PathResults
<1>6. CASE rc # "OK" /\ applied = 0
  <2>1. PathAnswer = Answer(rc, err.http)
    BY <1>6, Zenon DEF PathAnswer
  <2>2. CASE rc = "AUTH_FAILED"
    <3>1. PathAnswer \in {Answer("AUTH_FAILED", st) : st \in Statuses}
      BY <1>1, <2>1, <2>2, Zenon
    <3>2. ASSUME NEW x \in {Answer("AUTH_FAILED", st) : st \in Statuses}
          PROVE  x \in PathFailures
      BY <3>2, SMT DEF PathFailures
    <3> QED
      BY <1>6, <3>1, <3>2, Zenon
  <2>3. CASE rc # "AUTH_FAILED"
    BY <1>1, <1>2, <1>6, <2>1, <2>3 DEF Fits, PathFailures, Codes
  <2> QED
    BY <2>2, <2>3, Zenon
<1> QED
  BY <1>1, <1>3, <1>4, <1>5, <1>6

\* Every step of the engine is a step of PathPromise or leaves it alone.
LEMMA PathRefines ==
  SafetyInv /\ SafetyInv' /\ PathMoves => [Path!Next]_(Path!vars)
<1> SUFFICES ASSUME SafetyInv, SafetyInv', PathMoves
             PROVE  [Path!Next]_(Path!vars)
  OBVIOUS
<1>1. /\ rpc["op"] # "ret" => applied = 0
      /\ rpc'["op"] # "ret" => applied' = 0
  BY DEF SafetyInv, Effects
<1>2. rpc'["op"] = "ret" =>
        \/ applied' = 0 /\ PathAnswer' \in PathFailures
        \/ applied' = 1 /\ PathAnswer' \in PathResults
  <2>1. (SafetyInv /\ rpc["op"] = "ret" =>
           \/ applied = 0 /\ PathAnswer \in PathFailures
           \/ applied = 1 /\ PathAnswer \in PathResults)'
    BY PathAnswered, PTL
  <2> QED
    BY <2>1, Zenon
<1>3. CASE rpc["op"] = "ret" /\ rpc'["op"] = "ret" /\ UNCHANGED <<rc, err, applied>>
  <2>1. PathPhase' = PathPhase /\ PathAnswer' = PathAnswer /\ applied' = applied
    BY <1>3 DEF PathPhase, PathAnswer
  <2> QED
    BY <2>1 DEF Path!vars
<1>4. CASE rpc["op"] = "ret" /\ rpc'["op"] = "idle"
  <2>1. Path!Collect
    <3>1. PathPhase = "done" /\ PathPhase' = "idle" /\ (applied' = 1) = FALSE
      BY <1>1, <1>4 DEF PathPhase
    <3>2. PathAnswer' = Path!NoAnswer
      BY <1>4 DEF PathAnswer, Path!NoAnswer, Path!Answer, Answer
    <3> QED
      BY <3>1, <3>2, Zenon DEF Path!Collect
  <2> QED
    BY <2>1, Zenon DEF Path!Next
<1>5. CASE rpc["op"] # "ret" /\ rpc'["op"] # "ret"
  <2>1. PathAnswer' = PathAnswer /\ applied' = 0 /\ applied = 0
    BY <1>1, <1>5 DEF PathAnswer
  <2>2. CASE PathPhase' = PathPhase
    BY <2>1, <2>2 DEF Path!vars
  <2>3. CASE PathPhase' # PathPhase
    <3>1. PathPhase = "idle" /\ PathPhase' = "open"
      BY <1>5, <2>3 DEF PathMoves, PathPhase
    <3>2. Path!Issue
      BY <2>1, <3>1 DEF Path!Issue
    <3> QED
      BY <3>2, Zenon DEF Path!Next
  <2> QED
    BY <2>2, <2>3, Zenon
<1>6. CASE rpc["op"] \notin {"idle", "ret"} /\ rpc'["op"] = "ret"
  <2>1. PathPhase = "open" /\ PathPhase' = "done"
    BY <1>6 DEF PathPhase
  <2>2. Path!Return
    <3>1. Path!PathFailures = PathFailures /\ Path!PathResults = PathResults
      BY Zenon DEF Path!PathFailures, PathFailures, Path!PathResults, PathResults,
         Path!Answer, Answer, Path!Statuses, Statuses
    <3>2. CASE applied' = 0 /\ PathAnswer' \in PathFailures
      <4>1. (applied' = 1) = FALSE
        BY <3>2
      <4> QED
        BY <2>1, <3>1, <3>2, <4>1, Zenon DEF Path!Return
    <3>3. CASE applied' = 1 /\ PathAnswer' \in PathResults
      <4>1. (applied' = 1) = TRUE
        BY <3>3
      <4> QED
        BY <2>1, <3>1, <3>3, <4>1, Zenon DEF Path!Return
    <3> QED
      BY <1>2, <1>6, <3>2, <3>3, Zenon
  <2> QED
    BY <2>2, Zenon DEF Path!Next
<1> QED
  BY <1>3, <1>4, <1>5, <1>6 DEF PathMoves

\* The session engine implements the promise the bindings are built on: through
\* token acquisition, recoveries and resends, one answer per request, at most
\* one execution before it, and a code and status that tell the truth about it.
THEOREM PathIsPromised == Spec => PathPromised
<1>1. Init => Path!Init
  <2> SUFFICES ASSUME Init PROVE Path!Init
    OBVIOUS
  <2>1. PathPhase = "idle" /\ (applied = 1) = FALSE
    BY DEF Init, PathPhase, Frames
  <2>2. PathAnswer = Path!NoAnswer
    BY DEF Init, PathAnswer, Frames, Path!NoAnswer, Path!Answer, Answer
  <2> QED
    BY <2>1, <2>2, Zenon DEF Path!Init
<1>2. SafetyInv /\ [Next]_vars => SafetyInv' /\ PathMoves
  BY SafetyNext, PathStep, Zenon DEF SafetyInv, ControlInv, TypeOK
<1>3. SafetyInv /\ [Next]_vars => [Path!Next]_(Path!vars)
  BY <1>2, PathRefines, Zenon
<1> QED
  BY <1>1, <1>3, SafetyInvariant, PTL DEF Spec, PathPromised, Path!Spec
=============================================================================
