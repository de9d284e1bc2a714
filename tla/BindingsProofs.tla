--------------------------- MODULE BindingsProofs ---------------------------
(***************************************************************************)
(* Proofs about Bindings: that every request carries what the caller       *)
(* passed and no NULL with a length turns into an argument left out, what  *)
(* a verifier's success excludes, and what ehem_random leaves in the       *)
(* caller's buffer, for every length of a request and of an initial value. *)
(***************************************************************************)
EXTENDS Bindings, TLAPS

\* The way an argument is checked tells a length without bytes from bytes, or
\* the argument is a string or one that a NULL pointer leaves out.
Tells(x, check) ==
  \/ x \in Strings
  \/ x = "descr" /\ check = "capped"
  \/ x \notin {"iv", "tag"} /\ check \in {"required", "nonempty", "atmost"}
  \/ check = "exactly"
TellsAll(b) == \A x \in DOMAIN b.takes \ {"none"} : Tells(x, b.takes[x])

\* The same of a binding without a description, and without a peer to derive from.
Plain(b) == TellsAll(b) /\ "descr" \notin DOMAIN b.takes /\ b.peer # "derive"

\* Between two encryptions of ehem_random: the bytes so far are distinct ones of
\* complete earlier initial values, the others are the caller's.
FillOK ==
  pc = "path" /\ op = "random" =>
    /\ filled < len
    /\ \A i \in 1..len : IF i <= filled THEN buf[i].k \in 1..(filled \div IvLen)
                         ELSE buf[i] = Old
    /\ \A i, j \in 1..filled : buf[i] = buf[j] => i = j

Reports == [status : Statuses \union RawStatuses, body : Bodies]

PathOK == pc = "path" => op # "none" /\ verdict # "invalid"

BindInv ==
  /\ TypeOK /\ PathOK /\ FillOK
  /\ NothingDropped /\ InvalidNeverPasses /\ AllOrNothing

-----------------------------------------------------------------------------
(* The table                                                               *)

\* Every check of every binding in the table tells its argument apart.  Only
\* bindings of key management have a description, only one derives from a peer.
LEMMA TableTells ==
  ASSUME NEW o \in Names
  PROVE  /\ TellsAll(Binding[o])
         /\ "descr" \in DOMAIN Binding[o].takes =>
              o \in {"key_create", "key_import", "key_update", "key_derive"}
         /\ Binding[o].peer = "derive" => o = "key_derive"
<1>1. Plain(Sign)
  BY DEF Sign, Json, Plain, TellsAll, Tells, Strings
<1>2. Plain(Verify)
  BY DEF Verify, Raw, Json, Plain, TellsAll, Tells, Strings
<1>3. Plain(Ecdh)
  BY DEF Ecdh, Json, Plain, TellsAll, Tells, Strings
<1>4. Plain(Hmac)
  BY DEF Hmac, HmacArgs, Json, Plain, TellsAll, Tells, Strings
<1>5. Plain(HmacVerify)
  BY DEF HmacVerify, Raw, AlsoTakes, HmacArgs, Json, Plain, TellsAll, Tells, Strings
<1>6. Plain(Encrypt)
  BY DEF Encrypt, CipherArgs, Json, Plain, TellsAll, Tells, Strings
<1>7. Plain(Decrypt)
  BY DEF Decrypt, AlsoTakes, CipherArgs, Json, Plain, TellsAll, Tells, Strings
<1>8. Plain(Wrap)
  BY DEF Wrap, WrapArgs, Json, Plain, TellsAll, Tells, Strings
<1>9. Plain(Unwrap)
  BY DEF Unwrap, WrapArgs, Json, Plain, TellsAll, Tells, Strings
<1>10. Plain(MlkemEncaps)
  BY DEF MlkemEncaps, KidOnly, Json, Plain, TellsAll, Tells, Strings
<1>11. Plain(MlkemDecaps)
  BY DEF MlkemDecaps, Json, Plain, TellsAll, Tells, Strings
<1>12. Plain(MldsaSign)
  BY DEF MldsaSign, MldsaArgs, Json, Plain, TellsAll, Tells, Strings
<1>13. Plain(MldsaVerify)
  BY DEF MldsaVerify, Raw, AlsoTakes, MldsaArgs, Json, Plain, TellsAll, Tells, Strings
<1>14. Plain(KeyGet)
  BY DEF KeyGet, KidOnly, Json, Plain, TellsAll, Tells, Strings
<1>15. Plain(KeyDelete)
  BY DEF KeyDelete, Raw, KidOnly, Json, Plain, TellsAll, Tells, Strings
<1>16. Plain(LoggerKey)
  BY DEF LoggerKey, NoArgs, Json, Plain, TellsAll, Tells, Strings
<1>17. Plain(LoggerList)
  BY DEF LoggerList, NoArgs, Json, Plain, TellsAll, Tells, Strings
<1>18. Plain(LoggerGet)
  BY DEF LoggerGet, Raw, Json, Plain, TellsAll, Tells, Strings
<1>19. Plain(Storage)
  BY DEF Storage, Raw, Json, Plain, TellsAll, Tells, Strings
<1>20. Plain(SystemStatus)
  BY DEF SystemStatus, NoArgs, Json, Plain, TellsAll, Tells, Strings
<1>21. Plain(SystemVersion)
  BY DEF SystemVersion, NoArgs, Json, Plain, TellsAll, Tells, Strings
<1>22. Plain(SystemConfig)
  BY DEF SystemConfig, NoArgs, Json, Plain, TellsAll, Tells, Strings
<1>23. Plain(Selftest)
  BY DEF Selftest, NoArgs, Json, Plain, TellsAll, Tells, Strings
<1>24. TellsAll(KeyCreate) /\ KeyCreate.peer # "derive"
  BY DEF KeyCreate, Json, TellsAll, Tells, Strings
<1>25. TellsAll(KeyImport) /\ KeyImport.peer # "derive"
  BY DEF KeyImport, Json, TellsAll, Tells, Strings
<1>26. TellsAll(KeyUpdate) /\ KeyUpdate.peer # "derive"
  BY DEF KeyUpdate, Raw, Json, TellsAll, Tells, Strings
<1>27. TellsAll(KeyDerive)
  BY DEF KeyDerive, Json, TellsAll, Tells, Strings
<1>28. \/ o \notin {"key_create", "key_import", "key_update", "key_derive"}
          /\ Binding[o] \in
             {Sign, Verify, Ecdh, Hmac, HmacVerify, Encrypt, Decrypt, Wrap,
              Unwrap, MlkemEncaps, MlkemDecaps, MldsaSign, MldsaVerify,
              KeyGet, KeyDelete, LoggerKey, LoggerList, LoggerGet, Storage,
              SystemStatus, SystemVersion, SystemConfig, Selftest}
       \/ o \in {"key_create", "key_import", "key_update"}
          /\ Binding[o] \in {KeyCreate, KeyImport, KeyUpdate}
       \/ o = "key_derive" /\ Binding[o] = KeyDerive
  BY DEF Names, Binding
<1> QED
  BY <1>1, <1>2, <1>3, <1>4, <1>5, <1>6, <1>7, <1>8, <1>9, <1>10, <1>11,
     <1>12, <1>13, <1>14, <1>15, <1>16, <1>17, <1>18, <1>19, <1>20, <1>21,
     <1>22, <1>23, <1>24, <1>25, <1>26, <1>27, <1>28 DEF Plain

\* ehem_encrypt, which ehem_random calls, takes no empty answer for success.
LEMMA EncryptIsJson == "encrypt" \in Names /\ "encrypt" \notin EmptyOkOps
<1>1. "encrypt" \in Names /\ Binding["encrypt"] = Encrypt
  BY DEF Names, Binding
<1>2. Encrypt.via = "json"
  BY DEF Encrypt, Json
<1> QED BY <1>1, <1>2 DEF EmptyOkOps

\* An argument that passes its check goes out exactly when the caller passed it,
\* and is no NULL with a length but for a description.
LEMMA ArgCarried ==
  ASSUME NEW x, NEW check, NEW v \in ValuesOf(x), Tells(x, check), Accepts(check, v)
  PROVE  (Carried(x, v) <=> Meant(x, v)) /\ (v = "dangling" => x = "descr")
<1>1. CASE x \in Strings
  BY <1>1 DEF Carried, Meant, ValuesOf
<1>2. CASE x \notin Strings /\ x = "descr"
  BY <1>2 DEF Carried, Meant
<1>3. CASE x \notin Strings \union {"descr", "iv", "tag"} /\ check \in {"required", "nonempty", "atmost"}
  <2>1. v # "dangling"
    BY <1>3 DEF Accepts, Required, NonEmpty, AtMost
  <2> QED BY <1>3, <2>1 DEF Carried, Meant
<1>4. CASE x \notin Strings /\ check = "exactly"
  <2>1. v \in {"null", "fit"}
    BY <1>4 DEF Accepts, Exactly
  <2> QED BY <1>4, <2>1 DEF Carried, Meant
<1> QED BY <1>1, <1>2, <1>3, <1>4 DEF Tells

\* A choice of peer that check_peer_args accepts is sent if and only if meant;
\* only ehem_key_derive, and only beside an ext_kid, accepts a NULL pubkey with a
\* length.
LEMMA PeerCarried ==
  ASSUME NEW rule, NEW ext, NEW pub, PeerOk(rule, ext, pub)
  PROVE  /\ Carried("peer", pub) <=> Meant("peer", pub)
         /\ pub = "dangling" => rule = "derive" /\ Carried("ext_kid", ext)
<1>1. "peer" \notin Strings /\ "peer" \notin {"iv", "tag", "descr"} /\ "ext_kid" \in Strings
  BY DEF Strings
<1>2. pub = "dangling" => rule = "derive" /\ ext # "null"
  BY DEF PeerOk, HavePub, Required
<1> QED BY <1>1, <1>2 DEF Carried, Meant

\* The arguments of a call, each one anything it can be.
LEMMA CallArgs ==
  ASSUME NEW o, NEW a \in Values(o)
  PROVE  /\ DOMAIN a = Args(o) \union PeerArgs(o)
         /\ \A x \in DOMAIN a : a[x] \in ValuesOf(x)
<1> DEFINE D == Args(o) \union PeerArgs(o)
           base == [D -> {"null", "fit"}]
<1>1. \A x : {"null", "fit"} \subseteq ValuesOf(x)
  BY DEF ValuesOf, ArgValues
<1>2. a \in base \union UNION {Variants(b) : b \in base}
  BY Zenon DEF Values
<1>3. CASE a \in base
  BY <1>1, <1>3
<1>4. CASE a \in UNION {Variants(b) : b \in base}
  <2>1. PICK b \in base : a \in Variants(b)
    BY <1>4, Zenon
  <2>2. PICK x \in DOMAIN b : a \in {[b EXCEPT ![x] = v] : v \in ValuesOf(x)}
    BY <2>1, Zenon DEF Variants
  <2>3. PICK v \in ValuesOf(x) : a = [b EXCEPT ![x] = v]
    BY <2>2, Zenon
  <2>4. DOMAIN a = D /\ a[x] = v /\ \A y \in D : y # x => a[y] = b[y]
    BY <2>1, <2>2, <2>3
  <2> QED BY <1>1, <2>1, <2>3, <2>4
<1> QED BY <1>2, <1>3, <1>4

\* The request of a call that passed its checks carries what the caller passed,
\* and what was NULL with a length was refused, but for what Overlooked lists.
LEMMA RequestComplete ==
  ASSUME NEW o \in Names, NEW a \in Values(o), ArgsOk(o, a),
         NEW sent, sent = {x \in DOMAIN a : Carried(x, a[x])}
  PROVE  /\ sent = {x \in DOMAIN a : Meant(x, a[x])}
         /\ {x \in DOMAIN a : a[x] = "dangling"} \subseteq Overlooked(o, sent)
<1>1. ASSUME NEW x \in DOMAIN a
      PROVE  /\ Carried(x, a[x]) <=> Meant(x, a[x])
             /\ a[x] = "dangling" => x \in Overlooked(o, sent)
  <2>1. x \in Args(o) \union PeerArgs(o) /\ a[x] \in ValuesOf(x)
    BY CallArgs
  <2>2. CASE x \in Args(o)
    <3>1. Tells(x, Binding[o].takes[x])
      BY <2>2, TableTells DEF TellsAll, Args
    <3>2. Accepts(Binding[o].takes[x], a[x])
      BY <2>2 DEF ArgsOk
    <3>3. x = "descr" => x \in Overlooked(o, sent)
      BY <2>2, TableTells DEF Args, Overlooked
    <3> QED BY <2>1, <3>1, <3>2, <3>3, ArgCarried
  <2>3. CASE x = "ext_kid"
    BY <2>1, <2>3 DEF Carried, Meant, Strings, ValuesOf
  <2>4. CASE x = "peer" /\ x \notin Args(o)
    <3>1. Binding[o].peer # "no" /\ "ext_kid" \in DOMAIN a
      BY <2>1, <2>4, CallArgs DEF PeerArgs
    <3>2. PeerOk(Binding[o].peer, a["ext_kid"], a["peer"])
      BY <3>1 DEF ArgsOk
    <3>3. a["peer"] = "dangling" => o = "key_derive" /\ "ext_kid" \in sent
      BY <3>1, <3>2, PeerCarried, TableTells
    <3> QED BY <2>4, <3>2, <3>3, PeerCarried DEF Overlooked
  <2> QED BY <2>1, <2>2, <2>3, <2>4 DEF PeerArgs
<1> QED BY <1>1

-----------------------------------------------------------------------------
(* Results of a call                                                       *)

\* The variables of a call while it is under way, typed.
LEMMA Under ==
  ASSUME BindInv, pc = "path"
  PROVE  /\ op \in Names \union {"random"} /\ len \in 0..MaxLen /\ filled \in 0..len
         /\ buf \in [1..len -> Entropy \union {Old, Zero}] /\ wire = meant
         /\ nulls \subseteq Overlooked(op, wire)
  BY DEF BindInv, TypeOK, PathOK, NothingDropped

\* No report is one.
LEMMA NoReportTyped == NoReport \in Reports
  BY DEF NoReport, Reports, Reply, Bodies, Statuses

\* A call that fails: ehem_random has zeroized what it had.
LEMMA FailStep ==
  ASSUME BindInv, pc = "path", NEW code \in Codes \ {"OK"},
         NEW st \in Statuses \union RawStatuses, Fail(code, st),
         asked' \in BOOLEAN, verdict' \in {"none", "valid", "invalid"},
         report' \in Reports
  PROVE  BindInv'
<1>1. /\ op \in Names \union {"random"} /\ len \in 0..MaxLen /\ filled \in 0..len
      /\ buf \in [1..len -> Entropy \union {Old, Zero}]
  BY Under
<1>2. /\ pc' = "ret" /\ rc' = code /\ http' = st /\ UNCHANGED <<op, wire, meant, nulls, len, filled>>
      /\ out' = FALSE
      /\ op # "random" => buf' = buf
      /\ op = "random" => buf' = Zeroized(filled)
  BY DEF Fail, Return
<1>3. /\ buf' \in [1..len -> Entropy \union {Old, Zero}]
      /\ op = "random" => \A i \in 1..len : buf'[i].k = 0
  <2>1. CASE op # "random"
    BY <1>1, <1>2, <2>1
  <2>2. CASE op = "random"
    <3>1. \A i \in 1..len : i > filled => buf[i] = Old
      BY <1>1, <2>2 DEF BindInv, FillOK
    <3>2. buf' = [i \in 1..len |-> IF i <= filled THEN Zero ELSE buf[i]]
      BY <1>2, <2>2 DEF Zeroized
    <3>3. Zero.k = 0 /\ Old.k = 0
      BY DEF Zero, Old
    <3>4. \A i \in 1..len : buf'[i] \in {Zero, Old}
      BY <1>1, <3>1, <3>2
    <3> QED BY <3>2, <3>3, <3>4
  <2> QED BY <2>1, <2>2
<1>4. out' \in BOOLEAN
  BY <1>2, Zenon
<1>5. TypeOK'
  BY <1>1, <1>2, <1>3, <1>4 DEF TypeOK, Reports
<1>6. PathOK' /\ FillOK' /\ NothingDropped' /\ InvalidNeverPasses'
  BY <1>2 DEF PathOK, FillOK, NothingDropped, InvalidNeverPasses, Returned
<1>7. AllOrNothing'
  BY <1>2, <1>3 DEF AllOrNothing, Returned
<1> QED BY <1>5, <1>6, <1>7 DEF BindInv

\* A call of a plain binding that succeeds.
LEMMA SucceedStep ==
  ASSUME BindInv, pc = "path", op # "random", NEW has \in BOOLEAN, Succeed(has),
         asked' \in BOOLEAN, verdict' \in {"none", "valid", "invalid"}, report' \in Reports,
         verdict' = "invalid" => report'.status \in 201..299 /\ report'.body # "empty"
  PROVE  BindInv'
<1>1. /\ op \in Names \union {"random"} /\ len \in 0..MaxLen /\ filled \in 0..len
      /\ buf \in [1..len -> Entropy \union {Old, Zero}]
  BY Under
<1>2. /\ pc' = "ret" /\ rc' = "OK" /\ UNCHANGED <<op, wire, meant, nulls, len, filled, buf>>
      /\ out' = has
  BY DEF Succeed, Return
<1>3. http' \in Statuses
  BY DEF Succeed, Return, Statuses
<1>4. TypeOK'
  BY <1>1, <1>2, <1>3 DEF TypeOK, Codes, Reports
<1>5. /\ PathOK' /\ FillOK' /\ NothingDropped' /\ InvalidNeverPasses'
      /\ AllOrNothing'
  BY <1>2 DEF PathOK, FillOK, NothingDropped, InvalidNeverPasses, Returned,
              AllOrNothing
<1> QED BY <1>4, <1>5 DEF BindInv

\* What a binding makes of a failure of the path: a success only of an empty 200.
LEMMA PathEndsStep ==
  ASSUME BindInv, pc = "path", NEW code \in Codes \ {"OK"},
         NEW st \in Statuses \union RawStatuses, PathEnds(code, st),
         asked' \in BOOLEAN, verdict' \in {"none", "valid", "invalid"}, report' \in Reports,
         code = "PROTOCOL" /\ st = 200 => verdict' # "invalid"
  PROVE  BindInv'
<1> DEFINE o == IF op = "random" THEN "encrypt" ELSE op
           v == Verdict(o, code, st)
<1>1. IF v.code = "OK" THEN Succeed(FALSE) ELSE Fail(v.code, v.http)
  BY Zenon DEF PathEnds
<1> HIDE DEF o
<1>2. v.code \in Codes /\ v.http \in Statuses \union RawStatuses
  BY DEF Verdict, EmptyOk, Answer, Codes, Statuses
<1>3. v.code = "OK" => o \in EmptyOkOps /\ code = "PROTOCOL" /\ st = 200
  BY DEF Verdict, EmptyOk, Answer
<1>4. CASE v.code = "OK"
  <2>1. op # "random"
    BY <1>3, <1>4, EncryptIsJson DEF o
  <2>2. verdict' # "invalid"
    BY <1>3, <1>4
  <2>3. Succeed(FALSE) /\ FALSE \in BOOLEAN
    BY <1>1, <1>4, Zenon
  <2> QED BY <2>1, <2>2, <2>3, SucceedStep
<1>5. CASE v.code # "OK"
  <2>1. Fail(v.code, v.http)
    BY <1>1, <1>5, Zenon
  <2> HIDE DEF v
  <2> QED BY <1>2, <1>5, <2>1, FailStep
<1> QED BY <1>4, <1>5

-----------------------------------------------------------------------------
(* Steps                                                                   *)

\* A request path that fails leaves the verdict open and the buffer whole.
LEMMA PathFailedStep == BindInv /\ PathFailed => BindInv'
<1> SUFFICES ASSUME BindInv, PathFailed PROVE BindInv'
  OBVIOUS
<1>1. pc = "path" /\ asked' = asked /\ verdict' = verdict /\ report' = report
  BY DEF PathFailed, deviceVars
<1>2. PICK f \in PathFailures : PathEnds(f.code, f.http)
  BY DEF PathFailed
<1>3. f.code \in Codes \ {"OK"} /\ f.http \in Statuses
  BY <1>2 DEF PathFailures, Answer, Codes, Statuses
<1>4. verdict \in {"none", "valid", "invalid"} /\ verdict # "invalid" /\ asked \in BOOLEAN
      /\ report \in Reports
  BY <1>1 DEF BindInv, TypeOK, PathOK, Reports
<1> QED BY <1>1, <1>2, <1>3, <1>4, PathEndsStep

\* A judgement whose answer is lost is not taken for success.
LEMMA AnswerLostStep == BindInv /\ AnswerLost => BindInv'
<1> SUFFICES ASSUME BindInv, AnswerLost PROVE BindInv'
  OBVIOUS
<1>1. pc = "path" /\ asked' = TRUE /\ report' = NoReport
  BY DEF AnswerLost
<1>5. PICK code \in {"NETWORK", "NOMEM"} : PathEnds(code, 0)
  BY DEF AnswerLost
<1>2. verdict' \in {"none", "valid", "invalid"}
  BY DEF AnswerLost, Judgement
<1>3. code \in Codes \ {"OK"} /\ code # "PROTOCOL" /\ 0 \in Statuses \union RawStatuses
  BY DEF Codes, Statuses
<1>4. asked' \in BOOLEAN
  BY <1>1, Zenon
<1> QED BY <1>1, <1>2, <1>3, <1>4, <1>5, NoReportTyped, PathEndsStep

\* A refusal of the device is turned into success only of a 2xx with a body.
LEMMA RefusalStep == BindInv /\ RefusalAnswer => BindInv'
<1> SUFFICES ASSUME BindInv, RefusalAnswer PROVE BindInv'
  OBVIOUS
<1>1. pc = "path" /\ asked' = TRUE /\ verdict' \in {"none", "invalid"}
  BY DEF RefusalAnswer
<1>2. PICK st \in Refusals(op), b \in {"empty", "json"} :
        /\ report' = Reply(st, b)
        /\ IF RawCode(Reply(st, b)) = "OK" THEN Succeed(FALSE)
           ELSE PathEnds(RawCode(Reply(st, b)), st)
  BY Zenon DEF RefusalAnswer
<1>3. /\ st \in Statuses \union RawStatuses /\ st # 200
      /\ RawCode(Reply(st, b)) \in Codes
      /\ report' \in Reports
      /\ RawCode(Reply(st, b)) = "OK" => st = 202 /\ op \in Verifiers /\ b # "empty"
  BY <1>2 DEF Refusals, RawStatuses, Statuses, RawCode, MapStatus, Reply, Codes, Reports, Bodies
<1>4. asked' \in BOOLEAN /\ FALSE \in BOOLEAN
  BY <1>1, Zenon
<1>5. CASE RawCode(Reply(st, b)) = "OK"
  <2>1. Succeed(FALSE)
    BY <1>2, <1>5, Zenon
  <2>2. op # "random"
    BY <1>3, <1>5 DEF Verifiers
  <2>3. report'.status \in 201..299 /\ report'.body # "empty"
    BY <1>2, <1>3, <1>5 DEF Reply
  <2> QED BY <1>1, <1>3, <1>4, <2>1, <2>2, <2>3, SucceedStep
<1>6. CASE RawCode(Reply(st, b)) # "OK"
  <2>1. PathEnds(RawCode(Reply(st, b)), st)
    BY <1>2, <1>6, Zenon
  <2> QED BY <1>1, <1>3, <1>4, <1>6, <2>1, PathEndsStep
<1> QED BY <1>5, <1>6

\* An empty or a filled answer to a raw request, a judgement included.
LEMMA RawAnswerStep == BindInv /\ RawAnswer => BindInv'
<1> SUFFICES ASSUME BindInv, RawAnswer PROVE BindInv'
  OBVIOUS
<1>1. pc = "path" /\ asked' = TRUE /\ op # "random" /\ verdict' \in {"none", "valid"}
  BY DEF RawAnswer
<1>2. Succeed(op = "logger_get") \/ PathEnds("PROTOCOL", 200)
  BY DEF RawAnswer
<1>8. report' \in Reports
  BY DEF RawAnswer, Reports, Reply, Bodies, Statuses
<1>3. asked' \in BOOLEAN
  BY <1>1, Zenon
<1>4. (op = "logger_get") \in BOOLEAN
  BY Zenon
<1>5. "PROTOCOL" \in Codes \ {"OK"} /\ 200 \in Statuses \union RawStatuses
  BY DEF Codes, Statuses
<1>6. CASE Succeed(op = "logger_get")
  <2>1. PICK has \in BOOLEAN : has = (op = "logger_get")
    BY <1>4
  <2>2. Succeed(has)
    BY <1>6, <2>1
  <2> QED BY <1>1, <1>3, <1>8, <2>2, SucceedStep
<1>7. CASE PathEnds("PROTOCOL", 200)
  BY <1>1, <1>3, <1>5, <1>7, <1>8, PathEndsStep
<1> QED BY <1>2, <1>6, <1>7

\* A 200 whose body is none or no JSON.
LEMMA NoJson ==
  ASSUME BindInv, pc = "path", NEW r \in {Reply(200, "empty"), Reply(200, "bad")},
         PathEnds(JsonCode(r), JsonHttp(r)), asked' = TRUE, verdict' = "none",
         report' = NoReport
  PROVE  BindInv'
<1>1. JsonCode(r) \in Codes \ {"OK"} /\ JsonHttp(r) \in Statuses \union RawStatuses
  BY DEF JsonCode, JsonHttp, RawCode, RawHttp, Reply, Codes, Statuses
<1>2. asked' \in BOOLEAN
  BY Zenon
<1> QED BY <1>1, <1>2, NoReportTyped, PathEndsStep

\* A JSON answer with any of its fields missing or malformed.
LEMMA JsonAnswerStep == BindInv /\ JsonAnswer => BindInv'
<1> SUFFICES ASSUME BindInv, JsonAnswer PROVE BindInv'
  OBVIOUS
<1>1. /\ pc = "path" /\ asked' = TRUE /\ op # "random" /\ verdict' = "none"
      /\ report' = NoReport
  BY DEF JsonAnswer
<1>2. asked' \in BOOLEAN
  BY <1>1, Zenon
<1>3. CASE \E r \in {Reply(200, "empty"), Reply(200, "bad")} : PathEnds(JsonCode(r), JsonHttp(r))
  BY <1>1, <1>3, NoJson
<1>4. CASE \E f \in Fields(op) : IF Decoded(op, f) THEN Succeed(TRUE)
                                 ELSE Fail("PROTOCOL", 200)
  <2>1. PICK f \in Fields(op) : IF Decoded(op, f) THEN Succeed(TRUE)
                                ELSE Fail("PROTOCOL", 200)
    BY <1>4
  <2>2. CASE Succeed(TRUE)
    BY <1>1, <1>2, <2>2, NoReportTyped, SucceedStep
  <2>3. CASE Fail("PROTOCOL", 200)
    <3>3. "PROTOCOL" \in Codes \ {"OK"} /\ 200 \in Statuses \union RawStatuses
      BY DEF Codes, Statuses
    <3> QED BY <1>1, <1>2, <2>3, <3>3, NoReportTyped, FailStep
  <2> QED BY <2>1, <2>2, <2>3
<1> QED BY <1>3, <1>4 DEF JsonAnswer

\* One more initial value after m bytes is one more complete one.
LEMMA DivStep ==
  ASSUME NEW m \in Nat, NEW d \in Nat \ {0}
  PROVE  (m + d) \div d = m \div d + 1 /\ m \div d \in 0..m
  OBVIOUS

\* ehem_random takes an initial value: its bytes are new, because the number of
\* the encryption is.
LEMMA HarvestStep ==
  ASSUME BindInv, pc = "path", op = "random", Harvest, asked' = TRUE, verdict' = "none",
         report' = NoReport
  PROVE  BindInv'
<1> DEFINE q == filled \div IvLen
<1>1. /\ len \in 0..MaxLen /\ filled \in 0..len /\ filled < len /\ wire = meant
      /\ nulls \subseteq Overlooked(op, wire)
      /\ buf \in [1..len -> Entropy \union {Old, Zero}]
      /\ IvLen \in Nat \ {0} /\ MaxLen \in Nat
  BY Under, BindingAssumption DEF BindInv, FillOK
<1>2. /\ \A i \in 1..len : IF i <= filled THEN buf[i].k \in 1..q ELSE buf[i] = Old
      /\ \A i, j \in 1..filled : buf[i] = buf[j] => i = j
  BY DEF BindInv, FillOK
<1>3. q \in 0..filled /\ (filled + IvLen) \div IvLen = q + 1
  <2>1. filled \in Nat
    BY <1>1
  <2> QED BY <1>1, <2>1, DivStep
<1> HIDE DEF q
<1>4. Take \in 1..IvLen /\ filled + Take <= len /\ (Take = IvLen \/ filled + Take = len)
  BY <1>1 DEF Take
<1>5. /\ buf' = [i \in DOMAIN buf |->
                   IF i > filled /\ i <= filled + Take
                   THEN [k |-> q + 1, i |-> i - filled] ELSE buf[i]]
      /\ filled' = filled + Take /\ out' = FALSE
      /\ UNCHANGED <<op, wire, meant, nulls, len>>
      /\ IF filled + Take < len THEN pc' = "path" /\ http' = 0 /\ rc' = rc
         ELSE pc' = "ret" /\ rc' = "OK" /\ http' \in Statuses
  BY DEF Harvest, q
<1>6. \A i \in 1..len :
        buf'[i] = IF i > filled /\ i <= filled + Take
                  THEN [k |-> q + 1, i |-> i - filled] ELSE buf[i]
  BY <1>1, <1>5
<1>7. buf' \in [1..len -> Entropy \union {Old, Zero}]
  <2>1. ASSUME NEW i \in 1..len, i > filled, i <= filled + Take
        PROVE  [k |-> q + 1, i |-> i - filled] \in Entropy
    <3>1. q + 1 \in 1..MaxLen /\ i - filled \in 1..IvLen
      BY <1>1, <1>3, <1>4, <2>1
    <3> QED BY <3>1 DEF Entropy
  <2>2. \A i \in 1..len : buf'[i] \in Entropy \union {Old, Zero}
    BY <1>1, <1>6, <2>1
  <2> QED BY <1>1, <1>5, <2>2
<1>8. \A i \in 1..len : IF i <= filled' THEN buf'[i].k \in 1..(q + 1) ELSE buf'[i] = Old
  BY <1>1, <1>2, <1>3, <1>4, <1>5, <1>6
<1>9. \A i, j \in 1..filled' : buf'[i] = buf'[j] => i = j
  <2> SUFFICES ASSUME NEW i \in 1..filled', NEW j \in 1..filled', buf'[i] = buf'[j]
               PROVE  i = j
    OBVIOUS
  <2>1. i \in 1..len /\ j \in 1..len
    BY <1>1, <1>4, <1>5
  <2>2. CASE i <= filled /\ j <= filled
    <3>1. ~(i > filled) /\ ~(j > filled)
      BY <1>1, <2>1, <2>2
    <3>2. buf'[i] = buf[i] /\ buf'[j] = buf[j]
      BY <1>6, <2>1, <3>1
    <3>3. i \in 1..filled /\ j \in 1..filled
      BY <1>1, <2>1, <2>2
    <3> QED BY <1>2, <3>2, <3>3
  <2>3. CASE i > filled /\ j > filled
    <3>1. buf'[i].i = i - filled /\ buf'[j].i = j - filled
      BY <1>5, <1>6, <2>1, <2>3
    <3> QED BY <1>1, <2>1, <3>1
  <2>4. CASE ~(i <= filled <=> j <= filled)
    <3>1. (i <= filled => buf'[i].k \in 1..q) /\ (i > filled => buf'[i].k = q + 1)
      BY <1>1, <1>2, <1>5, <1>6, <2>1
    <3>2. (j <= filled => buf'[j].k \in 1..q) /\ (j > filled => buf'[j].k = q + 1)
      BY <1>1, <1>2, <1>5, <1>6, <2>1
    <3> QED BY <1>1, <1>3, <2>1, <2>4, <3>1, <3>2
  <2> QED BY <1>1, <2>1, <2>2, <2>3, <2>4
<1>10. asked' \in BOOLEAN /\ out' \in BOOLEAN
  BY <1>5, Zenon
<1>11. rc' \in Codes \union {"ARG"} /\ http' \in Statuses \union RawStatuses
       /\ pc' \in {"path", "ret"}
  BY <1>5 DEF BindInv, TypeOK, Codes, Statuses
<1>12. filled' \in 0..len /\ (pc' = "path" => filled' < len) /\ (pc' = "ret" => filled' = len)
  BY <1>1, <1>4, <1>5
<1>13. TypeOK'
  BY <1>1, <1>5, <1>7, <1>10, <1>11, <1>12, NoReportTyped DEF TypeOK, Reports
<1>14. FillOK'
  <2> SUFFICES ASSUME pc' = "path"
               PROVE  /\ filled' < len
                      /\ \A i \in 1..len : IF i <= filled'
                                           THEN buf'[i].k \in 1..(filled' \div IvLen)
                                           ELSE buf'[i] = Old
                      /\ \A i, j \in 1..filled' : buf'[i] = buf'[j] => i = j
    BY <1>5 DEF FillOK
  <2>1. filled' = filled + IvLen /\ filled' < len
    BY <1>1, <1>4, <1>5, <1>12
  <2>2. filled' \div IvLen = q + 1
    BY <1>3, <2>1
  <2> QED BY <1>8, <1>9, <2>1, <2>2
<1>15. AllOrNothing'
  <2> SUFFICES ASSUME pc' = "ret"
               PROVE  /\ \A i \in 1..len : buf'[i].k > 0
                      /\ \A i, j \in 1..len : buf'[i] = buf'[j] => i = j
                      /\ rc' = "OK"
    BY <1>5 DEF AllOrNothing, Returned
  <2>1. filled' = len /\ rc' = "OK"
    BY <1>5, <1>12
  <2>2. \A i \in 1..len : buf'[i].k \in 1..(q + 1)
    BY <1>1, <1>8, <2>1
  <2> QED BY <1>3, <1>9, <2>1, <2>2
<1>16. PathOK' /\ NothingDropped' /\ InvalidNeverPasses'
  BY <1>1, <1>5 DEF PathOK, NothingDropped, InvalidNeverPasses, Returned
<1> QED BY <1>13, <1>14, <1>15, <1>16 DEF BindInv

\* One more encryption of ehem_random: harvested, or all zeroized.
LEMMA RandomAnswerStep == BindInv /\ RandomAnswer => BindInv'
<1> SUFFICES ASSUME BindInv, RandomAnswer PROVE BindInv'
  OBVIOUS
<1>1. /\ pc = "path" /\ op = "random" /\ asked' = TRUE /\ verdict' = "none"
      /\ report' = NoReport
  BY DEF RandomAnswer
<1>2. CASE \E r \in {Reply(200, "empty"), Reply(200, "bad")} : PathEnds(JsonCode(r), JsonHttp(r))
  BY <1>1, <1>2, NoJson
<1>3. CASE Harvest
  BY <1>1, <1>3, HarvestStep
<1>4. CASE Fail("PROTOCOL", 200)
  <2>1. "PROTOCOL" \in Codes \ {"OK"} /\ 200 \in Statuses \union RawStatuses
    BY DEF Codes, Statuses
  <2>2. asked' \in BOOLEAN
    BY <1>1, Zenon
  <2> QED BY <1>1, <1>4, <2>1, <2>2, NoReportTyped, FailStep
<1> QED BY <1>2, <1>3, <1>4 DEF RandomAnswer

\* The argument checks of a binding, and the request it sends.
LEMMA CallStep ==
  ASSUME BindInv, NEW o \in Names, NEW a \in Values(o), Call(o, a)
  PROVE  BindInv'
<1>1. /\ op' = o /\ asked' = FALSE /\ verdict' = "none" /\ out' = FALSE /\ report' = NoReport
      /\ len' = 0 /\ filled' = 0 /\ buf' = <<>>
  BY DEF Call, Reset
<1>2. rc \in Codes \union {"ARG"} /\ http \in Statuses \union RawStatuses
  BY DEF BindInv, TypeOK
<1>3. \/ pc' = "path" /\ http' = 0 /\ rc' = rc /\ wire' = meant'
         /\ nulls' \subseteq Overlooked(o, wire')
      \/ pc' = "ret" /\ rc' = "ARG" /\ http' \in {http, 0}
  BY RequestComplete DEF Call
<1>4. /\ rc' \in Codes \union {"ARG"} /\ http' \in Statuses \union RawStatuses
      /\ pc' \in {"path", "ret"} /\ (pc' = "path" => wire' = meant' /\ nulls' \subseteq Overlooked(op', wire'))
      /\ pc' = "ret" => rc' = "ARG"
  BY <1>1, <1>2, <1>3 DEF Statuses
<1>5. asked' \in BOOLEAN /\ out' \in BOOLEAN
  BY <1>1, Zenon
<1>6. len' \in 0..MaxLen /\ filled' \in 0..len'
      /\ buf' \in [1..len' -> Entropy \union {Old, Zero}]
  BY <1>1, BindingAssumption
<1>7. o \notin {"none", "random"}
  BY DEF Names, Binding
<1>8. TypeOK'
  BY <1>1, <1>4, <1>5, <1>6, NoReportTyped DEF TypeOK, Reports
<1>9. PathOK' /\ FillOK' /\ NothingDropped' /\ InvalidNeverPasses'
      /\ AllOrNothing'
  BY <1>1, <1>4, <1>7 DEF PathOK, FillOK, NothingDropped, InvalidNeverPasses,
                          AllOrNothing, Returned
<1> QED BY <1>8, <1>9 DEF BindInv

\* ehem_random starts with the buffer of its caller.
LEMMA RandomStep ==
  ASSUME BindInv, NEW kid, NEW m \in 0..MaxLen, Random(kid, m)
  PROVE  BindInv'
<1>1. /\ op' = "random" /\ asked' = FALSE /\ verdict' = "none" /\ out' = FALSE
      /\ len' = m /\ filled' = 0 /\ buf' = [i \in 1..m |-> Old]
      /\ wire' = meant' /\ nulls' = {} /\ report' = NoReport
  BY DEF Random, Reset
<1>2. rc \in Codes \union {"ARG"} /\ http \in Statuses \union RawStatuses
  BY DEF BindInv, TypeOK
<1>3. /\ http' \in {http, 0}
      /\ \/ pc' = "ret" /\ rc' = "ARG"
         \/ pc' = "path" /\ rc' = rc /\ m >= 1
  BY BindingAssumption DEF Random
<1>4. rc' \in Codes \union {"ARG"} /\ http' \in Statuses \union RawStatuses
  BY <1>1, <1>2, <1>3 DEF Statuses
<1>5. asked' \in BOOLEAN /\ out' \in BOOLEAN
  BY <1>1, Zenon
<1>6. len' \in 0..MaxLen /\ filled' \in 0..len'
      /\ buf' \in [1..len' -> Entropy \union {Old, Zero}]
  BY <1>1, BindingAssumption
<1>7. TypeOK'
  BY <1>1, <1>3, <1>4, <1>5, <1>6, NoReportTyped DEF TypeOK, Reports
<1>8. FillOK'
  BY <1>1, <1>3, BindingAssumption DEF FillOK
<1>9. AllOrNothing'
  <2>1. Old.k = 0
    BY DEF Old
  <2> QED BY <1>1, <1>3, <2>1 DEF AllOrNothing, Returned
<1>10. PathOK' /\ NothingDropped' /\ InvalidNeverPasses'
  BY <1>1 DEF PathOK, NothingDropped, InvalidNeverPasses
<1> QED BY <1>7, <1>8, <1>9, <1>10 DEF BindInv

\* The caller takes the result, and nothing of the call is left.
LEMMA CollectStep == BindInv /\ Collect => BindInv'
<1> SUFFICES ASSUME BindInv, Collect PROVE BindInv'
  OBVIOUS
<1>1. /\ pc' = "idle" /\ op' = "none" /\ rc' = "OK" /\ asked' = FALSE /\ verdict' = "none"
      /\ out' = FALSE /\ len' = 0 /\ filled' = 0 /\ buf' = <<>> /\ http' = http
      /\ report' = NoReport
  BY DEF Collect, Reset
<1>2. http \in Statuses \union RawStatuses
  BY DEF BindInv, TypeOK
<1>3. asked' \in BOOLEAN /\ out' \in BOOLEAN
  BY <1>1, Zenon
<1>4. len' \in 0..MaxLen /\ filled' \in 0..len'
      /\ buf' \in [1..len' -> Entropy \union {Old, Zero}]
  BY <1>1, BindingAssumption
<1>5. TypeOK'
  BY <1>1, <1>2, <1>3, <1>4, NoReportTyped DEF TypeOK, Codes, Reports
<1>6. PathOK' /\ FillOK' /\ NothingDropped' /\ InvalidNeverPasses'
      /\ AllOrNothing'
  BY <1>1 DEF PathOK, FillOK, NothingDropped, InvalidNeverPasses,
              AllOrNothing, Returned
<1> QED BY <1>5, <1>6 DEF BindInv

\* Before the first call there is nothing to lose.
LEMMA BindInit == Init => BindInv
<1> SUFFICES ASSUME Init PROVE BindInv
  OBVIOUS
<1>1. len \in 0..MaxLen /\ filled \in 0..len /\ buf \in [1..len -> Entropy \union {Old, Zero}]
  BY BindingAssumption DEF Init
<1>2. asked \in BOOLEAN /\ out \in BOOLEAN
  BY Zenon DEF Init
<1>3. TypeOK
  BY <1>1, <1>2, NoReportTyped DEF Init, TypeOK, Codes, Statuses, Reports
<1>4. PathOK /\ FillOK /\ NothingDropped /\ InvalidNeverPasses /\ AllOrNothing
  BY DEF Init, PathOK, FillOK, NothingDropped, InvalidNeverPasses,
         AllOrNothing, Returned
<1> QED BY <1>3, <1>4 DEF BindInv

\* Every step keeps the invariant.
LEMMA BindNext == BindInv /\ [Next]_vars => BindInv'
<1> SUFFICES ASSUME BindInv, [Next]_vars PROVE BindInv'
  OBVIOUS
<1>1. ASSUME NEW o \in Names, NEW a \in Values(o), Call(o, a) PROVE BindInv'
  BY <1>1, CallStep
<1>2. ASSUME NEW kid \in ValuesOf("kid"), NEW m \in 0..MaxLen, Random(kid, m) PROVE BindInv'
  BY <1>2, RandomStep
<1>3. CASE PathFailed
  BY <1>3, PathFailedStep
<1>4. CASE AnswerLost
  BY <1>4, AnswerLostStep
<1>5. CASE RefusalAnswer
  BY <1>5, RefusalStep
<1>6. CASE RawAnswer
  BY <1>6, RawAnswerStep
<1>7. CASE JsonAnswer
  BY <1>7, JsonAnswerStep
<1>8. CASE RandomAnswer
  BY <1>8, RandomAnswerStep
<1>9. CASE Collect
  BY <1>9, CollectStep
<1>10. CASE UNCHANGED vars
  <2>1. TypeOK' /\ PathOK' /\ FillOK'
    BY <1>10 DEF vars, callVars, resultVars, deviceVars, BindInv, TypeOK, PathOK, FillOK
  <2>2. NothingDropped' /\ InvalidNeverPasses' /\ AllOrNothing'
    BY <1>10 DEF vars, callVars, resultVars, deviceVars, BindInv, NothingDropped,
                 InvalidNeverPasses, AllOrNothing, Returned
  <2> QED BY <2>1, <2>2 DEF BindInv
<1> QED
  BY <1>1, <1>2, <1>3, <1>4, <1>5, <1>6, <1>7, <1>8, <1>9, <1>10 DEF Next, Exchange

-----------------------------------------------------------------------------
(* Results                                                                 *)

\* The three properties below, and what ehem_random has gathered between two of
\* its encryptions.
THEOREM BindingsInvariant == Spec => []BindInv
  BY BindInit, BindNext, PTL DEF Spec

\* Every variable keeps its type; the bytes of ehem_random stay in its buffer.
THEOREM BindingsTypes == Spec => []TypeOK
<1>1. BindInv => TypeOK
  BY DEF BindInv
<1> QED BY <1>1, BindingsInvariant, PTL

\* Whatever combination of arguments passes the checks of a binding goes out as
\* the caller passed it, for all the bindings of the table, and a NULL with a
\* length is refused but for the arguments Overlooked names.
THEOREM NothingIsDropped == Spec => []NothingDropped
<1>1. BindInv => NothingDropped
  BY DEF BindInv
<1> QED BY <1>1, BindingsInvariant, PTL

\* ehem_verify, ehem_hmac_verify and ehem_mldsa_verify return EHEM_OK for what the
\* device found invalid only when it says so with a 2xx other than 200 and a body.
THEOREM InvalidIsRefused == Spec => []InvalidNeverPasses
<1>1. BindInv => InvalidNeverPasses
  BY DEF BindInv
<1> QED BY <1>1, BindingsInvariant, PTL

\* ehem_random fills the whole buffer with bytes of initial values, no byte of
\* which is used twice, or leaves none there: for every length asked for and
\* every length of an initial value.
THEOREM RandomIsAllOrNothing == Spec => []AllOrNothing
<1>1. BindInv => AllOrNothing
  BY DEF BindInv
<1> QED BY <1>1, BindingsInvariant, PTL
=============================================================================
