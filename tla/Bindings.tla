------------------------------ MODULE Bindings ------------------------------
(***************************************************************************)
(* The bindings of BindingTable above the request path of PathPromise:     *)
(* argument checks, the request that goes out, what each binding makes of  *)
(* the path's answer and of the fields in it, and ehem_random, which calls *)
(* ehem_encrypt over and over and keeps the initial values.                *)
(*                                                                         *)
(* One exchange is one step: the path either fails before the device has   *)
(* the request, or the device judges it and its answer arrives, garbled,   *)
(* or not at all.                                                          *)
(***************************************************************************)
EXTENDS BindingTable, FiniteSets

CONSTANTS
  IvLen,     \* EHEM_CIPHER_IV_LEN
  MaxLen     \* bound: bytes asked of ehem_random

ASSUME BindingAssumption == IvLen \in Nat \ {0} /\ MaxLen \in Nat

Binding ==
  [sign |-> Sign, verify |-> Verify, ecdh |-> Ecdh, hmac |-> Hmac,
   hmac_verify |-> HmacVerify, encrypt |-> Encrypt, decrypt |-> Decrypt,
   wrap |-> Wrap, unwrap |-> Unwrap, mlkem_encaps |-> MlkemEncaps,
   mlkem_decaps |-> MlkemDecaps, mldsa_sign |-> MldsaSign,
   mldsa_verify |-> MldsaVerify, key_create |-> KeyCreate,
   key_import |-> KeyImport, key_derive |-> KeyDerive, key_get |-> KeyGet,
   key_update |-> KeyUpdate, key_delete |-> KeyDelete, logger_key |-> LoggerKey,
   logger_list |-> LoggerList, logger_get |-> LoggerGet, storage |-> Storage,
   status |-> SystemStatus, version |-> SystemVersion, config |-> SystemConfig,
   selftest |-> Selftest]

Names == DOMAIN Binding
Verifiers == {"verify", "hmac_verify", "mldsa_verify"}
\* Bindings whose success is an empty 200
EmptyOkOps == {o \in Names : Binding[o].via = "raw"}

\* Statuses of a device that puts its crypto error into the status line: no
\* status at all, a success, an error
RawStatuses == {150, 202, 500}

VARIABLES
  op, pc,          \* the call, and whether it is waiting for the path
  rc, http,        \* the code it returned, last_error's status
  wire, meant,     \* fields in the request; what the caller passed
  nulls,           \* arguments the caller passed as NULL with a length
  asked, verdict,  \* the device got the request; a verifier's verdict
  report,          \* the reply in which the verdict arrived
  out,             \* *out is set
  len, filled, buf \* ehem_random

callVars == <<op, pc, wire, meant, nulls, len>>
resultVars == <<rc, http, out>>
deviceVars == <<asked, verdict, report>>
vars == <<callVars, resultVars, deviceVars, filled, buf>>

NoReport == Reply(0, "empty")

\* A byte of the caller's buffer: untouched, zeroized, or the i-th byte of the
\* k-th initial value
Old == [k |-> 0, i |-> 1]
Zero == [k |-> 0, i |-> 0]
Entropy == [k : 1..MaxLen, i : 1..IvLen]

TypeOK ==
  /\ op \in Names \union {"none", "random"} /\ pc \in {"idle", "path", "ret"}
  /\ rc \in Codes \union {"ARG"} /\ http \in Statuses \union RawStatuses
  /\ verdict \in {"none", "valid", "invalid"}
  /\ report \in [status : Statuses \union RawStatuses, body : Bodies]
  /\ asked \in BOOLEAN /\ out \in BOOLEAN
  /\ len \in 0..MaxLen /\ filled \in 0..len
  /\ buf \in [1..len -> Entropy \union {Old, Zero}]

Init ==
  /\ op = "none" /\ pc = "idle" /\ rc = "OK" /\ http = 0
  /\ wire = {} /\ meant = {} /\ nulls = {} /\ asked = FALSE
  /\ verdict = "none" /\ report = NoReport /\ out = FALSE
  /\ len = 0 /\ filled = 0 /\ buf = <<>>

-----------------------------------------------------------------------------
(* Entry: checks, and the request                                          *)

Args(o) == DOMAIN Binding[o].takes \ {"none"}
PeerArgs(o) == IF Binding[o].peer = "no" THEN {} ELSE {"ext_kid", "peer"}

\* The same arguments but for one, which is anything it can be
Variants(a) == UNION {{[a EXCEPT ![x] = v] : v \in ValuesOf(x)} : x \in DOMAIN a}

\* Calls with any choice of arguments left out, and at most one that is odd in
\* another way
Values(o) ==
  LET base == [Args(o) \union PeerArgs(o) -> {"null", "fit"}]
  IN base \union UNION {Variants(a) : a \in base}

\* alg may be left to the key, but not where the key is derived from a peer
AlgOk(o, a) ==
  o \in {"hmac", "hmac_verify"} /\ a.alg = "null" =>
    a.ext_kid = "null" /\ a.peer = "null"

ArgsOk(o, a) ==
  /\ \A x \in Args(o) : Accepts(Binding[o].takes[x], a[x])
  /\ Binding[o].peer # "no" => PeerOk(Binding[o].peer, a.ext_kid, a.peer)
  /\ AlgOk(o, a)

Refused(o, a) ==
  \E x \in Binding[o].early :
    \/ a[x] \in {"null", "dangling"}
    \/ a[x] = "empty" /\ o \in {"key_import", "logger_get"} /\ x \in {"pubkey", "id"}

\* A string that is not NULL, or bytes
Meant(x, v) == IF x \in Strings THEN v # "null" ELSE v \in {"fit", "over"}

Reset == asked' = FALSE /\ verdict' = "none" /\ report' = NoReport /\ out' = FALSE

\* A call with bad arguments ends at once, and NULLs leave last_error alone
Call(o, a) ==
  /\ pc = "idle" /\ op' = o /\ Reset
  /\ len' = 0 /\ filled' = 0 /\ buf' = <<>>
  /\ IF ArgsOk(o, a) /\ ~Refused(o, a)
     THEN /\ pc' = "path" /\ http' = 0 /\ UNCHANGED rc
          /\ wire' = {x \in DOMAIN a : Carried(x, a[x])}
          /\ meant' = {x \in DOMAIN a : Meant(x, a[x])}
          /\ nulls' = {x \in DOMAIN a : a[x] = "dangling"}
     ELSE /\ rc' = "ARG" /\ wire' = {} /\ meant' = {} /\ nulls' = {}
          /\ http' = IF Refused(o, a) THEN http ELSE 0
          /\ pc' = "ret"

\* ehem_random: a throwaway byte is encrypted for its initial value
Random(kid, n) ==
  /\ pc = "idle" /\ op' = "random" /\ Reset
  /\ len' = n /\ filled' = 0 /\ buf' = [i \in 1..n |-> Old]
  /\ http' = IF kid = "null" THEN http ELSE 0
  /\ wire' = {"kid", "alg", "msg"} /\ meant' = {"kid", "alg", "msg"} /\ nulls' = {}
  /\ IF n < 1 \/ ~Required(kid) THEN rc' = "ARG" /\ pc' = "ret"
                                ELSE pc' = "path" /\ UNCHANGED rc

-----------------------------------------------------------------------------
(* Return: what the binding makes of the path's answer                     *)

EmptyOk_AnyStatus(code, st) == code = "PROTOCOL" /\ st # 0
\* An empty 200 reaches the binding as PROTOCOL with status 200
EmptyOk(code, st) == code = "PROTOCOL" /\ st = 200

\* The code and status a binding returns for a failed path
Verdict(o, code, st) ==
  IF o \in EmptyOkOps /\ EmptyOk(code, st) THEN Answer("OK", 0)
  ELSE IF o = "mldsa_verify" /\ code = "PROTOCOL" /\ st # 0
  THEN Answer("DEVICE", st)
  ELSE IF o \in {"key_get", "key_update", "key_delete"} /\ code = "DEVICE" /\ st = 406
  THEN Answer("NOT_FOUND", 406)
  ELSE Answer(code, st)

Zeroized_Part(filledTo) == [i \in 1..len |-> IF i < filledTo THEN Zero ELSE buf[i]]
\* No partial entropy on failure
Zeroized(filledTo) == [i \in 1..len |-> IF i <= filledTo THEN Zero ELSE buf[i]]

Return(code, st) ==
  /\ pc' = "ret" /\ rc' = code /\ http' = st
  /\ UNCHANGED <<op, wire, meant, nulls, len>>

\* The path gave up, or the binding does on what the path gave it
Fail(code, st) ==
  /\ Return(code, st)
  /\ out' = FALSE
  /\ IF op = "random" THEN buf' = Zeroized(filled) ELSE UNCHANGED buf
  /\ UNCHANGED filled

\* A success; a raw binding clears last_error, for the others what a repaired
\* attempt recorded stays
Succeed(hasOut) ==
  /\ \E st \in IF hasOut THEN Statuses ELSE {0} : Return("OK", st)
  /\ out' = hasOut
  /\ UNCHANGED <<filled, buf>>

\* The path failed, or came back with an answer that is not 200
PathEnds(code, st) ==
  LET o == IF op = "random" THEN "encrypt" ELSE op
      v == Verdict(o, code, st)
  IN IF v.code = "OK" THEN Succeed(FALSE) ELSE Fail(v.code, v.http)

\* The device never got the request
PathFailed ==
  /\ pc = "path"
  /\ \E f \in PathFailures : PathEnds(f.code, f.http)
  /\ UNCHANGED deviceVars

\* How the device judges a request, and how it reports it
Judgement(o) == IF o \in Verifiers THEN {"valid", "invalid"} ELSE {"none"}

\* The request was judged and the answer is lost, or there is no memory for it
AnswerLost ==
  /\ pc = "path"
  /\ asked' = TRUE /\ verdict' \in Judgement(op) /\ report' = NoReport
  /\ \E code \in {"NETWORK", "NOMEM"} : PathEnds(code, 0)

\* The device refuses, or fails to verify; for an invalid signature its crypto
\* error may be the status
Refusals(o) == {403, 404, 406, 500} \union
               (IF o \in Verifiers THEN RawStatuses ELSE {})

\* A verifier takes any 2xx with a body for the path's success
RefusalAnswer ==
  /\ pc = "path"
  /\ asked' = TRUE /\ verdict' = IF op \in Verifiers THEN "invalid" ELSE "none"
  /\ \E st \in Refusals(op), b \in {"empty", "json"} :
       /\ report' = Reply(st, b)
       /\ LET code == RawCode(Reply(st, b))
          IN IF code = "OK" THEN Succeed(FALSE) ELSE PathEnds(code, st)

\* A raw binding's success: an empty 200, or a 200 with a body it tolerates; a
\* log file must have one
RawAnswer ==
  /\ pc = "path" /\ op # "random" /\ Binding[op].via \in {"raw", "file"}
  /\ asked' = TRUE
  /\ verdict' = IF op \in Verifiers THEN "valid" ELSE "none"
  /\ \E b \in {"empty", "json"} :
       /\ report' = Reply(200, b)
       /\ IF RawCode(Reply(200, b)) = "OK" THEN Succeed(op = "logger_get")
          ELSE PathEnds("PROTOCOL", 200)

\* Every field the binding needs is there and well-formed
Decoded(o, f) ==
  \A x \in DOMAIN Binding[o].needs : FieldOk(Binding[o].needs[x], f[x])

Fields(o) == [DOMAIN Binding[o].needs -> FieldValues]

\* A 200 with a JSON object, or with a body that is none
JsonAnswer ==
  /\ pc = "path" /\ op # "random" /\ Binding[op].via = "json"
  /\ asked' = TRUE /\ verdict' = "none" /\ report' = NoReport
  /\ \/ \E r \in {Reply(200, "empty"), Reply(200, "bad")} :
          PathEnds(JsonCode(r), JsonHttp(r))
     \/ \E f \in Fields(op) :
          IF Decoded(op, f) THEN Succeed(TRUE)
          ELSE Fail("PROTOCOL", 200)

\* The last initial value is used in part
Take == IF len - filled > IvLen THEN IvLen ELSE len - filled

\* ehem_random took an initial value from an encryption, and goes on until the
\* buffer is full; an answer without one ends it
Harvest ==
  LET round == filled \div IvLen + 1
      fresh == [i \in DOMAIN buf |->
                  IF i > filled /\ i <= filled + Take
                  THEN [k |-> round, i |-> i - filled] ELSE buf[i]]
  IN /\ buf' = fresh /\ filled' = filled + Take
     /\ out' = FALSE
     /\ UNCHANGED <<op, wire, meant, nulls, len>>
     /\ IF filled + Take < len
        THEN pc' = "path" /\ http' = 0 /\ UNCHANGED rc
        ELSE pc' = "ret" /\ rc' = "OK" /\ http' \in Statuses

RandomAnswer ==
  /\ pc = "path" /\ op = "random"
  /\ asked' = TRUE /\ verdict' = "none" /\ report' = NoReport
  /\ \/ \E r \in {Reply(200, "empty"), Reply(200, "bad")} :
          PathEnds(JsonCode(r), JsonHttp(r))
     \/ \E f \in Fields("encrypt") :
          IF Decoded("encrypt", f) /\ f.iv = "good" THEN Harvest
          ELSE Fail("PROTOCOL", 200)

\* The application looks at what it got, and makes no use of it here; last_error
\* stays
Collect ==
  /\ pc = "ret" /\ pc' = "idle" /\ op' = "none" /\ rc' = "OK" /\ Reset
  /\ wire' = {} /\ meant' = {} /\ nulls' = {} /\ len' = 0 /\ filled' = 0 /\ buf' = <<>>
  /\ UNCHANGED http

-----------------------------------------------------------------------------
Exchange ==
  \/ PathFailed \/ AnswerLost \/ RefusalAnswer
  \/ RawAnswer \/ JsonAnswer \/ RandomAnswer

Next ==
  \/ \E o \in Names : \E a \in Values(o) : Call(o, a)
  \/ \E kid \in ValuesOf("kid") : \E n \in 0..MaxLen : Random(kid, n)
  \/ Exchange
  \/ Collect

Spec == Init /\ [][Next]_vars

-----------------------------------------------------------------------------
(* Properties                                                              *)

Returned == pc = "ret"

\* Where a NULL with a length counts as absent: the description of a key, and
\* beside an ext_kid the pubkey of ehem_key_derive
Overlooked(o, sent) ==
  {x \in {"descr"} : o \in {"key_create", "key_import", "key_update", "key_derive"}}
  \union {x \in {"peer"} : o = "key_derive" /\ "ext_kid" \in sent}

\* What goes to the device is what the caller passed: no context, associated
\* data, initial value, tag or peer that has bytes is dropped on the way, and
\* nothing is added.  A NULL with a length is refused, so that a request for a
\* derived key never turns into one for the key itself; the key management
\* bindings alone let it pass, as if it were absent, for descr and, beside an
\* ext_kid, for the pubkey of ehem_key_derive.
NothingDropped ==
  pc = "path" => wire = meant /\ nulls \subseteq Overlooked(op, wire)

\* A signature or MAC the device found invalid is reported as valid by no
\* binding, whatever status the device reports it with: also not by an empty
\* success other than 200, or by a number that is no status.  Only a success
\* with a body passes for valid, the code makes no difference between 200 and
\* the others there.
InvalidNeverPasses ==
  Returned /\ verdict = "invalid" /\ rc = "OK" =>
    report.status \in 201..299 /\ report.body # "empty"

\* ehem_random delivers all or nothing: on success every byte asked for is a
\* byte of an initial value, none used twice; on failure no such byte is left.
AllOrNothing ==
  Returned /\ op = "random" =>
    IF rc = "OK"
    THEN /\ \A i \in 1..len : buf[i].k > 0
         /\ \A i, j \in 1..len : buf[i] = buf[j] => i = j
    ELSE \A i \in 1..len : buf[i].k = 0

\* --- What the documentation says and the code does not do -----------------

\* "Returns EHEM_OK exactly when the device reports the signature VALID"
OkMeansValid == Returned /\ op \in Verifiers /\ rc = "OK" => verdict = "valid"
=============================================================================
