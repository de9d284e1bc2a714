------------------------------ MODULE HemTypes ------------------------------
(***************************************************************************)
(* Result codes, HTTP replies and the mapping from one to the other that   *)
(* every binding of the SDK shares.                                        *)
(*                                                                         *)
(* A reply is abstracted to its status and to what its body is good for:   *)
(*   "json"   a JSON object with the fields the caller needs               *)
(*   "nofield" a JSON object that lacks a required field                   *)
(*   "bad"    a non-empty body that is not a JSON object                   *)
(*   "empty"  no body                                                      *)
(***************************************************************************)
EXTENDS Integers

\* ehem_rc, the codes the modelled paths can produce
Codes == {"OK", "NETWORK", "UNREACHABLE", "AUTH_EXPIRED", "AUTH_FAILED",
          "SCOPE_DENIED", "USER_REJECTED", "CONFIRM_TIMEOUT", "NOT_FOUND",
          "DEVICE", "PROTOCOL", "NOMEM"}

\* HTTP statuses the code tells apart; 0 is "no exchange", 202 stands for every
\* success other than 200
Statuses == {0, 200, 202, 401, 403, 404, 406, 500}

Bodies == {"json", "nofield", "bad", "empty"}

Reply(status, body) == [status |-> status, body |-> body]
Replies == [status : Statuses, body : Bodies]

\* ehem_proto_map_http_status
MapStatus(status) ==
  IF status = 401 THEN "AUTH_FAILED"
  ELSE IF status = 403 THEN "SCOPE_DENIED"
  ELSE IF status = 404 THEN "NOT_FOUND"
  ELSE IF status >= 400 THEN "DEVICE"
  ELSE "PROTOCOL"

\* last_error, as far as the code reads it back
Err(http, expired) == [http |-> http, expired |-> expired]
NoErr == Err(0, FALSE)
Errs == [http : Statuses, expired : BOOLEAN]

\* The tail of ehem_proto_request_raw: code and recorded status of a reply
RawCode(r) ==
  IF r.status \notin 200..299 THEN MapStatus(r.status)
  ELSE IF r.body = "empty" THEN "PROTOCOL" ELSE "OK"

RawHttp(r) == r.status

\* ehem_proto_request_json: a non-JSON body is PROTOCOL with status 0
JsonCode(r) ==
  IF RawCode(r) = "OK" /\ r.body = "bad" THEN "PROTOCOL" ELSE RawCode(r)

JsonHttp(r) ==
  IF RawCode(r) = "OK" /\ r.body = "bad" THEN 0 ELSE RawHttp(r)

-----------------------------------------------------------------------------
(* What the shared request path may answer for a call, as PathPromise      *)
(* states it: the code and the status kept in last_error.                  *)

Answer(code, http) == [code |-> code, http |-> http]

\* The device never executed the call's own request: a token could not be had,
\* no exchange took place, or the device refused the request
PathFailures ==
  {Answer(c, 0) : c \in {"AUTH_EXPIRED", "USER_REJECTED", "CONFIRM_TIMEOUT",
                         "UNREACHABLE", "NETWORK", "PROTOCOL", "NOMEM"}}
  \union {Answer("AUTH_FAILED", st) : st \in Statuses}
  \union {Answer("PROTOCOL", 200), Answer("PROTOCOL", 202),
          Answer("SCOPE_DENIED", 403), Answer("NOT_FOUND", 404),
          Answer("DEVICE", 406), Answer("DEVICE", 500)}

\* The device executed it: the answer may be good, lost, garbled, a failure half
\* way, too large for the memory left, or (a search) the 404 that says that
\* nothing matched
PathResults ==
  {Answer("OK", 200), Answer("NETWORK", 0), Answer("PROTOCOL", 0),
   Answer("PROTOCOL", 200), Answer("PROTOCOL", 202), Answer("DEVICE", 500),
   Answer("NOT_FOUND", 404), Answer("NOMEM", 0)}

\* The answers both have in common, but for the 404: from these a caller cannot
\* tell whether the device executed the request
Undecided(a) ==
  \/ a.code \in {"NETWORK", "PROTOCOL", "NOMEM"}
  \/ a = Answer("DEVICE", 500)
=============================================================================
