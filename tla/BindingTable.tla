---------------------------- MODULE BindingTable ----------------------------
(***************************************************************************)
(* The public bindings as data: which arguments each one takes and how it  *)
(* checks and sends them, how it sends its request, what it needs of the   *)
(* answer.                                                                 *)
(*                                                                         *)
(* An argument is abstracted to pointer and length:                        *)
(*   "null"     NULL, length 0            "empty"  a pointer, length 0     *)
(*   "dangling" NULL, length not 0        "fit"    within the limits       *)
(*   "over"     beyond the limits, or a string that is not of the form     *)
(* and a field of a JSON answer to "good", "absent" (missing, or of another *)
(* JSON type), "empty" (the empty string) or "bad" (of another size or     *)
(* encoding).                                                              *)
(***************************************************************************)
EXTENDS HemTypes

ArgValues == {"null", "dangling", "empty", "fit", "over"}
FieldValues == {"good", "absent", "empty", "bad"}

-----------------------------------------------------------------------------
(* How an argument is checked, and whether it goes into the request        *)

\* Required, 1..max bytes (or 32 hex digits, a printable label, a known name)
Required(v) == v = "fit"
\* Required, only an empty one is refused
NonEmpty(v) == v \in {"fit", "over"}
\* At most max bytes; NULL with a length is refused
AtMost(v) == v \notin {"dangling", "over"}
\* Absent, or of the one form that is accepted
Exactly(v) == v \in {"null", "fit"}
\* An optional string that must not be empty
OptNonEmpty(v) == v # "empty"
\* The key management bindings look at a length only behind a pointer
Capped(v) == v # "over"

Accepts(check, v) ==
  CASE check = "required" -> Required(v)
    [] check = "nonempty" -> NonEmpty(v)
    [] check = "atmost"   -> AtMost(v)
    [] check = "exactly"  -> Exactly(v)
    [] check = "optional" -> OptNonEmpty(v)
    [] check = "capped"   -> Capped(v)
    [] check = "present"  -> v # "null"
    [] check = "any"      -> TRUE

\* Strings carry no length of their own
Strings == {"kid", "alg", "ext_kid", "label", "type", "mode", "id", "disk"}
ValuesOf(arg) == IF arg \in Strings THEN ArgValues \ {"dangling"} ELSE ArgValues

\* Bytes go out when there are some behind the pointer; strings, the initial
\* value and the tag whenever the pointer is not NULL
Carried(arg, v) ==
  IF arg \in Strings \union {"iv", "tag"} THEN v # "null" ELSE v \in {"fit", "over"}

-----------------------------------------------------------------------------
(* The choice of a peer: check_peer_args, and the rule of ehem_key_derive  *)

HavePub_PointerOnly(pub) == pub \in {"empty", "fit", "over"}
HavePub(pub) == pub # "null"

PeerOk(rule, ext, pub) ==
  LET haveExt == ext # "null"
      have == IF rule = "derive" THEN pub \in {"fit", "over"} ELSE HavePub(pub)
  IN /\ ~(haveExt /\ have)
     /\ rule # "maybe" => haveExt \/ have
     /\ haveExt => Required(ext)
     /\ have => Required(pub)

-----------------------------------------------------------------------------
(* The bindings.  takes: argument -> check; peer: "no", "one", "maybe" or  *)
(* "derive"; early: arguments whose NULL is refused before last_error is   *)
(* cleared (also an empty key to import, an empty file name); via: "json", *)
(* "file", or "raw" where an empty 200 is success; needs: fields of the    *)
(* answer.                                                                 *)

Json(takes, early, peer, needs) ==
  [takes |-> takes, early |-> early, peer |-> peer, via |-> "json",
   needs |-> needs]
NoFields == [none |-> "lax"]
Raw(takes, early, peer) ==
  [Json(takes, early, peer, NoFields) EXCEPT !.via = "raw"]

NoArgs == [none |-> "any"]
KidOnly == [kid |-> "required"]
\* The arguments of one binding and some more of another
AlsoTakes(args, more, check) ==
  [x \in DOMAIN args \union more |-> IF x \in more THEN check ELSE args[x]]

\* proto_crypto.c
Sign ==
  Json([kid |-> "required", msg |-> "required", alg |-> "nonempty",
        ctx |-> "atmost"], {"kid", "alg", "msg"}, "no", [sign |-> "b64"])
Verify ==
  Raw([kid |-> "required", msg |-> "required", sig |-> "required",
       alg |-> "nonempty", ctx |-> "atmost"], {"kid", "alg", "msg", "sig"}, "no")
Ecdh ==
  Json([kid |-> "required", alg |-> "optional"], {"kid"}, "one",
       [ecdh |-> "b64"])
HmacArgs == [kid |-> "required", msg |-> "required", alg |-> "optional"]
Hmac == Json(HmacArgs, {"kid", "msg"}, "maybe", [mac |-> "b64"])
HmacVerify ==
  Raw(AlsoTakes(HmacArgs, {"mac"}, "required"), {"kid", "msg", "mac"}, "maybe")
CipherArgs ==
  [kid |-> "required", alg |-> "required", msg |-> "required",
   aad |-> "atmost", ctx |-> "atmost"]
Encrypt ==
  Json(CipherArgs, {"kid", "alg", "msg"}, "maybe",
       [ciphertext |-> "b64", iv |-> "opt", tag |-> "opt"])
Decrypt ==
  Json(AlsoTakes(CipherArgs, {"iv", "tag"}, "exactly"),
       {"kid", "alg", "msg"}, "maybe", [plaintext |-> "text"])
WrapArgs ==
  [kid |-> "required", msg |-> "required", alg |-> "exactly", ctx |-> "atmost",
   iv |-> "exactly"]
Wrap == Json(WrapArgs, {"kid"}, "maybe", [wrapped |-> "b64"])
Unwrap == Json(WrapArgs, {"kid"}, "maybe", [unwrapped |-> "b64"])
MlkemEncaps ==
  Json(KidOnly, {"kid"}, "no", [ct |-> "b64", ss |-> "b64"])
MlkemDecaps ==
  Json([kid |-> "required", ct |-> "required"], {"kid", "ct"}, "no",
       [ss |-> "b64"])
MldsaArgs == [kid |-> "required", msg |-> "required", ctx |-> "atmost"]
MldsaSign == Json(MldsaArgs, {"kid", "msg"}, "no", [sign |-> "b64"])
MldsaVerify ==
  Raw(AlsoTakes(MldsaArgs, {"sig"}, "required"), {"kid", "msg", "sig"}, "no")

\* proto_keymgmt.c
KeyCreate ==
  Json([type |-> "present", label |-> "required", mode |-> "any",
        descr |-> "capped"], {"type", "label"}, "no", [kid |-> "b64"])
KeyImport ==
  Json([type |-> "present", label |-> "required", pubkey |-> "nonempty",
        mode |-> "any", descr |-> "capped"], {"type", "label", "pubkey"}, "no",
       [kid |-> "b64"])
KeyDerive ==
  Json([kid |-> "required", label |-> "required", type |-> "required",
        mode |-> "any", descr |-> "capped"], {"kid", "label", "type"}, "derive",
       [kid |-> "b64"])
KeyGet == Json(KidOnly, {"kid"}, "no", [type |-> "str", descr |-> "lax"])
KeyUpdate ==
  Raw([kid |-> "required", label |-> "required", descr |-> "capped"],
      {"kid", "label"}, "no")
KeyDelete == Raw(KidOnly, {"kid"}, "no")

\* proto_logger.c, proto_storage.c
LoggerKey ==
  Json(NoArgs, {}, "no",
       [key |-> "b64", nonce |-> "b64", nonce_signed |-> "b64"])
LoggerList == Json(NoArgs, {}, "no", [total |-> "lax", id |-> "opt"])
LoggerGet == [Raw([id |-> "required"], {"id"}, "no") EXCEPT !.via = "file"]
Storage == Raw([disk |-> "required"], {}, "no")

\* proto_system.c
SystemStatus ==
  Json(NoArgs, {}, "no", [ctx |-> "int", fls_state |-> "int", uptime |-> "int",
                          temp |-> "int", ts |-> "lax"])
SystemVersion == Json(NoArgs, {}, "no", [hwv |-> "str", fwv |-> "str"])
SystemConfig ==
  Json(NoArgs, {}, "no", [devid |-> "str", hostname |-> "str", user |-> "str"])
Selftest == Json(NoArgs, {}, "no", [fls_state |-> "int", kat_busy |-> "lax"])

\* A required base64 or hex value; a required string or number; a base64 value
\* that may be empty; an optional value that must be well-formed; one that is
\* ignored when it is not
FieldOk(rule, v) ==
  CASE rule = "b64"  -> v = "good"
    [] rule = "int"  -> v = "good"
    [] rule = "str"  -> v # "absent"
    [] rule = "text" -> v \in {"good", "empty"}
    [] rule = "opt"  -> v # "bad"
    [] rule = "lax"  -> TRUE
=============================================================================
