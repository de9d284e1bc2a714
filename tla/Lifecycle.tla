----------------------------- MODULE Lifecycle ------------------------------
(***************************************************************************)
(* The process-global initialisation of the two backends, with the check   *)
(* of the crypto library that was loaded, and the life of a context: its   *)
(* options, its memory, its transport.                                     *)
(*                                                                         *)
(* Every allocation and every backend call may fail.  The init runs inside *)
(* whichever call comes first: ehem_global_init itself, ehem_ctx_create    *)
(* when it builds the default transport, or a call that draws randomness   *)
(* or derives keys.  Three conversions that need no device use the crypto  *)
(* library without it.                                                     *)
(***************************************************************************)
EXTENDS Naturals, FiniteSets

CONSTANTS
  Ctxs,       \* contexts of the application
  Probes      \* struct probes of the wolfSSL backend (six in the code)

ASSUME LifecycleAssumption == Probes \in Nat \ {0} /\ Ctxs # {}

Engines == {"wolfssl", "openssl"}
\* The crypto library the process loaded: the one the SDK was built with, one of
\* the same version whose k-th probed struct differs, or one of another version
Same == 0
OtherVersion == Probes + 1

\* Blocks a context owns; "app" is the transport the application lends
OwnTransport == {"t", "st", "handle"}
Factory == OwnTransport \union {"base_url", "st_ca"}
Blocks == {"ctx", "ca_file", "checkin_url", "url", "auth", "err_payload", "app"}
          \union Factory

\* Options in the order of ehem_options; abi is how many of them the caller's
\* block covers in full, which for a caller built earlier is not all
Place == [abi_size |-> 1, tls_mode |-> 2, ca_file |-> 3, transport |-> 4]
OptionSets ==
  [abi : 0..4, tls_mode : {"system", "ca_file"}, ca_file : {"null", "set"},
   transport : {"null", "app"}]

VARIABLES
  engine, lib,   \* the build's crypto backend, the library that was loaded
  ready,         \* g_global_ready
  crypto, curl,  \* initialisations of wolfCrypt and libcurl not undone yet
  call,          \* the call: operation, context, step, probe, code, and the
                 \* blocks the transport factory holds in its local variables
  opts,          \* options of the context under construction
  ptrs, owns,    \* per context: its non-NULL pointers, owns_transport
  live,          \* contexts the application holds
  heap, wrong    \* allocated blocks; a block was released that was not there

globals == <<engine, lib, ready, crypto, curl>>
memory == <<ptrs, owns, live, heap, wrong>>
vars == <<globals, call, opts, memory>>

NoCall == [op |-> "none", c |-> CHOOSE c \in Ctxs : TRUE, step |-> "ret",
           probe |-> 0, rc |-> "OK", held |-> {}]
NoOpts == [abi |-> 1, tls_mode |-> "system", ca_file |-> "null",
           transport |-> "null"]

Codes == {"OK", "ARG", "NOMEM", "PROTOCOL", "DEVICE", "MISMATCH"}
Steps == {"version", "engine", "probe", "transport", "alloc", "ca_file",
          "checkin_url", "url", "trio", "check", "base_url", "st_ca", "rng",
          "use", "ret"}

\* Checks the backend makes of the library after its version
Last == IF engine = "wolfssl" THEN Probes ELSE 1

TypeOK ==
  /\ engine \in Engines /\ lib \in Same..OtherVersion /\ ready \in BOOLEAN
  /\ crypto \in 0..1 /\ curl \in 0..1
  /\ call \in [op : {"none", "init", "create", "derive", "convert"}, c : Ctxs,
               step : Steps, probe : 0..Probes, rc : Codes, held : SUBSET Factory]
  /\ ptrs \in [Ctxs -> SUBSET Blocks] /\ owns \in [Ctxs -> BOOLEAN]
  /\ live \subseteq Ctxs /\ heap \subseteq Ctxs \X Blocks

Init ==
  /\ engine \in Engines /\ lib \in {Same, OtherVersion} \union 1..Probes
  /\ engine = "openssl" => lib \in {Same, 1, OtherVersion}
  /\ ready = FALSE /\ crypto = 0 /\ curl = 0
  /\ call = NoCall /\ opts = NoOpts
  /\ ptrs = [c \in Ctxs |-> {}] /\ owns = [c \in Ctxs |-> FALSE]
  /\ live = {} /\ heap = Ctxs \X {"app"} /\ wrong = FALSE

-----------------------------------------------------------------------------
(* Memory                                                                  *)

\* A block for the context, with a pointer to it in the context
Alloc(c, b) ==
  /\ heap' = heap \union {<<c, b>>} /\ ptrs' = [ptrs EXCEPT ![c] = @ \union {b}]
  /\ UNCHANGED <<owns, live, wrong>>

\* What ehem_ctx_destroy releases: the transport only if the context made it
Released(c) ==
  ptrs[c] \ (IF owns[c] THEN {} ELSE {"app"} \union Factory)

Free(c, bs) ==
  /\ heap' = heap \ ({c} \X bs)
  /\ wrong' = (wrong \/ ~({c} \X bs \subseteq heap))

Destroyed(c) ==
  /\ Free(c, Released(c))
  /\ ptrs' = [ptrs EXCEPT ![c] = {}] /\ owns' = [owns EXCEPT ![c] = FALSE]
  /\ live' = live \ {c}

-----------------------------------------------------------------------------
(* Calls                                                                   *)

Go(step) == call' = [call EXCEPT !.step = step]
Return(rc) == call' = [call EXCEPT !.step = "ret", !.rc = rc]
Idle == call.op = "none"

\* ehem_global_init is the first thing; nothing to do when the latch is up
Latched == ready
FirstStep(then) == IF Latched THEN then ELSE "version"

GlobalInit ==
  /\ Idle
  /\ call' = [NoCall EXCEPT !.op = "init", !.step = FirstStep("ret")]
  /\ UNCHANGED <<globals, opts, memory>>

GlobalCleanup ==
  /\ Idle /\ ready
  /\ ready' = FALSE /\ curl' = curl - 1
  /\ crypto' = IF engine = "wolfssl" THEN crypto - 1 ELSE crypto
  /\ UNCHANGED <<engine, lib, call, opts, memory>>

\* ehem_login's state is there with the first login
Login(c) ==
  /\ Idle /\ c \in live /\ Alloc(c, "auth")
  /\ UNCHANGED <<globals, call, opts>>

\* ehem_logout
Logout(c) ==
  /\ Idle /\ "auth" \in ptrs[c]
  /\ Free(c, {"auth"}) /\ ptrs' = [ptrs EXCEPT ![c] = @ \ {"auth"}]
  /\ UNCHANGED <<globals, call, opts, owns, live>>

\* A failed call records the device's payload; the next one releases it
ErrorRecorded(c) ==
  /\ Idle /\ c \in live /\ "err_payload" \notin ptrs[c]
  /\ Alloc(c, "err_payload")
  /\ UNCHANGED <<globals, call, opts>>
ErrorCleared(c) ==
  /\ Idle /\ "err_payload" \in ptrs[c]
  /\ Free(c, {"err_payload"}) /\ ptrs' = [ptrs EXCEPT ![c] = @ \ {"err_payload"}]
  /\ UNCHANGED <<globals, call, opts, owns, live>>

SelfInit_Assumed(then) == then
\* A token acquisition, a device initialisation or a new mnemonic initialises
\* the backends itself: the context may have a borrowed transport, and a
\* mnemonic needs no context at all
SelfInit(then) == FirstStep(then)

Derive ==
  /\ Idle
  /\ call' = [NoCall EXCEPT !.op = "derive", !.step = SelfInit("rng")]
  /\ UNCHANGED <<globals, opts, memory>>

\* A mnemonic turned into a master secret, a certificate taken apart, the digest
\* in a pairing code: they ask the library straight away, in whatever state it is
Convert ==
  /\ Idle
  /\ call' = [NoCall EXCEPT !.op = "convert", !.step = "use"]
  /\ UNCHANGED <<globals, opts, memory>>

\* Randomness is drawn, or a digest or a key computed
UseEngine ==
  /\ call.step \in {"rng", "use"} /\ Return("OK")
  /\ UNCHANGED <<globals, opts, memory>>

Destroy(c) ==
  /\ Idle /\ c \in live /\ Destroyed(c)
  /\ UNCHANGED <<globals, call, opts>>

\* The application looks at the code
Collect ==
  /\ call.op # "none" /\ call.step = "ret"
  /\ call' = NoCall /\ opts' = NoOpts
  /\ UNCHANGED <<globals, memory>>

-----------------------------------------------------------------------------
(* The initialisation of the backends                                      *)

\* The init failed: the call that needed it ends, with the init's code
InitFailed(rc) ==
  /\ call' = [call EXCEPT !.step = "ret", !.rc = rc]
  /\ ready' = FALSE
  /\ IF call.op = "create" THEN Destroyed(call.c) ELSE UNCHANGED memory
  /\ UNCHANGED <<engine, lib, opts>>

\* Where the call goes on
AfterInit ==
  CASE call.op = "create" -> "trio" [] call.op = "derive" -> "rng" [] OTHER -> "ret"

\* A plain accessor, asked before anything of the library is touched
CheckVersion ==
  /\ call.step = "version"
  /\ IF lib = OtherVersion THEN InitFailed("MISMATCH") /\ UNCHANGED <<crypto, curl>>
     ELSE Go("engine") /\ UNCHANGED <<globals, opts, memory>>

\* wolfCrypt_Init counts; OPENSSL_init_crypto may be repeated
InitEngine ==
  /\ call.step = "engine"
  /\ \/ InitFailed("PROTOCOL") /\ UNCHANGED <<crypto, curl>>
     \/ /\ crypto' = IF engine = "wolfssl" THEN crypto + 1 ELSE crypto
        /\ call' = [call EXCEPT !.step = "probe", !.probe = 1]
        /\ UNCHANGED <<engine, lib, ready, curl, opts, memory>>

Undo_Not == crypto
\* A refusal undoes the engine's init
Undo == IF engine = "wolfssl" THEN crypto - 1 ELSE crypto

\* One guard-banded probe, or the known answers of the OpenSSL backend.  A probe
\* fails on a struct that differs, and on a lack of memory inside the library;
\* one the probe itself meets, or of entropy, is reported as such
Probe ==
  /\ call.step = "probe"
  /\ \/ \E rc \in {"MISMATCH"} \union (IF engine = "wolfssl" THEN {"NOMEM"} ELSE {}) :
          InitFailed(rc) /\ crypto' = Undo /\ UNCHANGED curl
     \/ /\ lib # call.probe /\ call.probe < Last
        /\ call' = [call EXCEPT !.probe = @ + 1]
        /\ UNCHANGED <<globals, opts, memory>>
     \/ /\ lib # call.probe /\ call.probe = Last
        /\ Go("transport") /\ UNCHANGED <<globals, opts, memory>>

\* curl_global_init; its failure takes the crypto backend down again
InitTransport ==
  /\ call.step = "transport"
  /\ \/ InitFailed("DEVICE") /\ crypto' = Undo /\ UNCHANGED curl
     \/ /\ ready' = TRUE /\ curl' = curl + 1
        /\ IF AfterInit = "ret" THEN Return("OK") ELSE Go(AfterInit)
        /\ UNCHANGED <<engine, lib, crypto, opts, memory>>

-----------------------------------------------------------------------------
(* ehem_ctx_create                                                         *)

\* EHEM_OPT_HAS: the caller's block covers the field in full
Has(f) == opts.abi >= Place[f]
Read(f) == IF Has(f) THEN opts[f] ELSE "default"

CreateFails(rc) ==
  /\ Return(rc) /\ Destroyed(call.c)
  /\ UNCHANGED <<globals, opts>>

\* An allocation of the construction: it fails, or the next step follows
Takes(b, next) ==
  \/ CreateFails("NOMEM")
  \/ /\ Alloc(call.c, b) /\ call' = [call EXCEPT !.step = next]
     /\ UNCHANGED <<globals, opts>>

\* A bad URL, or options ehem_options_init has not stamped
Create(c, o) ==
  /\ Idle /\ c \notin live
  /\ opts' = o
  /\ \E step \in {"alloc", "ret"} :
       /\ step = "alloc" => o.abi >= Place.abi_size
       /\ call' = [NoCall EXCEPT !.op = "create", !.c = c, !.step = step,
                                 !.rc = IF step = "ret" THEN "ARG" ELSE "OK"]
  /\ UNCHANGED <<globals, memory>>

AllocCtx ==
  /\ call.step = "alloc"
  /\ \/ Return("NOMEM") /\ UNCHANGED <<globals, opts, memory>>
     \/ Alloc(call.c, "ctx") /\ UNCHANGED <<globals, opts>>
        /\ Go(IF Read("ca_file") = "set" THEN "ca_file" ELSE "checkin_url")

CopyCaFile == call.step = "ca_file" /\ Takes("ca_file", "checkin_url")

\* The borrowed transport is noted on the way
CopyCheckinUrl ==
  /\ call.step = "checkin_url"
  /\ LET c == call.c
         lent == IF Read("transport") = "app" THEN {"app"} ELSE {}
         noted == [ptrs EXCEPT ![c] = @ \union lent \union {"checkin_url"}]
     IN \/ CreateFails("NOMEM")
        \/ /\ ptrs' = noted /\ heap' = heap \union {<<c, "checkin_url">>}
           /\ Go("url") /\ UNCHANGED <<globals, opts, owns, live, wrong>>

\* A pinned mode is nothing without a certificate to trust
PinnedOk(c) == Read("tls_mode") = "ca_file" => "ca_file" \in ptrs[c]

\* The last of apply_options; then the URL
CopyUrl ==
  /\ call.step = "url"
  /\ IF ~PinnedOk(call.c) THEN CreateFails("ARG")
     ELSE \/ CreateFails("NOMEM")
          \/ /\ heap' = heap \union {<<call.c, "url">>}
             /\ ptrs' = [ptrs EXCEPT ![call.c] = @ \union {"url"}]
             /\ IF "app" \in ptrs[call.c]
                THEN Return("OK") /\ live' = live \union {call.c}
                ELSE Go(FirstStep("trio")) /\ UNCHANGED live
             /\ UNCHANGED <<globals, opts, owns, wrong>>

\* ehem_transport_default_new gives up: it releases those of bs that it has, and
\* the context, which does not know of them yet, is destroyed
FactoryFails(bs) ==
  LET c == call.c
      gone == (bs \cap call.held) \union Released(c)
  IN /\ Free(c, gone)
     /\ ptrs' = [ptrs EXCEPT ![c] = {}] /\ owns' = [owns EXCEPT ![c] = FALSE]
     /\ live' = live \ {c}
     /\ Return("NOMEM") /\ UNCHANGED <<globals, opts>>

\* Blocks of the factory's, not yet reachable from the context
FactoryTakes(bs, next) ==
  /\ heap' = heap \union ({call.c} \X bs)
  /\ call' = [call EXCEPT !.step = next, !.held = @ \union bs]
  /\ UNCHANGED <<ptrs, owns, live, wrong, globals, opts>>

\* The two structs and the handle are asked for before the first is checked: any
\* of the three calls may have failed
MakeTrio ==
  /\ call.step = "trio"
  /\ \E got \in SUBSET OwnTransport : FactoryTakes(got, "check")

TrioExit_NoHandle == {"t", "st"}
\* Cleaned up and freed unless NULL
TrioExit == {"handle", "t", "st"}

CheckTrio ==
  /\ call.step = "check"
  /\ IF call.held = OwnTransport
     THEN Go("base_url") /\ UNCHANGED <<globals, opts, memory>>
     ELSE FactoryFails(TrioExit)

CopyBaseUrl ==
  /\ call.step = "base_url"
  /\ \/ FactoryFails({"handle", "t", "st"})
     \/ FactoryTakes({"base_url"}, "st_ca")

\* The handle is made, and the context owns it
Finish ==
  /\ call.step = "st_ca"
  /\ LET c == call.c
         more == IF Read("tls_mode") = "ca_file" /\ "ca_file" \in ptrs[c]
                 THEN {"st_ca"} ELSE {}
     IN \/ more # {} /\ FactoryFails({"handle", "base_url", "t", "st"})
        \/ /\ heap' = heap \union ({c} \X more)
           /\ ptrs' = [ptrs EXCEPT ![c] = @ \union OwnTransport
                                            \union {"base_url"} \union more]
           /\ owns' = [owns EXCEPT ![c] = TRUE] /\ live' = live \union {c}
           /\ Return("OK") /\ UNCHANGED <<globals, opts, wrong>>

-----------------------------------------------------------------------------
Next ==
  \/ GlobalInit \/ GlobalCleanup \/ Derive \/ Convert \/ UseEngine \/ Collect
  \/ CheckVersion \/ InitEngine \/ Probe \/ InitTransport
  \/ AllocCtx \/ CopyCaFile \/ CopyCheckinUrl \/ CopyUrl
  \/ MakeTrio \/ CheckTrio \/ CopyBaseUrl \/ Finish
  \/ \E c \in Ctxs :
       \/ Login(c) \/ Logout(c) \/ ErrorRecorded(c) \/ ErrorCleared(c)
       \/ Destroy(c) \/ \E o \in OptionSets : Create(c, o)

Spec == Init /\ [][Next]_vars

-----------------------------------------------------------------------------
(* Properties                                                              *)

Between == call.step = "ret"

\* Between calls each backend is initialised exactly when the latch is up,
\* whichever step of an earlier init failed and however inits and cleanups
\* followed each other: a failed init leaves nothing behind, and a cleanup never
\* undoes an initialisation of somebody else's.
Balanced ==
  Between =>
    /\ curl = IF ready THEN 1 ELSE 0
    /\ crypto = IF ready /\ engine = "wolfssl" THEN 1 ELSE 0

\* A token acquisition, a device initialisation and a new mnemonic draw on the
\* crypto library, and the built-in transport is made, with both backends up:
\* in a context with a borrowed transport, without a context and after a cleanup
\* too.  No attempt, repeated after whichever failure, raises the latch for a
\* foreign crypto library, so none of these calls ever runs on one.  Conversions
\* that need no device make no such check.
CryptoUp ==
  /\ call.step \in {"rng", "trio"} => ready /\ curl = 1
  /\ ready => lib = Same

\* Between calls exactly what live contexts own is allocated, nothing was
\* released twice, and what a context points to is there; a transport the
\* application lent is never released.
HeapSound ==
  /\ ~wrong
  /\ Between =>
       heap = (Ctxs \X {"app"}) \union UNION {{c} \X ptrs[c] : c \in live}
=============================================================================
