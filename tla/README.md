# TLA+ models of the Encedo HEM C SDK

The SDK (`src/src`, `src/include/ehem`) is a C client for the Encedo HEM, a
network HSM with a REST interface. One thread uses a context (`ehem_ctx`); the
device, the network, the cloud, a push broker, a phone and other clients of the
device run beside it. The hard part of the SDK is not the single request but what
it does on its own account when one fails: it fetches and renews tokens, checks
the device in to repair its certificate and clock, sends requests again, fires a
push again, and has to do all of that without doing anything twice and without
telling the caller something that is not so. That is what is modelled here.

## 1. Inventory

| Part | State it keeps | Operations | Talks to |
|---|---|---|---|
| Request path `proto_common.c` | none; `last_error`, `cert_refreshed` of the context | `ehem_proto_request_raw`, `_json`: token, send, certificate recovery, retry after 401, status mapping | session engine, check-in, transport |
| Session engine `proto_auth.c` | `struct ehem_auth`: passphrase, mode, retention, token cache | `ehem_login`, `ehem_login_mobile`, `ehem_logout`, `ensure_token`, `invalidate`, `cache_seed`; device initialisation, mnemonics | request path (challenge, token POST), check-in, confirmation |
| Check-in `proto_system.c` | `in_checkin` | `ehem_checkin_run`: three legs device, cloud, device | request path |
| System bindings `proto_system.c` | none | status, version, reboot, wipeout, shutdown, certificate installation, attestation, `ehem_tls_recover`, self-test | request path, session engine |
| Key management `proto_keymgmt.c` | none | list, search, the page walks, create, import, derive, update, delete | request path |
| Crypto, logger, storage bindings | none | request builders and parsers | request path |
| Push confirmation `proto_ext.c` | `struct ehem_ext_confirm` | begin, poll, wait, cancel | broker, request path, check-in, token cache |
| Pairing and broker client `proto_ext.c`, `proto_notify.c` | none (held by the application) | register_init, ext_init, register_check, validate, finalise, event_new, event_check | broker, request path |
| Context `context.c` | options, recovery flags, `last_error`; process-wide init latch | create, destroy, `global_init`, `global_cleanup` | all of the above |
| Transport `transport_curl.c` | curl handle, body buffer, last verdict on TLS | send, error classification | network |
| Codecs `ejwt.c`, `json.c`, `bip39.c`, `keytype.c`; crypto shims | none | pure conversions, backend calls | none |

What is hard about each, and what makes it right:

* *Request path.* A call can nest four recoveries: proactive check-in, certificate
  recovery, the retry after a 401, clock recovery. It must execute at most once on
  the device, keep the code and `last_error` consistent although a recovery wrote its
  own error in between, and end.
* *Session engine.* Tokens die on the device (restart, expiry) while the cache holds
  them; the clocks disagree; the passphrase may have to be forgotten after one use;
  without a session nothing may go out.
* *Check-in.* It runs under the same request path that starts it. One flag stops the
  recursion and must be down after every exit.
* *Push confirmation.* The phone answers before, during or after a wait; an exchange
  can fail after its peer acted; a push can be fired twice. A token may only come from
  an approved push, and the user should be asked once.
* *Key walks.* Pages are separate requests; the repository changes between them.
* *Bindings.* A binding sees only the code and the status of the path. Success may be an
  empty answer; optional arguments come as pointer and length; one entry point makes
  several calls and must deliver everything or nothing.
* *Initialisation, TLS recovery, wipe.* Several exchanges with a device that other
  clients use, that acts after it answered, and whose reply may be lost after it acted.
* *Pairing.* Seven exchanges with two peers, made by the application in any order that
  the data allow; the only way back is the deletion of the key on the device.
* *Transport.* One handle for all requests, whose options stick; one code of libcurl for
  two timeouts; a buffer that doubles in `size_t`.
* *Context.* Balanced initialisation of two backends one of which may be refused; a
  construction that may fail at every block; options of callers built earlier.

`PROJECT.json` lists every part under `components` and every hard behaviour at its
line under `hazards`.

## 2. Modules

| Module | What it is |
|---|---|
| `HemTypes` | Codes, statuses, replies and the mapping from a reply to a code that all bindings share |
| `HemSession` | The core: a call, the request path, `ensure_token`, the check-in, the device |
| `HemSessionProofs` | Proofs: types, safety and recoveries of `HemSession`, and that it implements `PathPromise` |
| `ConfirmPromise` | Abstract specification: what a push confirmation promises |
| `ConfirmEngine` | begin, poll, wait, cancel over broker, device and phone; implements `ConfirmPromise` |
| `ConfirmProofs` | Proofs: the properties of `ConfirmEngine` and its refinement |
| `PathPromise` | Abstract specification: what the shared request path promises to a binding |
| `SessionPath` | `HemSession` implements `PathPromise` |
| `KeyWalk` | The page walks of `list_all` and `search_all` |
| `KeyWalkProofs` | Proofs: the properties of `KeyWalk` |
| `BindingTable` | The 27 bindings as data: arguments, checks, request, answer |
| `Bindings` | The bindings above a path that keeps `PathPromise`; `ehem_random` |
| `BindingsProofs` | Proofs: the properties of `Bindings`, for the whole table |
| `Provisioning` | Device initialisation, certificate installation and recovery, reboot, shutdown, wipe, by several clients |
| `ProvisioningProofs` | Proofs: the properties of `Provisioning` |
| `Pairing` | Pairing phones over broker and device |
| `PairingProofs` | Proofs: the invariants of `Pairing` |
| `Transport` | The curl handle, a transfer, the body buffer |
| `TransportProofs` | Proofs: the properties of `Transport` |
| `Lifecycle` | Global initialisation, contexts and their memory |
| `LifecycleProofs` | Proofs: the properties of `Lifecycle` |
| `MCSession`, `MCConfirm` | Instances for TLC; the later modules are instantiated by their cfg alone |

`HemTypes` is below everything but `Transport` and `Lifecycle`. The layers meet in two
places. `PathPromise` stands between the session engine and the bindings: `HemSession`
is shown to implement it. The modules above it use its two sets of answers: `Pairing`
takes the answers of an import from `PathFailures` and, with `Undecided`, from
`PathResults`; `Bindings` and `Provisioning` take those of an exchange that had no effect
from `PathFailures`, and compute the others from the reply, with the mapping of
`HemTypes`. `Transport` stands below
`HemSession`, which relies on what `RetrySafe` says of a send:
`SendUnreachable` leaves the device alone, and `SendExpired` is about this very exchange.

### HemSession

The C code is a stack of synchronous calls. `rpc[f]` is where the activation `f` of
`ehem_proto_request_raw` is: `"op"` for the binding's own request, `"auth"` for the
challenge GET or token POST, `"leg"` for a leg of a check-in. `apc` is the place in
`ensure_token`, `cpc` the leg of the check-in, `rc` the code the last activation
returned. This keeps the recursion of the code without a stack, because the code nests
at most once of each kind; `Nesting`, a part of the invariant that is proved, says so.

| Variables | Code |
|---|---|
| `opts`, `inCheckin`, `certRefreshed`, `loginDone`, `err` | `struct ehem_ctx` |
| `mode`, `pass`, `retain`, `cache` | `struct ehem_auth`; `cache` holds the expiry kept with each scope's token |
| `bearer`, `nowA`, `spent`, `drift`, `granted` | locals of `request_raw` and `ensure_token` |
| `now`, `certExpired`, `rtcSet`, `off`, `live` | the world: time; certificate, clock and issued tokens of the device |
| `applied`, `checkins`, `proactives`, `disturbed`, `kept` | history of the call under way; `kept`: a check-in left an expired certificate in service |

| Actions | Code |
|---|---|
| `Login`, `LoginMobile`, `Logout`, `Begin` | public entry points |
| `EnsureHit`, `EnsureNoCredential`, `EnsureMiss`, `ProactiveDone`, `ChallengeReturned`, `RtcCheckinDone`, `TokenReturned`, `DriftCheckinDone`, `MobileConfirm` | `ehem_auth_ensure_token`, `acquire_token`, `fetch_challenge` |
| `SendUnreachable`, `SendLost`, `SendExpired`, `OpReply`, `ChallengeReply`, `TokenReply`, `LegReply`, `CertCheckinDone` | the sends of `ehem_proto_request_raw` and what it does with their outcome |
| `LegReturned` | `ehem_checkin_run` |
| `Finish` | what the binding makes of the answer |
| `Tick`, `Restart`, `CertExpires`, `ClockDrifts` | the world (external) |

The bindings are reduced to the ways in which they rewrite the shared path's answer:
`json`, `delete` (also update), `reboot`, `wipeout`, `search`, `open` (no scope) and
`checkin`.

A check-in that succeeds sets the device's clock and hands it a new certificate
(`Repaired`). Whether the device serves it is open: `proto_common.c:187-196`, REQ-NET-005,
REQ-SYS-003 and `test_device_still_serves_old_cert` have one that goes on with the old
certificate until it is rebooted. `RecoveryComplete` therefore allows one failure,
the expired certificate reported as such after a check-in, and `OneCheckinRepairs` a second
check-in in that case: a proactive one that left the old certificate in service does not
keep the first exchange after it from starting the certificate recovery.

### ConfirmEngine and ConfirmPromise

`ConfirmEngine` has one step per exchange of `proto_ext.c` with the broker or the
device, the naps of a wait, and a phone that answers at any time. An exchange can fail
without reaching its peer or after the peer has acted. A check-in is one step here
and has the legs in `HemSession`; the reverse holds for the confirmation, which is the
one step `MobileConfirm` of `HemSession`. `ConfirmPromise` knows only questions,
answers, handles and tokens. The refinement mapping forgets everything but the state
and the question of a handle, the answers and the token cache.

### KeyWalk

A page request and its answer are two steps; between any two of them other clients
create and delete keys. A page holds as many keys as the device likes, up to the cap,
since the code takes no notice of a short page. For a search, `repo` stands for the
keys that match; a 404 is an empty page, at any offset, because one of the token exchanges
below the search reads the same.

### PathPromise and SessionPath

A request is issued, answered once and collected; the device executed it at most once
and before the answer; the pair of code and status belongs to `PathFailures` if it was
not executed and to `PathResults` if it was. The mapping takes the activation `"op"` for
the request. The two sets overlap, and where they do the caller cannot know:
`NETWORK` and `NOMEM` with 0, `PROTOCOL` with 0 or the status of a 2xx, `DEVICE` with 500
(together `Undecided`), and `NOT_FOUND` with 404. `HemSession` models no failing allocation
and answers successes with 200 only, so that it never gives two of them; the modules above
the promise do reckon with them.

### BindingTable and Bindings

A binding is a record: the check each argument goes through, the rule for the choice of
a peer, the arguments whose NULL is refused before `last_error` is cleared, how the
request is sent, and the fields its answer must have. An
argument is one of five shapes of pointer and length, a field one of four. `Bindings`
interprets the table: `Call` checks and sends, `PathFailed`, `AnswerLost`,
`RefusalAnswer`, `RawAnswer` and `JsonAnswer` are what may come back, and `PathEnds`
is what the binding makes of it. `meant` is what the caller passed, by the shapes alone;
`nulls` are the arguments passed as NULL with a length. A refusal may come with any
status, for a verifier also with a number that is none or with a 2xx, with and without a
body. `Random` and `RandomAnswer` are the loop of
`ehem_random`, with every byte of the buffer named by the initial value it came from.

### Provisioning

| Variables | |
|---|---|
| `dev` | the device: whose passphrase it has, clock, certificate, power, what it is about to do |
| `call[c]` | operation and leg of client `c`, outcome, the bundle it holds, whether the device did what the call is for, before or after its last start |
| `sess[c]` | passphrase and tokens of the context |

A leg is a step. `LegFails` is a path that failed before the device acted, `LegRefused` a
refusal, `InitLeg` and `ScopedLeg` a leg the device acts on, with its reply lost, empty,
garbled, good, a 500 half way, or too much for the memory left; `Afterwards` has the three
places where `ehem_device_init` may run out of memory after the commit; `RegisterLeg` is the cloud. The device answers a reboot, a shutdown and
a wipe first and acts later (`Restart`, `Wipe`, `PowerOff`).

### Pairing

One action for each call of the application: `NotifySession`, `RegisterInit`,
`RegisterCheck`, `RegisterFinalise` (broker), `ExtInit`, `ExtMac`, `ExtValidate` (device).
The data a call needs are the only order. A call may be repeated, fail, or have its
effect without an answer; a second phone competes for the slots of the device; the
application may change its session between any two calls. `Unpair` is `ehem_key_delete`,
which `auth.h:249` names as the way to unpair; the broker keeps its registration. What
`ExtValidate` reports after an import is every answer of `PathResults` that is `Undecided`,
or OK. `knows` is what a caller may
conclude from the codes it has seen.

### Transport

`Send` is `curl_send` up to `curl_easy_perform` and sets options on the handle, which
keeps them. Then the transfer fails to connect, breaks off in the handshake, is refused over
its certificate (both codes of libcurl for a TLS failure are asked for the verdict), goes
out, breaks off, delivers chunks or completes. `Chunk`, `Double` and `Realloc` are
`write_cb` with its loop, in arithmetic modulo `SIZE_MAX + 1`, which is twice
`PtrdiffMax + 1`.

### Lifecycle

Every allocation and every call of a backend is a step that succeeds or fails. The
initialisation is one sequence of steps that runs inside three calls: `ehem_global_init`,
`ehem_ctx_create`, or a call that draws on the crypto library: a token acquisition, a device
initialisation, a new mnemonic (`Derive`). `Convert` stands for the three conversions that
use the library as it is: `ehem_master_secret_from_mnemonic`, `ehem_cert_inspect` and
`ehem_ext_qr_payload`. `lib` is the crypto library the process loaded;
a foreign one differs by version or in one of the probed structs. `heap` is what is
allocated, `ptrs` what a context points to, `call.held` what the factory of the default
transport has in its local variables and the context does not know of yet. The factory
asks for two structs and a handle before it checks the first (`MakeTrio`), and any part of
them may be there when it does (`CheckTrio`); what an exit releases is written at the exit.

## 3. Runs

| Run | Question | Result |
|---|---|---|
| `SessionSafety` | json, open and check-in calls; every option, certificate, clock and token state; faults on every exchange; time passing | holds |
| `SessionBindings` | delete, reboot, wipeout, search with two scopes: what a code says about execution, code against `last_error`, silence without a session, refinement of `PathPromise` | holds |
| `SessionLiveness` | does every call return | holds |
| `ConfirmSafety` | origin of tokens, single redemption, single ring, the timeout, the drift window, refinement of `ConfirmPromise` | holds |
| `ConfirmLiveness` | does every begin, poll and wait return | holds |
| `KeyWalk` | duplicates, exactness, creations during a walk, an end | holds |
| `Bindings` | what goes out against what was meant, verdicts on signatures, entropy | holds |
| `Provisioning` | are codes honest, does success belong to the caller, is a wiped session gone | holds |
| `Pairing` | broker against device with keys deleted again, codes against the import, the device's table | holds |
| `Transport` | leftovers of earlier requests, TLS posture included; what retries and recoveries rest on; the body and its buffer; an end | holds |
| `Lifecycle` | balance, foreign libraries, uninitialised backends, memory | holds |
| `OkMeansValid` | a sentence of `crypto.h` on verification | **violated** |

Each property that holds is also shown to fail on a mutant, a changed definition kept
beside the one it changes (`EndCheckin_EarlyReturn`, `UsedUp_NotOnFailure`, ...). `TypeOK` is
checked by the session and the pairing runs and proved in every module.

`OkMeansValid` is what `crypto.h:108` says: "Returns EHEM_OK exactly when the device
reports the signature VALID". A verification that is valid reaches the binding as
`PROTOCOL` with status 200. So does a token POST that is answered with an empty 200, and
then the request was never sent. `InvalidNeverPasses` says what does hold: a signature
the device found invalid is not reported as valid, unless the device reports it with a
2xx that has a body, which the path takes for a success.

More of the kind were met while modelling. The models contain the behaviour; no run is
kept for them.

Success and failure:

* reboot, wipeout, delete, update and the disk operations take the token POST's empty 200
  for their own (`proto_system.c:753`; `system.h:296` on wipeout says "Returns EHEM_OK
  once the device has accepted the wipe");
* a 404 on the challenge GET or token POST of a search is read as an empty result
  (`proto_keymgmt.c:869`), and a 406 there as "key not found" by get, update and delete,
  as "slots full" by `ehem_ext_validate` (`proto_ext.c:215`);
* a verification answered with a 2xx other than 200 and a body returns `EHEM_OK`
  (`proto_common.c:245`, `proto_crypto.c:1670`), one answered with a 404 or 401 `NOT_FOUND`
  or `AUTH_FAILED`; REQ-OPS-008:38 maps "any non-200 completion" to `EHEM_ERR_DEVICE`;
* a redemption that never reached the device uses the handle up (`proto_ext.c:732`;
  `auth.h:579`: "the poll failed but the confirmation is still live");
* a reply to `ehem_ext_validate` that is lost, fails half way or cannot be kept leaves a key
  on the device whose identifier nobody has; finalise takes any 2xx for success;
* `ehem_device_init` that runs out of memory after the commit may leave a session behind
  with its error, with or without a token.

`last_error`:

* a best-effort check-in fails, the call succeeds, the failure stays (`ehem.h:286`: "After a
  successful call the detail is reset");
* a NULL argument returns before the detail is cleared (`ehem.h:283`: "most recent call");
* an expired device certificate met on the send after a 401 leaves `tls_expired` at 0
  (`proto_common.c:236`), and an expired certificate of the cloud sets it;
* when the drift check-in of begin fails, `AUTH_FAILED` comes with the status of a leg
  (`proto_ext.c:662`).

Recoveries and time:

* a certificate recovery does not spend the budget of `ensure_token`: two check-ins
  (`proto_common.c:163` against REQ-AUTH-004);
* time spent in an earlier recovery is read as drift, so that a wrong passphrase costs a
  check-in (`proto_auth.c:338`);
* a device that goes on serving its expired certificate after a proactive check-in is checked
  in again by the first exchange of the same call, and then by every later call;
* a wait counts its naps and not its polls (`proto_ext.c:776`);
* `ehem_device_init` may check in through the certificate recovery, although `auth.h:207`
  says it does not; its login holds the passphrase until the first use also under
  `no_credential_retention`;
* a key deleted by another client between two pages makes `list_all` skip a key that was
  there all along (`proto_keymgmt.c:342`).

Details:

* `ehem_key_derive` drops a NULL public key with a length beside an `ext_kid`, which
  `check_peer_args` refuses; the comment calls the rule "mirrored" (`proto_keymgmt.c:738`),
  and `keymgmt.h:393` has `EHEM_ERR_ARG` for "both or neither peer". `NothingDropped` names
  the case;
* `wrap_request` frees a half-decoded output without scrubbing it (`proto_crypto.c:1156`), and
  the path frees the response body plainly (`proto_common.c:294`); REQ-OPS-007:39 says that
  the SDK zeroizes the "JSON/transport buffers";
* `ehem_master_secret_from_mnemonic` (`proto_auth.c:798`), `ehem_cert_inspect`
  (`proto_system.c:522`) and `ehem_ext_qr_payload` (`proto_notify.c:558`) use the crypto
  library without the check of `ehem_global_init`; `ehem.h:94` says that with a foreign
  library "no SDK call can proceed", `docs/API-GUIDE.md:199` that it is checked "before
  anything else uses it" (`auth.h:451` does say of the last that it needs no
  `ehem_global_init`);
* `CURLOPT_CAINFO` is set to NULL to restore the default bundle, as the comment at
  `transport_curl.c:249` has it and `Transport` models it; libcurl documents a NULL as
  disabling the option;
* `#ifdef CURLE_WEIRD_SERVER_REPLY` tests an enumerator, so the case is never compiled
  (`transport_curl.c:93`);
* a failed allocation inside the crypto library during a probe reads as a wrong library
  (`crypto_shim_wolfssl.c:490` says it must not).

### Bounds

* *Session.* Lifetime 3, skew 1 and granted lives of 1 and 3 give tokens that are
  fresh, inside the skew and expired. Offsets -3, 0, 2, 4 are behind, right, ahead
  within the lifetime and ahead of it, the four cases the drift test and the device
  tell apart. `MaxNow` 2 lets time exceed the skew inside a call; it is 0 where no
  property depends on time. History counters stop at 3, since no property tells 3
  from more. Two scopes are enough to use a token of the wrong one.
* *Confirmation.* Two handles, scopes and pushes; skews 1 and 2 with offsets on both
  sides of both; a timeout of 3 with an interval of 2, so that the last nap is cut; an
  exchange takes 0 or 1. One handle and one scope for liveness: a call uses only one.
* *Walk.* Four keys and pages of at most two give walks of up to four pages with
  changes between any two of them, creations behind the offset and deletions in front
  of it.
* *Bindings.* Every subset of arguments left out, and every argument in every odd shape
  with the others given or left out: the checks look at arguments one by one, and at
  pairs only for peers and algorithm. Initial values of 2 bytes and up to 5 bytes asked:
  none, part of one, exactly one, several, and a last one used in part.
* *Provisioning.* Two clients, one that retains its passphrase and one that does not.
  Restarts are not bounded: tokens and effects are of the current run of the device or
  of an earlier one.
* *Pairing.* Two phones and one slot, so that the table is full for one of them; two
  registrations for each phone. The proofs cover every number.
* *Transport.* `PtrdiffMax` 15, a `size_t` of 5 bits, a first capacity of 2 and chunks of up to 5 bytes give
  buffers that double several times for one chunk and reach the limit of realloc. Sends
  are not bounded; bodies are numbered modulo 2, enough to tell this one from the last.
* *Lifecycle.* Two contexts, two probes; initialisations and contexts come and go without
  a bound.

Symmetry is used for scopes and handles, in runs without liveness properties.

### Fairness

`HemSession` assumes that the client runs and that every exchange ends; the transport
ends it with `connect_timeout_ms` and `total_timeout_ms` if the peer does not.
`ConfirmEngine` and `KeyWalk` assume the same of their exchanges, and that a sleep
ends. Nothing is assumed of the device, the phone, the network's reliability or time.
`Transport` assumes that libcurl goes on by itself
(`WF_vars(Progress)`): the total timeout is set on every request, and the loop of
`write_cb` is the client's own. Chunks are not part of it, so a peer that sends for ever
is ended by the timeout. `Bindings`, `Provisioning`, `Pairing` and `Lifecycle` have safety
properties only.
`WalksEnd` also needs that other clients create finitely many keys, as `Keys` is finite:
a client that creates faster than the walk reads would keep it going for ever.

## 4. Proofs

TLAPS proves every safety property the passing runs check, invariants, action properties
and both refinements, for every value of the constants. Eight modules hold the proofs,
one for each component with state. Each follows the same plan: an inductive invariant
whose named parts are the properties and what they rest on, a lemma that every action
keeps it, and theorems that read the properties off it. The strengthenings were checked
by TLC, on the instances of the runs, before they were proved.

### HemSessionProofs

For every set of scopes, all lifetimes, skews and offsets, every set of call kinds and
unbounded time (`MaxNow` is any natural). The assumptions are `SessionAssumption` (numbers
are numbers, the lifetime exceeds the skew, 0 is an offset), `NoScopeAssumption` and
`CallKindsAssumption`; TLC evaluates them in every session run.

`TypeOK` is inductive; there is one lemma for each group of variables (`FlagStep`,
`CtxStep`, ...). The safety facts are not, and are proved together as

    SafetyInv == TypeOK /\ GuardExact /\ Nesting /\ Effects /\ Answered
                 /\ LatchExact /\ Sessionless /\ PassphraseSpent

* `GuardExact` needs `Nesting`: only the activation that waits for a check-in reacts to
  its end.
* `AtMostOnce` alone is not preserved by a resend. `Effects` adds that nothing was
  executed before the request path returns and which codes an executed call can have.
* `ErrorsAgree` is about the end of a call, `Answered` about every place where an
  activation has returned: its code is one that the status in `last_error` can give.
  Where a recovery overwrites `last_error`, the code is overwritten too or the request is
  sent again; that is the point of the proof.
* `ProactiveOnce` needs `LatchExact`, the latch `checkin_on_login_done` against the
  number of proactive check-ins.
* `NoTrafficAfterLogout` needs `Sessionless`: without a session `ensure_token` never
  leaves its entry.

The recoveries have an invariant of their own on top of it:

    RecoveryInv == SafetyInv /\ Counted /\ LatchCovers /\ Credentialed /\ InTime
                   /\ Mends /\ Recovers

* `Counted`: whoever reacts to a check-in's end has one counted. `LatchCovers`: until
  the proactive check-in was made no token was asked for, so it is never the second one.
  `Credentialed`: an acquisition has a credential, and a wrong one buys nothing.
* `Mends`: after the first check-in the clock is set and right, and the certificate valid
  or known to have been kept. In the first case whatever could ask for another check-in is
  answered well; in the second a certificate recovery makes the second check-in, and unless
  that one helps, the request that started it fails and ends the call (`Retrying`). This gives
  `OneCheckinRepairs`.
* `Recovers`: when the call has all it needs, every failure met so far is one that some
  recovery takes on, until the path returns with success, or with the expired certificate
  the device kept (`Stale`). This gives `RecoveryComplete`.
* `InTime` came out of a failed proof. An acquisition that lasts longer than
  `Lifetime - Skew` gets a token that is expired when it arrives; the retry after the 401
  then fails the same way or calls for a second check-in. With `MaxNow` below `Lifetime`
  no run could see it. In the code the two numbers are 3600 s and 60 s against 30 s for
  an exchange by default, so such an acquisition counts as a disturbance now
  (`Outlasted` in `Tick`); both properties are about undisturbed calls.

For `PathIsPromised` the steps of the engine are first sorted by what they do to the
activation `"op"` and to `applied` (`PathMoves`): it is issued, it returns, it is collected,
or neither changes. `Effects` and `Answered` then put the code and status of a return
into `PathFailures` or `PathResults`.

| Theorem | Says |
|---|---|
| `TypeCorrect`, `SafetyInvariant`, `RecoveryInvariant` | `TypeOK`, `SafetyInv`, `RecoveryInv` always hold |
| `GuardCorrect`, `ExecutedAtMostOnce`, `OneProactive`, `PassphraseGone`, `SilentWithoutSession`, `OneCheckinSuffices` | the invariants `GuardExact`, `AtMostOnce`, `ProactiveOnce`, `PassphraseSpent`, `NoTrafficAfterLogout`, `OneCheckinRepairs` |
| `OkIsExecuted`, `DefiniteFailures`, `RefreshIsVerified`, `CodesAgree`, `RecoveryIsComplete` | the action properties `OkMeansExecuted` (which the refinement of `PathPromise` covers in the runs), `DefiniteErrors`, `RefreshVerified`, `ErrorsAgree`, `RecoveryComplete` |
| `PathIsPromised` | `HemSession` implements `PathPromise` |

### ConfirmProofs

For any number of handles, scopes and pushes, any timeout, interval and skew. `IInv` joins
`TokenOrigin`, `RedeemedOnce` and `RingsOnce` with what a call is doing to which handle
(`CallOK`, `CallHandle`), that a live handle asked a question of its own whose reply the
device has not seen (`LiveOK`, `LiveApart`), that a begin under way has not rung yet
(`QuietOK`), and what a drift check-in leaves (`ClockOK`). `RedeemedOnce` needs that two
live handles never share a push, `TokenOrigin` that redeeming starts from an approved one.
The refinement is proved step by step: an exchange that fails, before or after its peer
acted, is a stutter or the promise's own refusal.

| Theorem | Says |
|---|---|
| `Invariance`, `TypeCorrect` | `IInv` and `TypeOK` always hold |
| `TokenOriginHolds`, `RedeemedOnceHolds`, `RingsOnceHolds` | the invariants |
| `TimeoutHolds`, `RefusalHolds` | the action properties `TimeoutMeansUnanswered`, `RefusedOnlyInWindow` |
| `PromiseKept` | `ConfirmEngine` implements `ConfirmPromise` |

### PairingProofs

For any set of phones, any number of slots and registrations (`PairingAssumption`: they
are natural numbers). The invariant is

    PairingInv == TypeOK /\ IsFiniteSet(slots)
                  /\ KidBacked /\ FinalMeansPaired /\ CodesTellImport

`FinalMeansPaired` is not inductive: finalising needs a `kid`, and `KidBacked` says that
whoever has one has a slot, or had one and its key was deleted. The bound on the table needs the table to be finite, for its
cardinality to grow by one. `ImportUntouched` serves all the calls that do not import.

| Theorem | Says |
|---|---|
| `PairingInvariant`, `PairingTypes` | `PairingInv` and `TypeOK` always hold |
| `FinalIsPaired`, `CodesAreTrue` | the invariants `FinalMeansPaired`, `CodesTellImport` |

### ProvisioningProofs

For any number of clients, any of them retaining (`ProvisioningAssumption`: `Retaining` is
a set of clients and `Nobody` is none). `Sound` says for one client that its call is in a leg
of its operation, that the call has had no effect before its last leg, and the three
properties. Codes are the other half: `ExecutedCodes` says that a leg the device executed
never ends in a refusal, whatever became of the answer: lost, garbled, a failure half way
or out of memory, it is `Undecided`.

| Theorem | Says |
|---|---|
| `ProvisioningInvariant`, `ProvisioningTypes` | `ProvInv` and `TypeOK` always hold |
| `CodesAreHonest`, `InitIsOwned`, `WipedSessionIsOver` | the invariants `CodesHonest`, `InitOwns`, `WipedSessionEnds` |

### KeyWalkProofs

For every repository, set of keys and page size above 0 (`KeyWalkAssumption`). `NoDuplicates` needs `BehindOK`: what
was gathered is neither ahead of the offset nor still to be created, which a deletion
keeps because it only moves keys towards the front. `CreatesLoseNothing` needs `PrefixOK`:
while nobody deletes, the walk has gathered exactly what is before its offset.

| Theorem | Says |
|---|---|
| `WalkInvariant`, `WalkTypes` | `KeyInv` and `TypeOK` always hold |
| `NoKeyTwice`, `CreatesAreHarmless` | `NoDuplicates`, and the action property `CreatesLoseNothing` |

### BindingsProofs

For every length of a request to `ehem_random` and of an initial value
(`BindingAssumption`: they are natural numbers, the latter not 0); the bindings are
those of the table. `TableTells` goes through the table once: each check tells a NULL
with a length from bytes, or the argument is a string or a description; only key
management has descriptions, and only `ehem_key_derive` derives from a peer. From it
follows `NothingDropped` for every argument shape the checks accept. `FillOK` is the
loop invariant of `ehem_random`: the bytes so far are distinct ones of complete initial
values, the others are the caller's.

| Theorem | Says |
|---|---|
| `BindingsInvariant`, `BindingsTypes` | `BindInv` and `TypeOK` always hold |
| `NothingIsDropped`, `InvalidIsRefused`, `RandomIsAllOrNothing` | the invariants `NothingDropped`, `InvalidNeverPasses`, `AllOrNothing` |

### TransportProofs

For every `PTRDIFF_MAX`, first capacity and size of chunks (`TransportAssumption`: the first
capacity is at most `PTRDIFF_MAX`, and two chunks at most `PTRDIFF_MAX + 1`; those of
libcurl have 16 kB).
`OptsOK` says what each option is while the connection is made, although it may have
been set by any earlier request. `BufOK` and `GrowOK` are the loop invariant of `write_cb`:
the old block is one that realloc gave out, so twice its size still fits `size_t`, and
another round is only made while the capacity is below a need that fits too. `GrowthTerminates` states the consequence,
that the doubling never wraps to 0; the liveness property `SendsReturn` rests on it.

| Theorem | Says |
|---|---|
| `TransportInvariant`, `TransportTypes` | `TransportInv` and `TypeOK` always hold |
| `NothingEverSticks`, `RetriesAreSafe`, `BodiesAreWhole` | the invariants `NothingSticks`, `RetrySafe`, `BodyWhole` |
| `GrowthTerminates` | `NoRoundWraps`, the capacity stays within `size_t` |

### LifecycleProofs

For any number of contexts and probes (`LifecycleAssumption`: there is one of each).
`CountOK` fixes the two counters at every step of an initialisation, not only between
calls as `Balanced` does. `LibraryOK` says what the checks passed so far exclude. `HeapOK`
says exactly what is allocated, with the blocks a transport factory holds that its context
does not know of yet (`Unattached`, any part of the first three while they are made);
`HeapSound` is about the times between calls, when
there are none.

| Theorem | Says |
|---|---|
| `LifeInvariant`, `LifeTypes` | `LifeInv` and `TypeOK` always hold |
| `BackendsBalanced`, `CryptoIsUp`, `HeapIsSound` | the invariants `Balanced`, `CryptoUp`, `HeapSound` |

### Only model-checked

Liveness: `CallsReturn` of the session and of the confirmation, `WalksEnd`, `SendsReturn`;
fairness and ENABLED are outside what the prover handles. `OkMeansValid` is false.

## 5. What is left out

* Message texts and payloads of errors. Allocation failures are in `Lifecycle` and
  `Transport`, and as the answer NOMEM in `Bindings`, `Provisioning` and `Pairing`; argument
  checks are in `Bindings`. `HemSession`, `ConfirmEngine` and `KeyWalk` have neither.
* Which buffers are scrubbed before they are released, but for the passphrase and the tokens
  of a session. Each exit of a binding has its one call, and a model would only repeat it.
* In `Bindings` the scope of a request, and arguments odd in two ways at once. `KeyWalk`
  and `HemSession` have list and search.
* In `Provisioning` the check-in's legs, which `HemSession` has, and 401 retries, whose
  effect is a token that is live or not.
* In `Transport` URL joining and header text, and connections: every one is closed after
  use (`CURLOPT_FORBID_REUSE`). A peer's certificate does not change during a send.
* In `Lifecycle` threads: `ehem_global_init` is documented as not thread-safe.
* In `HemSession` the world moves only while the client waits for something, which
  loses nothing because the client's own steps touch nothing the world sees; the
  device clock drifts between calls only.
* In `ConfirmEngine` the certificate recovery below a device exchange; a device that
  answers 403 for another reason than its clock; an authreq whose stamp the SDK cannot
  read, which counts as no evidence of drift.
* A token seeded by a confirmation after `ehem_logout` opens a session again, by design
  of `ehem_auth_cache_seed`. `ConfirmEngine` has it, with `TokenOrigin` as what still
  holds; `HemSession` runs confirmations only inside a mobile session.
* *Not modelled.* The arithmetic of the crypto shims is outside a model checker's reach;
  their initialisation is in `Lifecycle`. `ejwt.c`, `json.c`, `bip39.c` and `keytype.c` are
  conversions of strings without state: what the models need of them, whether a value is
  well-formed, is an outcome there, and their correctness on long inputs is what their
  unit tests compare with vectors. `ehem_cert_inspect` is parsing; `Lifecycle` has its use of the library. `vendor/cjson` is
  third-party code.

## 6. Plan

1. What two proofs share (a step that leaves a group of variables alone) as lemmas, to
   shorten `HemSessionProofs`.
2. The safety half of the liveness properties: a measure that every step of the client
   lowers, as action properties, so that `CallsReturn`, `WalksEnd` and `SendsReturn` rest
   on fairness alone.
3. The composition: that `Bindings`, `Provisioning` and `Pairing` take no answer that
   `PathPromise` does not allow, as theorems about `PathFailures` and `PathResults`.

The set of runs is kept to a dozen, one for each module and one more where liveness needs
a smaller instance.
