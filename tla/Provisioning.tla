---------------------------- MODULE Provisioning ----------------------------
(***************************************************************************)
(* The life of a device: personalised (ehem_device_init), its certificate  *)
(* installed or restored through the provisioning cloud                    *)
(* (ehem_system_config_install_cert, ehem_tls_recover), rebooted, shut     *)
(* down and wiped, by several clients with a context each.                 *)
(*                                                                         *)
(* A call is one or more legs, each an exchange over the shared request    *)
(* path.  One leg is one step: the path fails before the device acts, the  *)
(* device refuses, or it acts and its reply is a failure half way, lost,   *)
(* garbled, out of memory or good.  In between, other clients call, and    *)
(* the device restarts, is wiped or loses power.                           *)
(***************************************************************************)
EXTENDS HemTypes, Sequences, FiniteSets

CONSTANTS
  Clients,      \* contexts; a client's own passphrase is named by it
  Retaining     \* those that keep the passphrase after its first use

Nobody == "nobody"

ASSUME ProvisioningAssumption == Retaining \subseteq Clients /\ Nobody \notin Clients

\* What a call holds to install: nothing yet, the application's certificate, or
\* a bundle from the cloud; never a cloud answer with no certificate in it
Bundles == {"none", "own", "issued"}

Legs ==
  [none |-> <<>>, init |-> <<"challenge", "commit">>,
   recover |-> <<"attest", "register", "install">>,
   install |-> <<"install">>, reboot |-> <<"reboot">>,
   shutdown |-> <<"shutdown">>, wipeout |-> <<"wipe">>]
Ops == DOMAIN Legs \ {"none"}
LegNames == {"challenge", "commit", "attest", "register", "install", "reboot",
             "shutdown", "wipe"}

VARIABLES
  dev,     \* the device
  call,    \* per client: operation, current leg ("ret" when it returned),
           \* outcome, the bundle it holds, and whether the device did what
           \* the call asks for, since its last start or before it
  sess     \* per client: retained passphrase, per scope the cached token, and
           \* whether the context has wiped the device since its last login

vars == <<dev, call, sess>>

Device ==
  [user : Clients \union {Nobody}, rtc : BOOLEAN, expired : BOOLEAN,
   up : BOOLEAN, pending : {"none", "reboot", "off", "wipe"}]

NoCall ==
  [op |-> "none", leg |-> "ret", outcome |-> "OK", bundle |-> "none", did |-> "no"]
Scopes == {"config", "shutdown"}
ScopeOf(leg) == IF leg = "shutdown" THEN "shutdown" ELSE "config"
NoToks == [s \in Scopes |-> "none"]
NoSession == [cred |-> Nobody, tok |-> NoToks, wiped |-> FALSE]

\* Code and status as far as a caller can tell whether to try again: what does
\* not leave it open is a refusal
Outcomes == {"OK", "open", "refused"}
Outcome(a) ==
  IF a.code = "OK" THEN "OK" ELSE IF Undecided(a) THEN "open" ELSE "refused"

TypeOK ==
  /\ dev \in Device
  /\ call \in [Clients ->
       [op : DOMAIN Legs, leg : LegNames \union {"ret"}, outcome : Outcomes,
        bundle : Bundles, did : {"no", "now", "before"}]]
  /\ sess \in [Clients -> [cred : Clients \union {Nobody},
                           tok : [Scopes -> {"none", "live", "stale"}],
                           wiped : BOOLEAN]]

Init ==
  /\ dev = [user |-> Nobody, rtc |-> FALSE, expired |-> TRUE, up |-> TRUE,
            pending |-> "none"]
  /\ call = [c \in Clients |-> NoCall]
  /\ sess = [c \in Clients |-> NoSession]

-----------------------------------------------------------------------------
(* Calls                                                                   *)

Start(c, op) ==
  /\ call[c].op = "none"
  /\ call' = [call EXCEPT ![c] =
              [NoCall EXCEPT !.op = op, !.leg = Legs[op][1],
                             !.bundle = IF op = "install" THEN "own" ELSE "none"]]
  /\ UNCHANGED <<dev, sess>>

\* The application looks at the result, and may call again
Collect(c) ==
  /\ call[c].op # "none" /\ call[c].leg = "ret"
  /\ call' = [call EXCEPT ![c] = NoCall]
  /\ UNCHANGED <<dev, sess>>

\* ehem_login with a passphrase: a new session, without tokens
LoggedIn(who) == [NoSession EXCEPT !.cred = who]

Login(c, who) ==
  /\ call[c].op = "none"
  /\ sess' = [sess EXCEPT ![c] = LoggedIn(who)]
  /\ UNCHANGED <<dev, call>>

At(c, leg) == call[c].leg = leg

InitExplain_AlreadyIsFine(a) == IF a.http = 406 THEN Answer("OK", 406) ELSE a
\* 403 is no scope failure here: the clock is not set
InitExplain(a) == IF a.http = 403 THEN Answer("DEVICE", 403) ELSE a

\* Legs sent with ehem_proto_request_raw; an empty 200 is success to them
Raw(leg) == leg \in {"reboot", "shutdown", "wipe"}
EmptyOk(leg) == Raw(leg)

\* What the leg makes of the path's answer
Explained(leg, a) ==
  IF leg \in {"challenge", "commit"} THEN InitExplain(a)
  ELSE IF EmptyOk(leg) /\ a = Answer("PROTOCOL", 200) THEN Answer("OK", 0)
  ELSE a

\* The call is over with this answer
Ended(c, o) == [call[c] EXCEPT !.leg = "ret", !.outcome = o, !.bundle = "none"]

\* ehem_logout
AfterWipe_TokensOnly(c) == [sess[c] EXCEPT !.tok = NoToks, !.wiped = TRUE]
AfterWipe(c) == [NoSession EXCEPT !.wiped = TRUE]

\* Session of the context once a leg ended well
After(c, leg, s) ==
  IF leg \in {"reboot", "shutdown"} THEN [s EXCEPT !.tok = NoToks]
  ELSE IF leg = "wipe" THEN AfterWipe(c)
  ELSE s

-----------------------------------------------------------------------------
(* The device and the cloud (external), as the statuses the code maps tell *)

\* Why the device refuses a personalisation, in the order it checks; the last
\* two may or may not be the case
InitRefusals(leg) ==
  IF ~dev.rtc THEN {403}
  ELSE IF dev.user # Nobody THEN {406}
  ELSE {409} \union (IF leg = "commit" THEN {400, 401} ELSE {})
Personalises == dev.rtc /\ dev.user = Nobody

ConfigRefusals == {400, 403, 409, 500}

Act(leg, c) ==
  CASE leg = "commit"   -> [dev EXCEPT !.user = c]
    [] leg = "reboot"   -> [dev EXCEPT !.pending = "reboot"]
    [] leg = "shutdown" -> [dev EXCEPT !.pending = "off"]
    [] leg = "wipe"     -> [dev EXCEPT !.pending = "wipe"]
    [] OTHER            -> dev

\* Legs whose effect is what the call is for
Effective == {"commit", "install", "reboot", "shutdown", "wipe"}

\* A start of the device: the tokens it issued die
Started ==
  /\ sess' = [c \in Clients |->
       [sess[c] EXCEPT !.tok = [s \in Scopes |-> IF @[s] = "live" THEN "stale" ELSE @[s]]]]
  /\ call' = [c \in Clients |->
       [call[c] EXCEPT !.did = IF @ = "now" THEN "before" ELSE @]]

\* It answers first and acts a little later
Restart ==
  /\ dev.pending = "reboot"
  /\ dev' = [dev EXCEPT !.pending = "none"] /\ Started

Wipe ==
  /\ dev.pending = "wipe"
  /\ dev' = [dev EXCEPT !.pending = "none", !.user = Nobody] /\ Started

PowerOff ==
  /\ dev.pending = "off"
  /\ dev' = [dev EXCEPT !.pending = "none", !.up = FALSE]
  /\ UNCHANGED <<call, sess>>

\* The clock may be lost
PowerOn ==
  /\ ~dev.up
  /\ \E rtc \in {dev.rtc, FALSE} : dev' = [dev EXCEPT !.up = TRUE, !.rtc = rtc]
  /\ Started

\* A check-in sets the clock and hands a certificate over; the device may go on
\* serving the old one
CheckedIn(kept) == [dev EXCEPT !.rtc = TRUE, !.expired = @ /\ kept]

\* An explicit ehem_system_checkin of anyone
CheckIn ==
  /\ dev.up
  /\ \E kept \in BOOLEAN : dev' = CheckedIn(kept)
  /\ UNCHANGED <<call, sess>>

-----------------------------------------------------------------------------
(* Exchanges                                                               *)

LegStarts(c, leg) == call[c].op # "none" /\ At(c, leg)

\* An expired certificate: the path checks in by itself, whatever the call, and
\* sends again
AutoCheckin(c) ==
  /\ call[c].op # "none" /\ ~At(c, "ret") /\ ~At(c, "register")
  /\ dev.up /\ dev.expired
  /\ \E kept \in BOOLEAN : dev' = CheckedIn(kept)
  /\ UNCHANGED <<call, sess>>

\* Answers of the path for a request without a token that was not executed
Unsent == {Answer("NETWORK", 0), Answer("UNREACHABLE", 0), Answer("NOMEM", 0)}

\* The path failed and the device did nothing; tokens it refused are dropped
LegFails(c) ==
  /\ call[c].op # "none" /\ ~At(c, "ret")
  /\ LET leg == call[c].leg
         scoped == leg \notin {"challenge", "commit", "register"}
         failures == IF scoped THEN PathFailures
                     ELSE Unsent
     IN \E o \in {Outcome(Explained(leg, f)) : f \in failures} :
          /\ call' = [call EXCEPT ![c] = Ended(c, o)]
          /\ IF o = "OK" THEN sess' = [sess EXCEPT ![c] = After(c, leg, @)]
             ELSE sess' \in {sess} \union
                            IF scoped THEN {[sess EXCEPT ![c].tok[ScopeOf(leg)] = "none"]} ELSE {}
  /\ UNCHANGED dev

\* The device is there, and the context has or gets a token it accepts
TokenLive(c) == sess[c].tok[ScopeOf(call[c].leg)] = "live"
CanLogin(c) == dev.user # Nobody /\ sess[c].cred = dev.user
Reached == dev.up /\ ~dev.expired
Authorised(c) == TokenLive(c) \/ CanLogin(c)

\* The session after the path had its token
WithToken(c) ==
  IF TokenLive(c) THEN sess[c]
  ELSE [sess[c] EXCEPT !.tok[ScopeOf(call[c].leg)] = "live",
                       !.cred = IF c \in Retaining THEN @ ELSE Nobody]

\* The device refuses the leg
LegRefused(c) ==
  /\ call[c].op # "none" /\ ~At(c, "ret") /\ ~At(c, "register") /\ Reached
  /\ LET leg == call[c].leg
         init == leg \in {"challenge", "commit"}
     IN /\ init \/ Authorised(c)
        /\ \E o \in {Outcome(Explained(leg, Answer(MapStatus(st), st))) :
                    st \in IF init THEN InitRefusals(leg) ELSE ConfigRefusals} :
             call' = [call EXCEPT ![c] = Ended(c, o)]
        /\ sess' = IF init THEN sess ELSE [sess EXCEPT ![c] = WithToken(c)]
  /\ UNCHANGED dev

LostCode_Unreachable == "UNREACHABLE"
\* The path's code for a reply that did not arrive
LostCode == "NETWORK"

\* Legs that look for fields in the reply; the status they record differs
Checked == {"challenge", "commit", "attest"}
Malformed(leg) == Answer("PROTOCOL", IF leg = "challenge" THEN 0 ELSE 200)

\* What the leg makes of the answer to a request the device executed: "failed" is
\* a 500 half way, "nomem" a 200 there is no memory for, be it the body, the
\* parsed object or the result
Arrived(leg, body) ==
  LET r == Reply(200, body) IN
  IF body = "lost" THEN Answer(LostCode, 0)
  ELSE IF body = "failed" THEN Answer(MapStatus(500), 500)
  ELSE IF body = "nomem" THEN Answer("NOMEM", 0)
  ELSE IF Raw(leg) THEN Answer(RawCode(r), RawHttp(r))
  ELSE IF body = "nofield" /\ leg \in Checked THEN Malformed(leg)
  ELSE Answer(JsonCode(r), JsonHttp(r))

\* A leg whose reply the binding could use: the next one, or the end
Onward(c) ==
  LET legs == Legs[call[c].op]
      k == CHOOSE i \in DOMAIN legs : legs[i] = call[c].leg
  IN IF k < Len(legs) THEN [call[c] EXCEPT !.leg = legs[k + 1]]
                      ELSE Ended(c, "OK")

\* ehem_login with the new passphrase, then the token of the reply is cached
Seeded(c) == [LoggedIn(c) EXCEPT !.tok.config = "live"]

\* The session once the leg ended, s the one the path left.  A personalisation
\* that runs out of memory does so before the login, before the token is cached
\* or after it
Afterwards(c, leg, a, s) ==
  IF a.code = "OK" THEN {IF leg = "commit" THEN Seeded(c) ELSE After(c, leg, s)}
  ELSE IF leg = "commit" /\ a.code = "NOMEM" THEN {s, LoggedIn(c), Seeded(c)}
  ELSE {s}

\* The device does what the leg asks for
Done(c, leg, body, s) ==
  LET a == Explained(leg, Arrived(leg, body))
      next == IF a.code = "OK" THEN Onward(c) ELSE Ended(c, Outcome(a))
  IN /\ dev' = Act(leg, c)
     /\ call' = [call EXCEPT ![c] =
                   [next EXCEPT !.did = IF leg \in Effective THEN "now" ELSE @]]
     /\ \E t \in Afterwards(c, leg, a, s) : sess' = [sess EXCEPT ![c] = t]

Replied == {"lost", "failed", "nomem", "empty", "bad", "nofield", "json"}

\* ehem_device_init, the challenge and the commit
InitLeg(c) ==
  /\ LegStarts(c, "challenge") \/ LegStarts(c, "commit")
  /\ Reached /\ Personalises
  /\ \E body \in Replied : Done(c, call[c].leg, body, sess[c])

\* A leg with the scope system:config or system:shutdown
ScopedLeg(c) ==
  /\ \E leg \in {"attest", "install", "reboot", "shutdown", "wipe"} :
       LegStarts(c, leg)
  /\ Reached /\ Authorised(c)
  /\ \E body \in Replied : Done(c, call[c].leg, body, WithToken(c))

\* A JSON object with a certificate in it
Usable(b) == b # "junk"

\* ehem_tls_recover, the provisioning cloud: it refuses, or it issues a bundle,
\* which may be lost on the way
RegisterLeg(c) ==
  /\ LegStarts(c, "register")
  /\ \/ \E o \in {"refused", "open"} :
          call' = [call EXCEPT ![c] = Ended(c, o)]
     \/ \E b \in {"issued", "junk"} :
          IF Usable(b)
          THEN call' = [call EXCEPT ![c].bundle = b, ![c].leg = "install"]
          ELSE call' = [call EXCEPT ![c] = Ended(c, "open")]
  /\ UNCHANGED <<dev, sess>>

-----------------------------------------------------------------------------
Exchange(c) ==
  \/ LegFails(c) \/ LegRefused(c) \/ InitLeg(c) \/ ScopedLeg(c)
  \/ RegisterLeg(c) \/ AutoCheckin(c)

Next ==
  \/ \E c \in Clients :
       \/ \E op \in Ops : Start(c, op)
       \/ \E who \in Clients : Login(c, who)
       \/ Collect(c)
       \/ Exchange(c)
  \/ Restart \/ Wipe \/ PowerOff \/ PowerOn \/ CheckIn

Spec == Init /\ [][Next]_vars

-----------------------------------------------------------------------------
(* Properties                                                              *)

Returned(c, op) == call[c].op = op /\ call[c].leg = "ret"
Succeeded(c, op) == Returned(c, op) /\ call[c].outcome = "OK"

\* The codes are the truth.  After one that names a refusal the device has not
\* done what this call asked for: only NETWORK, PROTOCOL, NOMEM and a DEVICE with
\* status 500 leave it open, so that a caller who repeats an ehem_device_init or
\* an installation after any other answer never repeats something that was done.
\* An installation reported as done was done, whatever became of the exchanges
\* that lead to it.
CodesHonest ==
  \A c \in Clients, op \in Ops :
    /\ Returned(c, op) /\ call[c].outcome = "refused" => call[c].did = "no"
    /\ Succeeded(c, op) /\ op \in {"install", "recover"} => call[c].did # "no"

\* ehem_device_init reports success only to the client whose passphrase the
\* device took, however the challenges and commits of several clients and the
\* wipes of the device interleave.  Its context then holds the new session with
\* the token of the reply, live until the device restarts: the next
\* configuration write needs no login, not even where no passphrase is retained.
InitOwns ==
  \A c \in Clients :
    Succeeded(c, "init") =>
      /\ call[c].did # "no"
      /\ call[c].did = "now" =>
           dev.user = c /\ sess[c].cred = c /\ sess[c].tok.config = "live"

\* A context that has wiped the device has nothing left to act with, although
\* the device goes on answering until the wipe takes effect.
WipedSessionEnds ==
  \A c \in Clients :
    sess[c].wiped => sess[c].tok = NoToks /\ sess[c].cred = Nobody
=============================================================================
