------------------------ MODULE ProvisioningProofs --------------------------
(***************************************************************************)
(* Proofs about Provisioning: what the codes of a call say about the       *)
(* device, whom a personalisation belongs to and what a wiped context has  *)
(* left, for any number of clients.                                        *)
(***************************************************************************)
EXTENDS Provisioning, TLAPS

\* The legs each operation goes through.
Going ==
  {<<"init", "challenge">>, <<"init", "commit">>, <<"recover", "attest">>,
   <<"recover", "register">>, <<"recover", "install">>, <<"install", "install">>,
   <<"reboot", "reboot">>, <<"shutdown", "shutdown">>, <<"wipeout", "wipe">>}

CallRec ==
  [op : DOMAIN Legs, leg : LegNames \union {"ret"}, outcome : Outcomes,
   bundle : Bundles, did : {"no", "now", "before"}]
SessRec ==
  [cred : Clients \union {Nobody}, tok : [Scopes -> {"none", "live", "stale"}],
   wiped : BOOLEAN]

\* What is true of the call r and the session s of client c, with u the owner of
\* the device: the three properties for one client, and what they rest on.  A
\* call is in a leg of its operation, and has no effect before its last leg.
Sound(c, r, s, u) ==
  /\ r.leg # "ret" => <<r.op, r.leg>> \in Going
  /\ r.leg # "ret" \/ r.op = "none" => r.did = "no"
  /\ r.leg = "ret" /\ r.outcome = "refused" => r.did = "no"
  /\ r.leg = "ret" /\ r.outcome = "OK" /\ r.op \in {"install", "recover", "init"}
       => r.did # "no"
  /\ r.leg = "ret" /\ r.outcome = "OK" /\ r.op = "init" /\ r.did = "now"
       => u = c /\ s.cred = c /\ s.tok["config"] = "live"
  /\ s.wiped => s.tok = NoToks /\ s.cred = Nobody

ProvInv ==
  /\ TypeOK
  /\ \A c \in Clients : Sound(c, call[c], sess[c], dev.user)

-----------------------------------------------------------------------------
(* Codes                                                                   *)

\* A leg the device executed ends in success or in an answer that leaves it open.
LEMMA ExecutedCodes ==
  ASSUME NEW leg \in LegNames, NEW body \in Replied
  PROVE  Outcome(Explained(leg, Arrived(leg, body))) \in {"OK", "open"}
<1>1. Arrived(leg, body) \in {Answer("OK", 200), Answer("NETWORK", 0), Answer("PROTOCOL", 0),
                              Answer("PROTOCOL", 200), Answer("DEVICE", 500),
                              Answer("NOMEM", 0)}
  BY DEF Replied, Arrived, Reply, LostCode, RawCode, RawHttp, JsonCode, JsonHttp,
         MapStatus, Malformed
<1>2. Explained(leg, Arrived(leg, body)) \in
        {Answer("OK", 200), Answer("OK", 0), Answer("NETWORK", 0), Answer("PROTOCOL", 0),
         Answer("PROTOCOL", 200), Answer("DEVICE", 500), Answer("NOMEM", 0)}
  BY <1>1 DEF Explained, InitExplain, Answer
<1> QED BY <1>2 DEF Outcome, Undecided, Answer

\* A leg the device never executed succeeds only where an empty reply does.
LEMMA FailedCodes ==
  ASSUME NEW leg \in LegNames,
         NEW f \in PathFailures \union Unsent
  PROVE  /\ Outcome(Explained(leg, f)) \in Outcomes
         /\ Outcome(Explained(leg, f)) = "OK" => Raw(leg)
<1>1. /\ f.code \in {"AUTH_EXPIRED", "USER_REJECTED", "CONFIRM_TIMEOUT", "UNREACHABLE",
                     "NETWORK", "PROTOCOL", "AUTH_FAILED", "SCOPE_DENIED", "NOT_FOUND",
                     "DEVICE", "NOMEM"}
  BY DEF PathFailures, Unsent, Answer
<1>2. Explained(leg, f).code = "OK" => Raw(leg)
  BY <1>1 DEF Explained, InitExplain, EmptyOk, Answer
<1> QED BY <1>2 DEF Outcome, Outcomes

\* A leg the device refused fails.
LEMMA RefusedCodes ==
  ASSUME NEW leg \in LegNames, NEW st \in {400, 401, 403, 406, 409, 500}
  PROVE  Outcome(Explained(leg, Answer(MapStatus(st), st))) \in Outcomes \ {"OK"}
<1>1. MapStatus(st) \in {"AUTH_FAILED", "SCOPE_DENIED", "DEVICE"}
  BY DEF MapStatus
<1>2. Explained(leg, Answer(MapStatus(st), st)).code # "OK"
  BY <1>1 DEF Explained, InitExplain, Answer
<1> QED BY <1>2 DEF Outcome, Outcomes

\* Where a leg leads to.
LEMMA OnwardIs ==
  ASSUME NEW c \in Clients, <<call[c].op, call[c].leg>> \in Going
  PROVE  Onward(c) =
           IF call[c].leg = "challenge" THEN [call[c] EXCEPT !.leg = "commit"]
           ELSE IF call[c].leg = "attest" THEN [call[c] EXCEPT !.leg = "register"]
           ELSE IF call[c].leg = "register" THEN [call[c] EXCEPT !.leg = "install"]
           ELSE Ended(c, "OK")
<1>1. CASE call[c].op = "init"
  <2>1. Legs[call[c].op] = <<"challenge", "commit">>
    BY <1>1 DEF Legs
  <2>2. CASE call[c].leg = "challenge"
    <3>1. (CHOOSE i \in 1..2 : <<"challenge", "commit">>[i] = "challenge") = 1
      OBVIOUS
    <3> QED BY <2>1, <2>2, <3>1 DEF Onward
  <2>3. CASE call[c].leg = "commit"
    <3>1. (CHOOSE i \in 1..2 : <<"challenge", "commit">>[i] = "commit") = 2
      OBVIOUS
    <3> QED BY <2>1, <2>3, <3>1 DEF Onward
  <2> QED BY <1>1, <2>2, <2>3 DEF Going
<1>2. CASE call[c].op = "recover"
  <2>1. Legs[call[c].op] = <<"attest", "register", "install">>
    BY <1>2 DEF Legs
  <2>2. CASE call[c].leg = "attest"
    <3>1. (CHOOSE i \in 1..3 : <<"attest", "register", "install">>[i] = "attest") = 1
      OBVIOUS
    <3> QED BY <2>1, <2>2, <3>1 DEF Onward
  <2>3. CASE call[c].leg = "register"
    <3>1. (CHOOSE i \in 1..3 : <<"attest", "register", "install">>[i] = "register") = 2
      OBVIOUS
    <3> QED BY <2>1, <2>3, <3>1 DEF Onward
  <2>4. CASE call[c].leg = "install"
    <3>1. (CHOOSE i \in 1..3 : <<"attest", "register", "install">>[i] = "install") = 3
      OBVIOUS
    <3> QED BY <2>1, <2>4, <3>1 DEF Onward
  <2> QED BY <1>2, <2>2, <2>3, <2>4 DEF Going
<1>3. CASE call[c].op \in {"install", "reboot", "shutdown", "wipeout"}
  <2>1. Legs[call[c].op] = <<call[c].leg>>
    BY <1>3 DEF Legs, Going
  <2>2. (CHOOSE i \in 1..1 : <<call[c].leg>>[i] = call[c].leg) = 1
    OBVIOUS
  <2> QED BY <1>3, <2>1, <2>2 DEF Onward, Going
<1> QED BY <1>1, <1>2, <1>3 DEF Going

-----------------------------------------------------------------------------
(* Steps                                                                   *)

\* The type invariant with its records named.
LEMMA TypeIs == TypeOK <=> /\ dev \in Device
                           /\ call \in [Clients -> CallRec]
                           /\ sess \in [Clients -> SessRec]
  BY DEF TypeOK, CallRec, SessRec

\* A step of one client: the others do not notice, unless the device was nobody's.
LEMMA ClientStep ==
  ASSUME ProvInv, NEW c \in Clients, NEW r \in CallRec, NEW s \in SessRec,
         call' = [call EXCEPT ![c] = r], sess' = [sess EXCEPT ![c] = s],
         dev' \in Device, dev'.user = dev.user \/ dev.user = Nobody,
         Sound(c, r, s, dev'.user)
  PROVE  ProvInv'
<1>1. /\ dev \in Device /\ call \in [Clients -> CallRec] /\ sess \in [Clients -> SessRec]
      /\ \A d \in Clients : Sound(d, call[d], sess[d], dev.user)
  BY TypeIs DEF ProvInv
<1>2. /\ call' \in [Clients -> CallRec] /\ sess' \in [Clients -> SessRec]
      /\ call'[c] = r /\ sess'[c] = s
      /\ \A d \in Clients \ {c} : call'[d] = call[d] /\ sess'[d] = sess[d]
  BY <1>1
<1>3. TypeOK'
  BY <1>2 DEF TypeOK, CallRec, SessRec
<1>4. ASSUME NEW d \in Clients
      PROVE  Sound(d, call'[d], sess'[d], dev'.user)
  <2>1. CASE d = c
    BY <1>2, <2>1
  <2>2. CASE d # c
    <3>1. Sound(d, call[d], sess[d], dev.user)
      BY <1>1
    <3>2. Nobody # d
      BY ProvisioningAssumption
    <3> QED BY <1>2, <2>2, <3>1, <3>2 DEF Sound
  <2> QED BY <2>1, <2>2
<1> QED BY <1>3, <1>4 DEF ProvInv

\* A step that leaves calls, sessions and the owner alone.
LEMMA DeviceStep ==
  ASSUME ProvInv, UNCHANGED <<call, sess>>, dev' \in Device, dev'.user = dev.user
  PROVE  ProvInv'
<1>1. TypeOK'
  BY Zenon DEF ProvInv, TypeOK
<1> QED BY <1>1 DEF ProvInv

\* A start of the device.
LEMMA StartedStep ==
  ASSUME ProvInv, Started, dev' \in Device
  PROVE  ProvInv'
<1>1. /\ call \in [Clients -> CallRec] /\ sess \in [Clients -> SessRec]
      /\ \A d \in Clients : Sound(d, call[d], sess[d], dev.user)
  BY TypeIs DEF ProvInv
<1>2. ASSUME NEW c \in Clients
      PROVE  /\ call'[c] \in CallRec
             /\ call'[c].op = call[c].op /\ call'[c].leg = call[c].leg
             /\ call'[c].outcome = call[c].outcome
             /\ call'[c].did = IF call[c].did = "now" THEN "before" ELSE call[c].did
  <2>1. call[c] \in CallRec
    BY <1>1
  <2>2. call'[c] = [call[c] EXCEPT !.did = IF @ = "now" THEN "before" ELSE @]
    BY DEF Started
  <2> QED BY <2>1, <2>2 DEF CallRec
<1>3. ASSUME NEW c \in Clients
      PROVE  /\ sess'[c] \in SessRec
             /\ sess'[c].cred = sess[c].cred /\ sess'[c].wiped = sess[c].wiped
             /\ sess[c].tok = NoToks => sess'[c].tok = NoToks
  <2> DEFINE tok == [s \in Scopes |-> IF sess[c].tok[s] = "live" THEN "stale"
                                      ELSE sess[c].tok[s]]
  <2>1. sess[c] \in SessRec
    BY <1>1
  <2>2. sess'[c] = [sess[c] EXCEPT !.tok = tok]
    BY DEF Started
  <2>3. tok \in [Scopes -> {"none", "live", "stale"}]
    BY <2>1 DEF SessRec
  <2>4. sess[c].tok = NoToks => tok = NoToks
    BY DEF NoToks
  <2> HIDE DEF tok
  <2> QED BY <2>1, <2>2, <2>3, <2>4 DEF SessRec
<1>4. call' \in [Clients -> CallRec] /\ sess' \in [Clients -> SessRec]
  BY <1>2, <1>3 DEF Started
<1>5. TypeOK'
  BY <1>4 DEF TypeOK, CallRec, SessRec
<1>6. ASSUME NEW c \in Clients
      PROVE  Sound(c, call'[c], sess'[c], dev'.user)
  <2>1. Sound(c, call[c], sess[c], dev.user)
    BY <1>1
  <2> QED BY <1>2, <1>3, <2>1 DEF Sound
<1> QED BY <1>5, <1>6 DEF ProvInv

\* The first leg of an operation is one it goes through.
LEMMA FirstLeg ==
  ASSUME NEW op \in Ops
  PROVE  <<op, Legs[op][1]>> \in Going /\ Legs[op][1] \in LegNames /\ op \in DOMAIN Legs
  BY DEF Ops, Legs, Going, LegNames

\* What an operation goes through are its legs.
LEMMA GoingLegs ==
  ASSUME NEW op, NEW leg, <<op, leg>> \in Going
  PROVE  op \in Ops /\ leg \in LegNames
  BY DEF Going, Ops, Legs, LegNames

\* A session with the type of one, and what it is when nothing is left in it.
LEMMA SessionTypes ==
  /\ NoToks \in [Scopes -> {"none", "live", "stale"}]
  /\ NoSession \in SessRec
  /\ \A c \in Clients : /\ Seeded(c) \in SessRec /\ Seeded(c).cred = c
                        /\ Seeded(c).tok["config"] = "live" /\ ~Seeded(c).wiped
  /\ \A c \in Clients : LoggedIn(c) \in SessRec /\ ~LoggedIn(c).wiped
  BY DEF NoToks, NoSession, SessRec, Seeded, LoggedIn, Scopes

\* Sessions only ever change through a token dropped or obtained, a new login,
\* or the end of the session.
LEMMA AfterSound ==
  ASSUME ProvInv, NEW c \in Clients, NEW leg, NEW s \in SessRec,
         s.wiped => s.tok = NoToks /\ s.cred = Nobody
  PROVE  /\ After(c, leg, s) \in SessRec
         /\ After(c, leg, s).wiped => After(c, leg, s).tok = NoToks
                                      /\ After(c, leg, s).cred = Nobody
  BY SessionTypes DEF After, AfterWipe, SessRec, NoSession

\* A session that acquires a token for a leg is of its type and not wiped.
LEMMA WithTokenSound ==
  ASSUME ProvInv, NEW c \in Clients, Authorised(c), call[c].leg \in LegNames
  PROVE  WithToken(c) \in SessRec /\ ~WithToken(c).wiped
<1>1. sess[c] \in SessRec /\ Sound(c, call[c], sess[c], dev.user)
  BY TypeIs DEF ProvInv
<1>2. ScopeOf(call[c].leg) \in Scopes
  BY DEF ScopeOf, Scopes
<1>3. ~sess[c].wiped
  BY <1>1, <1>2 DEF Sound, Authorised, TokenLive, CanLogin, NoToks
<1>4. CASE TokenLive(c)
  BY <1>1, <1>3, <1>4 DEF WithToken
<1>5. CASE ~TokenLive(c)
  BY <1>1, <1>2, <1>3, <1>5 DEF WithToken, SessRec
<1> QED BY <1>4, <1>5

\* The end of a call whose leg the device did not execute.
LEMMA EndedSound ==
  ASSUME ProvInv, NEW c \in Clients, call[c].leg # "ret", NEW o \in Outcomes,
         NEW s, NEW u, s.wiped => s.tok = NoToks /\ s.cred = Nobody,
         o = "OK" => call[c].op \notin {"init", "install", "recover"}
  PROVE  Ended(c, o) \in CallRec /\ Sound(c, Ended(c, o), s, u)
<1>1. call[c] \in CallRec /\ Sound(c, call[c], sess[c], dev.user)
  BY TypeIs DEF ProvInv
<1>2. /\ Ended(c, o).leg = "ret" /\ Ended(c, o).outcome = o /\ Ended(c, o).did = "no"
      /\ Ended(c, o).op = call[c].op /\ Ended(c, o) \in CallRec
  BY <1>1 DEF Ended, CallRec, Sound, Bundles
<1> QED BY <1>2 DEF Sound

\* A call starts in its first leg, without effect.
LEMMA StartStep ==
  ASSUME ProvInv, NEW c \in Clients, NEW op \in Ops, Start(c, op)
  PROVE  ProvInv'
<1> DEFINE r == [NoCall EXCEPT !.op = op, !.leg = Legs[op][1],
                               !.bundle = IF op = "install" THEN "own" ELSE "none"]
<1>1. /\ r \in CallRec /\ r.op = op /\ r.leg = Legs[op][1] /\ r.did = "no"
      /\ r.leg # "ret"
  BY FirstLeg DEF NoCall, CallRec, Outcomes, Bundles, LegNames
<1>2. sess[c] \in SessRec /\ Sound(c, call[c], sess[c], dev.user) /\ dev \in Device
  BY TypeIs DEF ProvInv
<1>3. call' = [call EXCEPT ![c] = r] /\ dev' = dev /\ sess' = sess
  BY DEF Start
<1>4. Sound(c, r, sess[c], dev'.user)
  BY <1>1, <1>2, FirstLeg DEF Sound
<1>5. sess' = [sess EXCEPT ![c] = sess[c]]
  BY <1>3, TypeIs DEF ProvInv
<1> HIDE DEF r
<1> QED BY <1>1, <1>2, <1>3, <1>4, <1>5, ClientStep

\* The caller takes the result of a call.
LEMMA CollectStep ==
  ASSUME ProvInv, NEW c \in Clients, Collect(c)
  PROVE  ProvInv'
<1>1. /\ NoCall \in CallRec /\ NoCall.leg = "ret" /\ NoCall.did = "no"
      /\ NoCall.op = "none" /\ NoCall.outcome = "OK"
  BY DEF NoCall, CallRec, Outcomes, Bundles, Legs
<1>2. sess[c] \in SessRec /\ Sound(c, call[c], sess[c], dev.user) /\ dev \in Device
  BY TypeIs DEF ProvInv
<1>3. call' = [call EXCEPT ![c] = NoCall] /\ dev' = dev /\ sess' = sess
  BY DEF Collect
<1>4. Sound(c, NoCall, sess[c], dev'.user)
  BY <1>1, <1>2 DEF Sound
<1>5. sess' = [sess EXCEPT ![c] = sess[c]]
  BY <1>3, TypeIs DEF ProvInv
<1> QED BY <1>1, <1>2, <1>3, <1>4, <1>5, ClientStep

\* A login replaces the session of its client.
LEMMA LoginStep ==
  ASSUME ProvInv, NEW c \in Clients, NEW who \in Clients, Login(c, who)
  PROVE  ProvInv'
<1> DEFINE s == LoggedIn(who)
<1>1. s \in SessRec /\ ~s.wiped
  BY SessionTypes
<1>2. call[c] \in CallRec /\ Sound(c, call[c], sess[c], dev.user) /\ dev \in Device
  BY TypeIs DEF ProvInv
<1>3. sess' = [sess EXCEPT ![c] = s] /\ dev' = dev /\ call' = call /\ call[c].op = "none"
  BY DEF Login
<1>4. call' = [call EXCEPT ![c] = call[c]]
  BY <1>3, TypeIs DEF ProvInv
<1> HIDE DEF s
<1>5. Sound(c, call[c], s, dev'.user)
  BY <1>1, <1>2, <1>3 DEF Sound
<1> QED BY <1>1, <1>2, <1>3, <1>4, <1>5, ClientStep

\* A path that failed before the device acted, however the call reads its code.
LEMMA LegFailsStep ==
  ASSUME ProvInv, NEW c \in Clients, LegFails(c)
  PROVE  ProvInv'
<1>1. /\ call[c] \in CallRec /\ sess[c] \in SessRec /\ dev \in Device
      /\ Sound(c, call[c], sess[c], dev.user)
      /\ sess \in [Clients -> SessRec]
  BY TypeIs DEF ProvInv
<1>2. /\ call[c].leg # "ret" /\ dev' = dev
      /\ <<call[c].op, call[c].leg>> \in Going /\ call[c].leg \in LegNames
  BY <1>1, GoingLegs DEF LegFails, At, Sound
<1> DEFINE scoped == call[c].leg \notin {"challenge", "commit", "register"}
           failures == IF scoped THEN PathFailures
                       ELSE Unsent
           dropped == [sess EXCEPT ![c].tok[ScopeOf(call[c].leg)] = "none"]
<1>3. PICK o \in {Outcome(Explained(call[c].leg, f)) : f \in failures} :
        /\ call' = [call EXCEPT ![c] = Ended(c, o)]
        /\ IF o = "OK" THEN sess' = [sess EXCEPT ![c] = After(c, call[c].leg, @)]
           ELSE sess' \in {sess} \union IF scoped THEN {dropped} ELSE {}
  BY Zenon DEF LegFails
<1>4. sess' = [sess EXCEPT ![c] = After(c, call[c].leg, sess[c])] \/ sess' = sess
       \/ sess' = dropped
  <2>1. sess' \in ({sess} \union IF scoped THEN {dropped} ELSE {})
          => sess' = sess \/ sess' = dropped
    <3> HIDE DEF dropped, scoped
    <3> QED OBVIOUS
  <2> QED BY <1>3, <2>1, Zenon
<1>5. PICK f \in PathFailures \union Unsent :
         o = Outcome(Explained(call[c].leg, f))
  <2>1. PICK f \in failures : o = Outcome(Explained(call[c].leg, f))
    BY <1>3, Zenon
  <2>2. f \in PathFailures \union Unsent
    BY <2>1
  <2> QED BY <2>1, <2>2, Zenon
<1>6. o \in Outcomes
  BY <1>2, <1>5, FailedCodes
<1>7. o = "OK" => call[c].op \notin {"init", "install", "recover"}
  BY <1>2, <1>5, FailedCodes DEF Going, Raw
<1>8. \E s \in SessRec : /\ sess' = [sess EXCEPT ![c] = s]
                         /\ s.wiped => s.tok = NoToks /\ s.cred = Nobody
  <2>1. CASE sess' = [sess EXCEPT ![c] = After(c, call[c].leg, sess[c])]
    BY <1>1, <2>1, AfterSound DEF Sound
  <2>2. CASE sess' = sess
    <3>1. sess' = [sess EXCEPT ![c] = sess[c]]
      BY <1>1, <2>2
    <3> QED BY <1>1, <3>1 DEF Sound
  <2>3. CASE sess' = [sess EXCEPT ![c].tok[ScopeOf(call[c].leg)] = "none"]
    <3> DEFINE s == [sess[c] EXCEPT !.tok[ScopeOf(call[c].leg)] = "none"]
    <3>1. sess' = [sess EXCEPT ![c] = s]
      BY <2>3
    <3>2. s \in SessRec
      BY <1>1 DEF SessRec
    <3>3. s.wiped => s.tok = NoToks /\ s.cred = Nobody
      BY <1>1 DEF Sound, SessRec, NoToks
    <3> QED BY <3>1, <3>2, <3>3
  <2> QED BY <1>4, <2>1, <2>2, <2>3
<1>9. PICK s \in SessRec : /\ sess' = [sess EXCEPT ![c] = s]
                           /\ s.wiped => s.tok = NoToks /\ s.cred = Nobody
  BY <1>8
<1>10. Ended(c, o) \in CallRec /\ Sound(c, Ended(c, o), s, dev'.user)
  BY <1>2, <1>6, <1>7, <1>9, EndedSound
<1> QED BY <1>1, <1>2, <1>3, <1>9, <1>10, ClientStep

\* A refusal ends a call that had no effect.
LEMMA LegRefusedStep ==
  ASSUME ProvInv, NEW c \in Clients, LegRefused(c)
  PROVE  ProvInv'
<1>1. /\ call[c] \in CallRec /\ sess[c] \in SessRec /\ dev \in Device
      /\ Sound(c, call[c], sess[c], dev.user)
      /\ sess \in [Clients -> SessRec]
  BY TypeIs DEF ProvInv
<1>2. /\ call[c].leg # "ret" /\ dev' = dev
      /\ <<call[c].op, call[c].leg>> \in Going /\ call[c].leg \in LegNames
  BY <1>1, GoingLegs DEF LegRefused, At, Sound
<1> DEFINE init == call[c].leg \in {"challenge", "commit"}
           statuses == IF init THEN InitRefusals(call[c].leg) ELSE ConfigRefusals
<1>3. PICK o \in {Outcome(Explained(call[c].leg, Answer(MapStatus(st), st))) : st \in statuses} :
        call' = [call EXCEPT ![c] = Ended(c, o)]
  BY Zenon DEF LegRefused
<1>4. o \in Outcomes \ {"OK"}
  <2>1. PICK st \in statuses : o = Outcome(Explained(call[c].leg, Answer(MapStatus(st), st)))
    BY <1>3, Zenon
  <2>2. statuses \subseteq {400, 401, 403, 406, 409, 500}
    BY DEF InitRefusals, ConfigRefusals
  <2> QED BY <1>2, <2>1, <2>2, RefusedCodes
<1>5. \E s \in SessRec : /\ sess' = [sess EXCEPT ![c] = s]
                         /\ s.wiped => s.tok = NoToks /\ s.cred = Nobody
  <2>1. CASE init
    <3>1. sess' = [sess EXCEPT ![c] = sess[c]]
      BY <1>1, <2>1 DEF LegRefused
    <3> QED BY <1>1, <3>1 DEF Sound
  <2>2. CASE ~init
    <3>1. Authorised(c) /\ sess' = [sess EXCEPT ![c] = WithToken(c)]
      BY <2>2 DEF LegRefused
    <3>2. WithToken(c) \in SessRec /\ ~WithToken(c).wiped
      BY <1>2, <3>1, WithTokenSound
    <3> QED BY <3>1, <3>2
  <2> QED BY <2>1, <2>2
<1>6. PICK s \in SessRec : /\ sess' = [sess EXCEPT ![c] = s]
                           /\ s.wiped => s.tok = NoToks /\ s.cred = Nobody
  BY <1>5
<1>7. Ended(c, o) \in CallRec /\ Sound(c, Ended(c, o), s, dev'.user)
  BY <1>2, <1>4, <1>6, EndedSound
<1> QED BY <1>1, <1>2, <1>3, <1>6, <1>7, ClientStep

\* A leg the device executed.
LEMMA DoneStep ==
  ASSUME ProvInv, NEW c \in Clients, NEW leg \in LegNames \ {"register"},
         call[c].leg = leg, NEW body \in Replied, NEW s \in SessRec,
         s.wiped => s.tok = NoToks /\ s.cred = Nobody,
         leg = "commit" => dev.user = Nobody, Done(c, leg, body, s)
  PROVE  ProvInv'
<1> DEFINE a == Explained(leg, Arrived(leg, body))
           next == IF a.code = "OK" THEN Onward(c) ELSE Ended(c, Outcome(a))
           r == [next EXCEPT !.did = IF leg \in Effective THEN "now" ELSE @]
<1>1. /\ call[c] \in CallRec /\ dev \in Device /\ Sound(c, call[c], sess[c], dev.user)
  BY TypeIs DEF ProvInv
<1>2. /\ <<call[c].op, leg>> \in Going /\ call[c].op \in Ops /\ call[c].did = "no"
      /\ leg # "ret"
  BY <1>1, GoingLegs DEF Sound, LegNames
<1>3. Outcome(a) \in {"OK", "open"}
  BY ExecutedCodes
<1>4. /\ dev' = Act(leg, c) /\ call' = [call EXCEPT ![c] = r]
      /\ \E t \in Afterwards(c, leg, a, s) : sess' = [sess EXCEPT ![c] = t]
  BY Zenon DEF Done
<1>4a. PICK t \in Afterwards(c, leg, a, s) : sess' = [sess EXCEPT ![c] = t]
  BY <1>4
<1>5. /\ dev' \in Device
      /\ dev'.user = dev.user \/ dev.user = Nobody
      /\ leg = "commit" => dev'.user = c
  BY <1>1, <1>4 DEF Act, Device
<1> HIDE DEF a
<1>6. /\ t \in SessRec /\ (t.wiped => t.tok = NoToks /\ t.cred = Nobody)
      /\ leg = "commit" /\ a.code = "OK" => t.cred = c /\ t.tok["config"] = "live"
  <2>1. CASE a.code # "OK"
    <3>1. t = s \/ t = LoggedIn(c) \/ t = Seeded(c)
      BY <1>4a, <2>1 DEF Afterwards
    <3> QED BY <2>1, <3>1, SessionTypes
  <2>2. CASE a.code = "OK" /\ leg = "commit"
    <3>1. t = Seeded(c)
      BY <1>4a, <2>2 DEF Afterwards
    <3> QED BY <2>2, <3>1, SessionTypes
  <2>3. CASE a.code = "OK" /\ leg # "commit"
    <3>1. t = After(c, leg, s)
      BY <1>4a, <2>3 DEF Afterwards
    <3> QED BY <2>3, <3>1, AfterSound
  <2> QED BY <2>1, <2>2, <2>3
<1>7. r \in CallRec /\ Sound(c, r, t, dev'.user)
  <2>1. CASE a.code # "OK"
    <3>1. Outcome(a) = "open"
      BY <1>3, <2>1 DEF Outcome
    <3>2. /\ r \in CallRec /\ r.leg = "ret" /\ r.outcome = "open" /\ r.op = call[c].op
      BY <1>1, <2>1, <3>1 DEF Ended, CallRec, Outcomes, Bundles
    <3> HIDE DEF r
    <3> QED BY <1>2, <1>3, <1>6, <2>1, <3>2 DEF Sound, Ops
  <2>2. CASE a.code = "OK" /\ leg \in {"challenge", "attest"}
    <3>1. next = [call[c] EXCEPT !.leg = IF leg = "challenge" THEN "commit" ELSE "register"]
      BY <1>2, <2>2, OnwardIs
    <3>2. /\ r \in CallRec /\ r.op = call[c].op /\ r.did = "no"
          /\ r.leg = IF leg = "challenge" THEN "commit" ELSE "register"
      BY <1>1, <1>2, <2>2, <3>1 DEF CallRec, Effective, LegNames
    <3>3. <<r.op, r.leg>> \in Going
      BY <1>2, <2>2, <3>2 DEF Going
    <3> HIDE DEF r
    <3> QED BY <1>6, <2>2, <3>2, <3>3 DEF Sound
  <2>3. CASE a.code = "OK" /\ leg \notin {"challenge", "attest"}
    <3>1. next = Ended(c, "OK")
      BY <1>2, <2>3, OnwardIs
    <3>2. leg \in Effective
      BY <2>3 DEF Effective, LegNames
    <3>3. /\ r \in CallRec /\ r.leg = "ret" /\ r.outcome = "OK" /\ r.op = call[c].op
          /\ r.did = "now"
      BY <1>1, <3>1, <3>2 DEF Ended, CallRec, Outcomes, Bundles
    <3>4. r.op = "init" => leg = "commit"
      BY <1>2, <2>3, <3>3 DEF Going
    <3> HIDE DEF r
    <3> QED BY <1>2, <1>5, <1>6, <2>3, <3>3, <3>4 DEF Sound, Ops
  <2> QED BY <2>1, <2>2, <2>3
<1> HIDE DEF r
<1> QED BY <1>4, <1>4a, <1>5, <1>6, <1>7, ClientStep

\* A leg of ehem_device_init the device acts on, its reply lost or not.
LEMMA InitLegStep ==
  ASSUME ProvInv, NEW c \in Clients, InitLeg(c)
  PROVE  ProvInv'
<1>1. sess[c] \in SessRec /\ Sound(c, call[c], sess[c], dev.user)
  BY TypeIs DEF ProvInv
<1>2. PICK body \in Replied : Done(c, call[c].leg, body, sess[c])
  BY DEF InitLeg
<1>3. call[c].leg \in LegNames \ {"register"} /\ dev.user = Nobody
  BY DEF InitLeg, LegStarts, At, LegNames, Personalises
<1>4. sess[c].wiped => sess[c].tok = NoToks /\ sess[c].cred = Nobody
  BY <1>1 DEF Sound
<1> QED BY <1>1, <1>2, <1>3, <1>4, DoneStep

\* A leg with a token the device acts on, its reply lost or not.
LEMMA ScopedLegStep ==
  ASSUME ProvInv, NEW c \in Clients, ScopedLeg(c)
  PROVE  ProvInv'
<1>1. Authorised(c)
  BY DEF ScopedLeg
<1>2. PICK body \in Replied : Done(c, call[c].leg, body, WithToken(c))
  BY DEF ScopedLeg
<1>3. call[c].leg \in LegNames \ {"register"} /\ call[c].leg # "commit"
  BY DEF ScopedLeg, LegStarts, At, LegNames
<1>4. WithToken(c) \in SessRec /\ ~WithToken(c).wiped
  BY <1>1, <1>3, WithTokenSound
<1> QED BY <1>2, <1>3, <1>4, DoneStep

\* The leg of ehem_tls_recover to the cloud has no effect on the device.
LEMMA RegisterLegStep ==
  ASSUME ProvInv, NEW c \in Clients, RegisterLeg(c)
  PROVE  ProvInv'
<1>1. /\ call[c] \in CallRec /\ sess[c] \in SessRec /\ dev \in Device
      /\ Sound(c, call[c], sess[c], dev.user)
      /\ sess \in [Clients -> SessRec] /\ call \in [Clients -> CallRec]
  BY TypeIs DEF ProvInv
<1>2. call[c].leg = "register" /\ sess' = sess /\ dev' = dev
  BY DEF RegisterLeg, LegStarts, At
<1>3. /\ sess' = [sess EXCEPT ![c] = sess[c]]
      /\ sess[c].wiped => sess[c].tok = NoToks /\ sess[c].cred = Nobody
  BY <1>1, <1>2 DEF Sound
<1>4. CASE \E o \in {"refused", "open"} : call' = [call EXCEPT ![c] = Ended(c, o)]
  <2>1. PICK o \in {"refused", "open"} : call' = [call EXCEPT ![c] = Ended(c, o)]
    BY <1>4
  <2>2. Ended(c, o) \in CallRec /\ Sound(c, Ended(c, o), sess[c], dev'.user)
    BY <1>2, <1>3, EndedSound DEF Outcomes
  <2> QED BY <1>1, <1>2, <1>3, <2>1, <2>2, ClientStep
<1>5. CASE call' = [call EXCEPT ![c].bundle = "issued", ![c].leg = "install"]
  <2> DEFINE r == [call[c] EXCEPT !.bundle = "issued", !.leg = "install"]
  <2>1. call' = [call EXCEPT ![c] = r]
    BY <1>1, <1>5
  <2>2. /\ r \in CallRec /\ r.leg = "install" /\ r.op = call[c].op /\ r.did = call[c].did
    BY <1>1 DEF CallRec, LegNames, Bundles
  <2>3. call[c].op = "recover" /\ call[c].did = "no"
    BY <1>1, <1>2 DEF Sound, Going
  <2>4. Sound(c, r, sess[c], dev'.user)
    <3> HIDE DEF r
    <3> QED BY <1>3, <2>2, <2>3 DEF Sound, Going
  <2> HIDE DEF r
  <2> QED BY <1>1, <1>2, <1>3, <2>1, <2>2, <2>4, ClientStep
<1> QED BY <1>4, <1>5 DEF RegisterLeg, Usable

\* A step of the device that leaves its owner alone, and a start of it.
LEMMA DeviceSteps ==
  ASSUME ProvInv
  PROVE  /\ CheckIn \/ PowerOff \/ (\E c \in Clients : AutoCheckin(c)) => ProvInv'
         /\ Restart \/ Wipe \/ PowerOn => ProvInv'
<1>1. dev \in Device
  BY DEF ProvInv, TypeOK
<1>2. ASSUME CheckIn \/ PowerOff \/ (\E c \in Clients : AutoCheckin(c))
      PROVE  ProvInv'
  <2>1. /\ UNCHANGED <<call, sess>>
        /\ \/ \E kept \in BOOLEAN : dev' = CheckedIn(kept)
           \/ dev' = [dev EXCEPT !.pending = "none", !.up = FALSE]
    BY <1>2 DEF CheckIn, PowerOff, AutoCheckin
  <2>2. \A kept \in BOOLEAN : (dev.expired /\ kept) \in BOOLEAN
    BY <1>1 DEF Device
  <2>3. dev' \in Device /\ dev'.user = dev.user
    BY <1>1, <2>1, <2>2 DEF Device, CheckedIn
  <2> QED BY <2>1, <2>3, DeviceStep
<1>3. ASSUME Restart \/ Wipe \/ PowerOn
      PROVE  ProvInv'
  <2>1. dev' \in Device
    <3>1. CASE Restart \/ Wipe
      BY <1>1, <3>1 DEF Restart, Wipe, Device
    <3>2. CASE PowerOn
      <4>1. PICK rtc \in {dev.rtc, FALSE} : dev' = [dev EXCEPT !.up = TRUE, !.rtc = rtc]
        BY <3>2 DEF PowerOn
      <4>2. rtc \in BOOLEAN
        BY <1>1 DEF Device
      <4> QED BY <1>1, <4>1, <4>2 DEF Device
    <3> QED BY <1>3, <3>1, <3>2
  <2>2. Started
    BY <1>3 DEF Restart, Wipe, PowerOn
  <2> QED BY <2>1, <2>2, StartedStep
<1> QED BY <1>2, <1>3

-----------------------------------------------------------------------------
(* Results                                                                 *)

\* A new device and clients without sessions.
LEMMA ProvInit == Init => ProvInv
<1> SUFFICES ASSUME Init PROVE ProvInv
  OBVIOUS
<1>1. NoCall \in CallRec /\ NoCall.leg = "ret" /\ NoCall.did = "no" /\ NoCall.op = "none"
  BY DEF NoCall, CallRec, Outcomes, Bundles, Legs
<1>2. NoSession \in SessRec /\ ~NoSession.wiped
  BY SessionTypes DEF NoSession
<1>3. dev \in Device
  BY DEF Init, Device
<1>4. call \in [Clients -> CallRec] /\ sess \in [Clients -> SessRec]
      /\ \A c \in Clients : call[c] = NoCall /\ sess[c] = NoSession
  BY <1>1, <1>2 DEF Init
<1>5. \A c \in Clients : Sound(c, call[c], sess[c], dev.user)
  BY <1>1, <1>2, <1>4 DEF Sound
<1> QED BY <1>3, <1>4, <1>5, TypeIs DEF ProvInv

\* Every step of the clients and of the device keeps the invariant.
LEMMA ProvNext == ProvInv /\ [Next]_vars => ProvInv'
<1> SUFFICES ASSUME ProvInv, [Next]_vars PROVE ProvInv'
  OBVIOUS
<1>1. ASSUME NEW c \in Clients, NEW op \in Ops, Start(c, op) PROVE ProvInv'
  BY <1>1, StartStep
<1>2. ASSUME NEW c \in Clients, NEW who \in Clients, Login(c, who) PROVE ProvInv'
  BY <1>2, LoginStep
<1>3. ASSUME NEW c \in Clients, Collect(c) PROVE ProvInv'
  BY <1>3, CollectStep
<1>4. ASSUME NEW c \in Clients, LegFails(c) PROVE ProvInv'
  BY <1>4, LegFailsStep
<1>5. ASSUME NEW c \in Clients, LegRefused(c) PROVE ProvInv'
  BY <1>5, LegRefusedStep
<1>6. ASSUME NEW c \in Clients, InitLeg(c) PROVE ProvInv'
  BY <1>6, InitLegStep
<1>7. ASSUME NEW c \in Clients, ScopedLeg(c) PROVE ProvInv'
  BY <1>7, ScopedLegStep
<1>8. ASSUME NEW c \in Clients, RegisterLeg(c) PROVE ProvInv'
  BY <1>8, RegisterLegStep
<1>9. ASSUME NEW c \in Clients, AutoCheckin(c) PROVE ProvInv'
  BY <1>9, DeviceSteps
<1>10. CASE Restart \/ Wipe \/ PowerOff \/ PowerOn \/ CheckIn
  BY <1>10, DeviceSteps
<1>11. CASE UNCHANGED vars
  BY <1>11 DEF vars, ProvInv, TypeOK
<1> QED
  BY <1>1, <1>2, <1>3, <1>4, <1>5, <1>6, <1>7, <1>8, <1>9, <1>10, <1>11
  DEF Next, Exchange

\* A call is always in a leg of its operation and has no effect before the last
\* one, and the three properties below hold of each client.
THEOREM ProvisioningInvariant == Spec => []ProvInv
  BY ProvInit, ProvNext, PTL DEF Spec

\* The device, the calls of the clients and their sessions keep their types.
THEOREM ProvisioningTypes == Spec => []TypeOK
<1>1. ProvInv => TypeOK
  BY DEF ProvInv
<1> QED BY <1>1, ProvisioningInvariant, PTL

\* Whatever the path, the device and other clients do, a code that names a
\* refusal means that the device did not do what the call asked for, and an
\* installation reported as done was done (ehem_device_init,
\* ehem_system_config_install_cert, ehem_tls_recover and the maintenance calls).
THEOREM CodesAreHonest == Spec => []CodesHonest
<1>1. ProvInv => CodesHonest
  BY DEF ProvInv, Sound, CodesHonest, Returned, Succeeded
<1> QED BY <1>1, ProvisioningInvariant, PTL

\* ehem_device_init succeeds only for the client whose passphrase the device
\* took, and leaves its context with that session and a live configuration token.
THEOREM InitIsOwned == Spec => []InitOwns
<1>1. ProvInv => InitOwns
  BY DEF ProvInv, Sound, InitOwns, Returned, Succeeded
<1> QED BY <1>1, ProvisioningInvariant, PTL

\* After a wipe the context that asked for it holds neither token nor passphrase.
THEOREM WipedSessionIsOver == Spec => []WipedSessionEnds
<1>1. ProvInv => WipedSessionEnds
  BY DEF ProvInv, Sound, WipedSessionEnds
<1> QED BY <1>1, ProvisioningInvariant, PTL
=============================================================================
