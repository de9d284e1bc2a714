----------------------------- MODULE Transport ------------------------------
(***************************************************************************)
(* The built-in transport: one libcurl handle per context, reused for      *)
(* every request of the context, be it to the device, to the provisioning  *)
(* cloud or to the broker.  libcurl keeps every option until it is set     *)
(* again, so a send has to undo what the one before it left behind.        *)
(*                                                                         *)
(* A transfer is several steps: options, connection, request on the wire,  *)
(* body chunks through write_cb with its growing buffer, end.  size_t      *)
(* arithmetic wraps round, and realloc refuses more than PTRDIFF_MAX.      *)
(***************************************************************************)
EXTENDS Integers, Sequences

CONSTANTS
  PtrdiffMax,  \* PTRDIFF_MAX; SIZE_MAX is twice as much and one
  FirstCap,    \* first capacity of a body buffer (1024 in the code)
  ChunkMax     \* most bytes libcurl hands to write_cb at once

SizeMax == 2 * PtrdiffMax + 1
SizeT(n) == n % (SizeMax + 1)

\* A chunk is far smaller than what size_t can count
ASSUME TransportAssumption ==
  /\ PtrdiffMax \in Nat /\ FirstCap \in 1..PtrdiffMax
  /\ ChunkMax \in Nat \ {0} /\ 2 * ChunkMax <= PtrdiffMax + 1

Methods == {"GET", "POST", "PUT", "DELETE", "PATCH"}
Overrides == {"default", "relax", "verify"}
Modes == {"system", "insecure", "ca_file"}
\* body: "none" is a NULL pointer
Requests ==
  [method : Methods, body : {"none", "bytes"}, override : Overrides]
NoRequest == [method |-> "GET", body |-> "none", override |-> "default"]

VARIABLES
  mode,      \* TLS mode of the context
  opts,      \* options the handle holds
  req, n,    \* the request, and how many sends there were, modulo 2
  pc, got,   \* place in curl_send; the peer has received the request
  wire,      \* what went out: verb, body, verification, trust
  buf,       \* the body buffer
  add, newcap, \* write_cb: bytes of this chunk, capacity to ask for
  peer,      \* bytes the peer has sent, what is wrong with its certificate
  res        \* result of the send

vars == <<mode, opts, req, n, pc, got, wire, buf, add, newcap, peer, res>>

NoWire == [verb |-> "none", body |-> <<"none", 0>>, verified |-> FALSE,
           trust |-> "none"]
NoBuf == [cap |-> 0, data |-> <<>>]
NoPeer == [sent |-> 0, cert |-> "fine"]
NoRes == [rc |-> "OK", expired |-> FALSE, body |-> <<>>]

PCs == {"idle", "connect", "exchange", "grow", "ret"}

Certs == {"fine", "expired", "notyet", "other"}
Bodies == {"none", "bytes"} \X (0..1)

TypeOK ==
  /\ mode \in Modes /\ req \in Requests /\ n \in 0..1
  /\ pc \in PCs /\ got \in BOOLEAN
  /\ opts \in [custom : {"none"} \union Methods, base : {"GET", "POST"},
               fields : Bodies, verify : BOOLEAN, ca : {"system", "pinned"}]
  /\ wire \in [verb : {"none"} \union Methods, body : Bodies, verified : BOOLEAN,
               trust : {"none", "system", "pinned"}]
  /\ buf \in [cap : 0..SizeMax, data : Seq(Nat)] /\ newcap \in 0..SizeMax
  /\ add \in 0..ChunkMax /\ peer \in [sent : Nat, cert : Certs]
  /\ res \in [rc : {"OK", "NETWORK", "UNREACHABLE", "NOMEM", "ARG"},
              expired : BOOLEAN, body : Seq(Nat)]

\* A handle as ehem_transport_default_new leaves it: libcurl's own defaults
Init ==
  /\ mode \in Modes
  /\ opts = [custom |-> "none", base |-> "GET", fields |-> <<"none", 0>>,
             verify |-> TRUE, ca |-> "system"]
  /\ req = NoRequest /\ n = 0 /\ pc = "idle" /\ got = FALSE /\ wire = NoWire
  /\ buf = NoBuf /\ add = 0 /\ newcap = 0 /\ peer = NoPeer /\ res = NoRes

-----------------------------------------------------------------------------
(* Options                                                                 *)

\* libcurl: CURLOPT_POSTFIELDS selects POST, CURLOPT_HTTPGET selects GET
WithFields(o, body) == [o EXCEPT !.base = "POST", !.fields = body]
Get(o) == [o EXCEPT !.base = "GET"]

ResetMethod_KeepsCustom(o) == Get(o)
\* A clean GET baseline
ResetMethod(o) == [Get(o) EXCEPT !.custom = "none"]

\* A POST always has a body, possibly an empty one
ApplyMethod(o, r, id) ==
  IF r.method = "GET" THEN o
  ELSE IF r.method = "POST" THEN WithFields(o, <<r.body, id>>)
  ELSE LET c == [o EXCEPT !.custom = r.method]
       IN IF r.body = "none" THEN c ELSE WithFields(c, <<r.body, id>>)

Relaxed(r) == r.override = "relax" \/ (r.override = "default" /\ mode = "insecure")

\* The pinned certificate is for the device alone
ApplyTlsVerify(o, r) ==
  [o EXCEPT !.verify = ~Relaxed(r),
            !.ca = IF mode # "ca_file" THEN @
                   ELSE IF r.override = "default" THEN "pinned" ELSE "system"]

ClearedFlag_Kept == res.expired
\* A send starts without the verdict of the one before it
ClearedFlag == FALSE

\* curl_send up to curl_easy_perform; no memory for the URL or the headers
Send(r) ==
  /\ pc = "idle"
  /\ req' = r /\ n' = 1 - n /\ got' = FALSE /\ wire' = NoWire
  /\ buf' = NoBuf /\ add' = 0 /\ newcap' = 0
  /\ \E cert \in Certs :
       peer' = [NoPeer EXCEPT !.cert = cert]
  /\ \/ /\ pc' = "connect"
        /\ opts' = ApplyTlsVerify(ApplyMethod(ResetMethod(opts), r, 1 - n), r)
        /\ res' = [NoRes EXCEPT !.expired = ClearedFlag]
     \/ /\ pc' = "ret" /\ UNCHANGED opts
        /\ res' = [NoRes EXCEPT !.rc = "NOMEM", !.expired = ClearedFlag]
  /\ UNCHANGED mode

-----------------------------------------------------------------------------
(* Codes                                                                   *)

\* ehem_curl_map_error: libcurl has one code for both timeouts.  The code for a
\* peer whose reply makes no sense is an enumerator, which the preprocessor does
\* not see, so it falls among the others
MapError(cc, connected) ==
  IF cc \in {"resolve", "connect"} \/ (cc = "timeout" /\ ~connected)
  THEN "UNREACHABLE"
  ELSE IF cc = "memory" THEN "NOMEM"
  ELSE IF cc = "url" THEN "ARG"
  ELSE "NETWORK"

\* How the TLS libraries report what is wrong with a certificate: the verify
\* result and the text.  A handshake may break off for other reasons too
Reports(cert) ==
  CASE cert = "expired" -> {<<10, "expired">>, <<-151, "after">>, <<0, "expired">>}
    [] cert = "notyet"  -> {<<9, "notyet">>, <<9, "expired">>, <<-150, "before">>,
                            <<0, "notyet">>}
    [] cert = "other"   -> {<<18, "other">>, <<0, "other">>, <<-188, "other">>}
    [] cert = "fine"    -> {<<0, "other">>, <<1, "other">>}

TlsExpired(vr, text) ==
  vr \in {10, -151} \/ (vr \notin {9, -150} /\ text \in {"expired", "after"})

Return(rc, expired, body) ==
  /\ pc' = "ret" /\ res' = [rc |-> rc, expired |-> expired, body |-> body]
  /\ buf' = NoBuf
  /\ UNCHANGED <<mode, opts, req, n, wire, add, newcap, peer>>

Fails(rc) == Return(rc, res.expired, <<>>)

-----------------------------------------------------------------------------
(* The transfer                                                            *)

\* No address, nobody there, no connection in time; a URL libcurl cannot use
Unconnected ==
  /\ pc = "connect"
  /\ \E cc \in {"resolve", "connect", "timeout", "url", "memory"} : Fails(MapError(cc, FALSE))
  /\ UNCHANGED got

\* libcurl's two codes for a TLS failure are both asked for the verdict
TlsFails(cc, reports) ==
  \E rep \in reports : Return(MapError(cc, TRUE), TlsExpired(rep[1], rep[2]), <<>>)

\* The handshake runs into the total timeout, or breaks off
HandshakeFails ==
  /\ pc = "connect"
  /\ Fails(MapError("timeout", TRUE)) \/ TlsFails("tls", Reports("fine"))
  /\ UNCHANGED got

\* Verification; the TLS library decides which of the two codes it is
CertRefused ==
  /\ pc = "connect" /\ opts.verify /\ peer.cert # "fine"
  /\ \E cc \in {"peer", "tls"} : TlsFails(cc, Reports(peer.cert))
  /\ UNCHANGED got

\* The request is on its way; what libcurl makes of its options
Sent ==
  /\ pc = "connect" /\ (opts.verify => peer.cert = "fine")
  /\ wire' = [verb |-> IF opts.custom # "none" THEN opts.custom ELSE opts.base,
              body |-> IF opts.base = "POST" THEN opts.fields ELSE <<"none", 0>>,
              verified |-> opts.verify, trust |-> opts.ca]
  /\ pc' = "exchange" /\ got' \in BOOLEAN
  /\ UNCHANGED <<mode, opts, req, n, buf, add, newcap, peer, res>>

\* No answer in time, a connection that breaks, or no memory in libcurl
Broken ==
  /\ pc = "exchange"
  /\ \E cc \in {"timeout", "recv", "weird", "memory"} : Fails(MapError(cc, TRUE))
  /\ got' \in {got, TRUE}

\* The bytes there are, the chunk, and the terminator
Need(b, k) == SizeT(Len(b.data) + k + 1)

FirstTry_NoBaseline(b) == SizeT(b.cap * 2)
FirstTry(b) == IF b.cap # 0 THEN SizeT(b.cap * 2) ELSE FirstCap

\* What the peer has sent, in order
Stream(k) == [i \in 1..k |-> i]
Appended_Overwrites(b, k) == [b EXCEPT !.data = [i \in 1..k |-> peer.sent + i]]
\* The chunk is copied behind the bytes there are
Appended(b, k) ==
  [b EXCEPT !.data = @ \o [i \in 1..k |-> peer.sent + i]]

\* write_cb with a chunk
Chunk(k) ==
  /\ pc = "exchange" /\ got' = TRUE
  /\ IF Need(buf, k) > buf.cap
     THEN pc' = "grow" /\ newcap' = FirstTry(buf) /\ add' = k /\ UNCHANGED <<buf, peer>>
     ELSE /\ buf' = Appended(buf, k) /\ peer' = [peer EXCEPT !.sent = @ + k]
          /\ UNCHANGED <<pc, newcap, add>>
  /\ UNCHANGED <<mode, opts, req, n, wire, res>>

\* One round of its loop
Double ==
  /\ pc = "grow" /\ newcap < Need(buf, add)
  /\ newcap' = SizeT(newcap * 2)
  /\ UNCHANGED <<mode, opts, req, n, pc, got, wire, buf, add, peer, res>>

\* The block is there, or the transfer is aborted
Realloc ==
  /\ pc = "grow" /\ newcap >= Need(buf, add)
  /\ \/ /\ newcap <= PtrdiffMax
        /\ buf' = Appended([buf EXCEPT !.cap = newcap], add)
        /\ peer' = [peer EXCEPT !.sent = @ + add]
        /\ pc' = "exchange"
        /\ UNCHANGED <<mode, opts, req, n, wire, add, newcap, res>>
     \/ Fails("NOMEM")
  /\ UNCHANGED got

\* The response is complete
Complete ==
  /\ pc = "exchange" /\ got' = TRUE
  /\ Return("OK", res.expired, buf.data)

\* The caller takes the result; the handle's options and the verdict on the
\* certificate stay
Collect ==
  /\ pc = "ret" /\ pc' = "idle"
  /\ req' = NoRequest /\ got' = FALSE /\ wire' = NoWire /\ peer' = NoPeer
  /\ buf' = NoBuf /\ add' = 0 /\ newcap' = 0
  /\ res' = [NoRes EXCEPT !.expired = res.expired]
  /\ UNCHANGED <<mode, opts, n>>

-----------------------------------------------------------------------------
\* Steps libcurl and curl_send take by themselves; the timeouts end a transfer
Progress ==
  \/ Unconnected \/ HandshakeFails \/ CertRefused \/ Sent \/ Broken
  \/ Double \/ Realloc \/ Complete

Next ==
  \/ \E r \in Requests : Send(r)
  \/ \E k \in 1..ChunkMax : Chunk(k)
  \/ Progress
  \/ Collect

\* The total timeout of a request is always set, and curl_easy_perform returns
Spec == Init /\ [][Next]_vars /\ WF_vars(Progress)

-----------------------------------------------------------------------------
(* Properties                                                              *)

OnWire == wire # NoWire

\* What goes out is this request and nothing of an earlier one, whose options
\* the handle still has: its verb; its body or none, never one whose memory is
\* gone; its posture.  A leg that must be verified is, against the system's
\* certificates, even in an insecure or pinned context and right after a relaxed
\* one; a default leg is relaxed by the context alone.
NothingSticks ==
  OnWire =>
    /\ wire.verb = req.method
    /\ wire.body = IF req.method = "GET" \/ (req.body = "none" /\ req.method # "POST")
                   THEN <<"none", 0>> ELSE <<req.body, n>>
    /\ req.override = "verify" => wire.verified /\ wire.trust = "system"
    /\ req.override = "default" =>
         /\ wire.verified <=> mode # "insecure"
         /\ mode = "ca_file" => wire.trust = "pinned"

\* What the callers' retries and recoveries rest on: a send that is UNREACHABLE
\* never reached the peer.  Neither did one with the expired-certificate
\* verdict, which starts a check-in; that verdict belongs to this send and to an
\* expired certificate, never to one that is not yet valid.
RetrySafe ==
  pc = "ret" =>
    /\ res.rc = "UNREACHABLE" => ~got
    /\ res.expired =>
         res.rc = "NETWORK" /\ peer.cert = "expired" /\ ~got /\ ~OnWire

\* A successful response carries exactly the bytes the peer sent, however they
\* were cut into chunks and however often the buffer moved, and write_cb never
\* writes past what realloc gave it, terminator included.
BodyWhole ==
  /\ pc = "ret" /\ res.rc = "OK" => res.body = Stream(peer.sent)
  /\ buf.data = <<>> \/ Len(buf.data) + 1 <= buf.cap

\* Every send returns: the doubling never wraps round to zero, because realloc
\* refuses first.
SendsReturn == pc = "connect" ~> pc = "ret"
=============================================================================
