-------------------------- MODULE TransportProofs ---------------------------
(***************************************************************************)
(* Proofs about Transport: what goes out is the request at hand, what a    *)
(* send's result says about the peer, and that a body is whole and fits    *)
(* its buffer, for any size_t, first capacity and size of chunks.          *)
(***************************************************************************)
EXTENDS Transport, TLAPS

\* While the connection is made, the options ask for this request and posture;
\* the pinned certificate is an option of a pinned context alone.
OptsOK ==
  /\ mode # "ca_file" => opts.ca = "system"
  /\ pc = "connect" =>
       /\ (IF opts.custom # "none" THEN opts.custom ELSE opts.base) = req.method
       /\ (IF opts.base = "POST" THEN opts.fields ELSE <<"none", 0>>) =
            IF req.method = "GET" \/ (req.body = "none" /\ req.method # "POST")
            THEN <<"none", 0>> ELSE <<req.body, n>>
       /\ req.override = "verify" => opts.verify /\ opts.ca = "system"
       /\ req.override = "default" =>
            /\ opts.verify <=> mode # "insecure"
            /\ mode = "ca_file" => opts.ca = "pinned"

\* Nothing is out before the connection stands, and the verdict on a certificate
\* is of the send that ended with it.
FlowOK ==
  /\ pc = "connect" => wire = NoWire /\ ~got
  /\ pc \in {"connect", "exchange", "grow"} => ~res.expired

\* The buffer holds what the peer has sent and the terminator, in a block that
\* realloc gave out.
BufOK ==
  /\ pc \in {"idle", "connect", "ret"} => buf = NoBuf
  /\ pc = "connect" => peer.sent = 0
  /\ pc \in {"exchange", "grow"} =>
       /\ buf.data = Stream(peer.sent) /\ buf.cap <= PtrdiffMax
       /\ buf.cap # 0 \/ peer.sent = 0
       /\ buf.cap = 0 \/ peer.sent + 1 <= buf.cap

\* The loop of write_cb starts from the first capacity or from twice the old one,
\* and every round of it fits size_t.
GrowOK ==
  pc = "grow" =>
    /\ add \in 1..ChunkMax /\ newcap >= 1
    /\ newcap >= 2 * buf.cap

TransportInv ==
  /\ TypeOK /\ OptsOK /\ FlowOK /\ BufOK /\ GrowOK
  /\ NothingSticks /\ RetrySafe
  /\ pc = "ret" /\ res.rc = "OK" => res.body = Stream(peer.sent)

\* A round of the loop of write_cb neither wraps round nor stands still.
NoRoundWraps ==
  pc = "grow" /\ newcap < Need(buf, add) => SizeT(newcap * 2) = newcap * 2 /\ newcap > 0

-----------------------------------------------------------------------------
(* Sizes and bytes                                                         *)

\* No number within size_t wraps round.
LEMMA NoWrapping ==
  ASSUME NEW k \in 0..SizeMax
  PROVE  SizeT(k) = k
  BY TransportAssumption DEF SizeT, SizeMax

\* A value of type size_t.
LEMMA Sized ==
  ASSUME NEW k \in Nat
  PROVE  SizeT(k) \in 0..SizeMax
  BY TransportAssumption DEF SizeT, SizeMax

\* Behind the first s bytes of the stream, the next k make the first s + k.
LEMMA StreamGrows ==
  ASSUME NEW s \in Nat, NEW k \in Nat
  PROVE  /\ Stream(s) \in Seq(Nat) /\ Len(Stream(s)) = s
         /\ Stream(s) \o [i \in 1..k |-> s + i] = Stream(s + k)
<1> DEFINE t == [i \in 1..k |-> s + i]
<1>1. Stream(s) \in Seq(Nat) /\ Len(Stream(s)) = s
  BY DEF Stream
<1>2. t \in Seq(Nat) /\ Len(t) = k
  OBVIOUS
<1>3. \A i \in 1..(s + k) : (Stream(s) \o t)[i] = i
  BY <1>1, <1>2 DEF Stream
<1>4. Stream(s) \o t \in Seq(Nat) /\ Len(Stream(s) \o t) = s + k
  BY <1>1, <1>2
<1>5. Stream(s) \o t = [i \in 1..(s + k) |-> (Stream(s) \o t)[i]]
  BY <1>4
<1> QED BY <1>1, <1>3, <1>5 DEF Stream

-----------------------------------------------------------------------------
(* Steps                                                                   *)

\* The fields of no result.
LEMMA NoResIs ==
  NoRes \in [rc : {"OK", "NETWORK", "UNREACHABLE", "NOMEM", "ARG"},
             expired : BOOLEAN, body : Seq(Nat)]
  BY DEF NoRes

\* A new handle.
LEMMA TransportInit == Init => TransportInv
<1> SUFFICES ASSUME Init PROVE TransportInv
  OBVIOUS
<1>1. <<>> \in Seq(Nat) /\ SizeMax \in Nat /\ ChunkMax \in Nat /\ NoRequest \in Requests
  BY TransportAssumption DEF SizeMax, NoRequest, Requests, Methods, Overrides
<1>2. TypeOK
  <2>1. /\ opts \in [custom : {"none"} \union Methods, base : {"GET", "POST"},
                     fields : Bodies, verify : BOOLEAN, ca : {"system", "pinned"}]
        /\ NoWire \in [verb : {"none"} \union Methods, body : Bodies, verified : BOOLEAN,
                       trust : {"none", "system", "pinned"}]
    BY DEF Init, Bodies, NoWire
  <2>2. /\ NoBuf \in [cap : 0..SizeMax, data : Seq(Nat)]
        /\ NoPeer \in [sent : Nat, cert : Certs]
        /\ NoRes \in [rc : {"OK", "NETWORK", "UNREACHABLE", "NOMEM", "ARG"},
                      expired : BOOLEAN, body : Seq(Nat)]
    BY <1>1 DEF NoBuf, NoPeer, NoRes, Certs
  <2>3. 0 \in 0..SizeMax /\ 0 \in 0..ChunkMax /\ 0 \in 0..1
    BY <1>1
  <2>4. got \in BOOLEAN
    BY Zenon DEF Init
  <2> QED BY <1>1, <2>1, <2>2, <2>3, <2>4 DEF Init, TypeOK, PCs
<1>3. OptsOK /\ FlowOK /\ BufOK /\ GrowOK /\ NothingSticks /\ RetrySafe
  BY DEF Init, OptsOK, FlowOK, BufOK, GrowOK, NothingSticks, RetrySafe, OnWire, NoRes
<1> QED BY <1>2, <1>3 DEF TransportInv, Init

\* What the options ask for, once they have been applied on a clean baseline.
LEMMA Applied ==
  ASSUME TypeOK, NEW r \in Requests, NEW id \in 0..1,
         mode # "ca_file" => opts.ca = "system",
         NEW o, o = ApplyTlsVerify(ApplyMethod(ResetMethod(opts), r, id), r)
  PROVE  /\ o \in [custom : {"none"} \union Methods, base : {"GET", "POST"},
                   fields : Bodies, verify : BOOLEAN, ca : {"system", "pinned"}]
         /\ mode # "ca_file" => o.ca = "system"
         /\ (IF o.custom # "none" THEN o.custom ELSE o.base) = r.method
         /\ (IF o.base = "POST" THEN o.fields ELSE <<"none", 0>>) =
              IF r.method = "GET" \/ (r.body = "none" /\ r.method # "POST")
              THEN <<"none", 0>> ELSE <<r.body, id>>
         /\ r.override = "verify" => o.verify /\ o.ca = "system"
         /\ r.override = "default" =>
              /\ o.verify <=> mode # "insecure"
              /\ mode = "ca_file" => o.ca = "pinned"
<1> DEFINE Opts == [custom : {"none"} \union Methods, base : {"GET", "POST"},
                    fields : Bodies, verify : BOOLEAN, ca : {"system", "pinned"}]
           p == ResetMethod(opts)
           q == ApplyMethod(p, r, id)
<1>1. opts \in Opts
  BY DEF TypeOK
<1>2. p \in Opts /\ p.custom = "none" /\ p.base = "GET" /\ p.ca = opts.ca
  BY <1>1 DEF ResetMethod, Get
<1> HIDE DEF p
<1>3. /\ r.method \in Methods /\ <<r.body, id>> \in Bodies
  BY DEF Requests, Bodies
<1>4. /\ q \in Opts /\ q.ca = p.ca
      /\ (IF q.custom # "none" THEN q.custom ELSE q.base) = r.method
      /\ (IF q.base = "POST" THEN q.fields ELSE <<"none", 0>>) =
           IF r.method = "GET" \/ (r.body = "none" /\ r.method # "POST")
           THEN <<"none", 0>> ELSE <<r.body, id>>
  <2>1. CASE r.method = "GET"
    BY <1>2, <2>1 DEF ApplyMethod
  <2>2. CASE r.method = "POST"
    BY <1>2, <1>3, <2>2 DEF ApplyMethod, WithFields
  <2>3. CASE r.method \notin {"GET", "POST"} /\ r.body = "none"
    BY <1>2, <1>3, <2>3 DEF ApplyMethod, Methods
  <2>4. CASE r.method \notin {"GET", "POST"} /\ r.body # "none"
    BY <1>2, <1>3, <2>4 DEF ApplyMethod, WithFields, Methods
  <2> QED BY <2>1, <2>2, <2>3, <2>4
<1> HIDE DEF q
<1>5. /\ o = [q EXCEPT !.verify = ~Relaxed(r),
                       !.ca = IF mode # "ca_file" THEN @
                              ELSE IF r.override = "default" THEN "pinned" ELSE "system"]
  BY DEF ApplyTlsVerify, p, q
<1>6. (~Relaxed(r)) \in BOOLEAN
  BY Zenon
<1>7. /\ o \in Opts /\ o.custom = q.custom /\ o.base = q.base /\ o.fields = q.fields
      /\ o.verify = ~Relaxed(r)
      /\ o.ca = IF mode # "ca_file" THEN q.ca
                ELSE IF r.override = "default" THEN "pinned" ELSE "system"
  BY <1>4, <1>5, <1>6
<1>8. mode # "ca_file" => o.ca = "system"
  BY <1>2, <1>4, <1>7
<1>9. r.override = "verify" => o.verify /\ o.ca = "system"
  BY <1>7, <1>8 DEF Relaxed
<1>10. r.override = "default" => /\ o.verify <=> mode # "insecure"
                                 /\ mode = "ca_file" => o.ca = "pinned"
  BY <1>7 DEF Relaxed
<1> QED BY <1>4, <1>7, <1>8, <1>9, <1>10

\* curl_send sets every option this request needs, whatever it finds set.
LEMMA SendStep ==
  ASSUME TransportInv, NEW r \in Requests, Send(r)
  PROVE  TransportInv'
<1>1. TypeOK /\ OptsOK
  BY DEF TransportInv
<1>2. /\ req' = r /\ n' = 1 - n /\ got' = FALSE /\ wire' = NoWire
      /\ buf' = NoBuf /\ add' = 0 /\ newcap' = 0 /\ mode' = mode
  BY DEF Send
<1>3. n' \in 0..1
  BY <1>1, <1>2 DEF TypeOK
<1>4. peer' \in [sent : Nat, cert : Certs] /\ peer'.sent = 0
  <2>1. PICK cert \in Certs : peer' = [NoPeer EXCEPT !.cert = cert]
    BY DEF Send
  <2> QED BY <2>1 DEF NoPeer
<1>5. \/ /\ pc' = "connect" /\ res' = [NoRes EXCEPT !.expired = FALSE]
         /\ opts' = ApplyTlsVerify(ApplyMethod(ResetMethod(opts), r, n'), r)
      \/ /\ pc' = "ret" /\ opts' = opts
         /\ res' = [NoRes EXCEPT !.rc = "NOMEM", !.expired = FALSE]
  BY <1>2 DEF Send, ClearedFlag
<1>6. /\ res' \in [rc : {"OK", "NETWORK", "UNREACHABLE", "NOMEM", "ARG"},
                   expired : BOOLEAN, body : Seq(Nat)]
      /\ ~res'.expired /\ pc' \in {"connect", "ret"}
      /\ pc' = "ret" => res'.rc = "NOMEM"
  <2>1. CASE pc' = "connect" /\ res' = [NoRes EXCEPT !.expired = FALSE]
    BY <2>1, NoResIs
  <2>2. CASE pc' = "ret" /\ res' = [NoRes EXCEPT !.rc = "NOMEM", !.expired = FALSE]
    BY <2>2, NoResIs
  <2> QED BY <1>5, <2>1, <2>2
<1>7. /\ opts' \in [custom : {"none"} \union Methods, base : {"GET", "POST"},
                    fields : Bodies, verify : BOOLEAN, ca : {"system", "pinned"}]
      /\ OptsOK'
  <2>1. CASE pc' = "ret" /\ opts' = opts
    BY <1>1, <1>2, <2>1 DEF TypeOK, OptsOK
  <2>2. CASE opts' = ApplyTlsVerify(ApplyMethod(ResetMethod(opts), r, n'), r)
    <3>1. mode # "ca_file" => opts.ca = "system"
      BY <1>1 DEF OptsOK
    <3> QED BY <1>1, <1>2, <1>3, <2>2, <3>1, Applied, ZenonT(60) DEF OptsOK
  <2> QED BY <1>5, <2>1, <2>2
<1>8. /\ buf' \in [cap : 0..SizeMax, data : Seq(Nat)]
      /\ newcap' \in 0..SizeMax /\ add' \in 0..ChunkMax
      /\ wire' \in [verb : {"none"} \union Methods, body : Bodies, verified : BOOLEAN,
                    trust : {"none", "system", "pinned"}]
  BY <1>2, TransportAssumption DEF SizeMax, NoBuf, NoWire, Bodies
<1>9. TypeOK'
  BY <1>1, <1>2, <1>3, <1>4, <1>6, <1>7, <1>8 DEF TypeOK, PCs
<1>10. FlowOK' /\ BufOK' /\ GrowOK' /\ NothingSticks' /\ RetrySafe'
  BY <1>2, <1>4, <1>6 DEF FlowOK, BufOK, GrowOK, NothingSticks, RetrySafe, OnWire
<1> QED BY <1>6, <1>7, <1>9, <1>10 DEF TransportInv

\* The end of a send, whatever it is.
LEMMA ReturnStep ==
  ASSUME TransportInv, pc \in {"connect", "exchange", "grow"},
         NEW rc \in {"OK", "NETWORK", "UNREACHABLE", "NOMEM", "ARG"},
         NEW e \in BOOLEAN, NEW b \in Seq(Nat), Return(rc, e, b),
         got' \in BOOLEAN, rc = "UNREACHABLE" => ~got',
         e => rc = "NETWORK" /\ peer.cert = "expired" /\ ~got' /\ wire = NoWire,
         rc = "OK" => b = Stream(peer.sent)
  PROVE  TransportInv'
<1>1. TypeOK /\ OptsOK /\ NothingSticks
  BY DEF TransportInv
<1>2. /\ pc' = "ret" /\ res' = [rc |-> rc, expired |-> e, body |-> b] /\ buf' = NoBuf
      /\ UNCHANGED <<mode, opts, req, n, wire, add, newcap, peer>>
  BY DEF Return
<1>3. /\ buf' \in [cap : 0..SizeMax, data : Seq(Nat)]
      /\ res' \in [rc : {"OK", "NETWORK", "UNREACHABLE", "NOMEM", "ARG"},
                   expired : BOOLEAN, body : Seq(Nat)]
      /\ res'.rc = rc /\ res'.expired = e /\ res'.body = b
  BY <1>2, TransportAssumption DEF NoBuf, SizeMax
<1>4. TypeOK'
  BY <1>1, <1>2, <1>3 DEF TypeOK, PCs
<1>5. OptsOK' /\ NothingSticks' /\ FlowOK' /\ BufOK' /\ GrowOK'
  BY <1>1, <1>2 DEF OptsOK, NothingSticks, OnWire, FlowOK, BufOK, GrowOK
<1>6. RetrySafe'
  BY <1>2, <1>3 DEF RetrySafe, OnWire
<1> QED BY <1>2, <1>3, <1>4, <1>5, <1>6 DEF TransportInv

\* A connection that fails has sent nothing.
LEMMA UnconnectedStep == TransportInv /\ (Unconnected \/ HandshakeFails) => TransportInv'
<1> SUFFICES ASSUME TransportInv, Unconnected \/ HandshakeFails PROVE TransportInv'
  OBVIOUS
<1>1. pc = "connect" /\ got' = got /\ got = FALSE /\ res.expired = FALSE
  BY Zenon DEF TransportInv, TypeOK, FlowOK, Unconnected, HandshakeFails
<1>2. PICK rc \in {"NETWORK", "UNREACHABLE", "NOMEM", "ARG"} : Return(rc, FALSE, <<>>)
  <2>1. CASE Unconnected
    BY <1>1, <2>1 DEF Unconnected, MapError, Fails
  <2>2. CASE pc = "connect" /\ Fails(MapError("timeout", TRUE))
    BY <1>1, <2>2 DEF MapError, Fails
  <2>3. CASE TlsFails("tls", Reports("fine"))
    <3>1. PICK rep \in Reports("fine") :
            Return("NETWORK", TlsExpired(rep[1], rep[2]), <<>>)
      BY <2>3 DEF TlsFails, MapError
    <3>2. TlsExpired(rep[1], rep[2]) = FALSE
      BY <3>1 DEF Reports, TlsExpired
    <3> QED BY <3>1, <3>2
  <2> QED BY <2>1, <2>2, <2>3 DEF HandshakeFails
<1>3. <<>> \in Seq(Nat) /\ FALSE \in BOOLEAN
  OBVIOUS
<1>4. got' \in BOOLEAN
  BY <1>1, Zenon
<1> QED BY <1>1, <1>2, <1>3, <1>4, ReturnStep

\* A certificate that is refused ends the send before the request is out.
LEMMA CertRefusedStep == TransportInv /\ CertRefused => TransportInv'
<1> SUFFICES ASSUME TransportInv, CertRefused PROVE TransportInv'
  OBVIOUS
<1>1. /\ pc = "connect" /\ got' = got /\ ~got /\ wire = NoWire /\ got \in BOOLEAN
      /\ peer.cert \in {"expired", "notyet", "other"}
  BY DEF TransportInv, TypeOK, FlowOK, CertRefused, Certs
<1>2. PICK rep \in Reports(peer.cert) :
        Return("NETWORK", TlsExpired(rep[1], rep[2]), <<>>)
  BY DEF CertRefused, TlsFails, MapError
<1>3. TlsExpired(rep[1], rep[2]) \in BOOLEAN
  BY DEF TlsExpired
<1>4. TlsExpired(rep[1], rep[2]) => peer.cert = "expired"
  BY <1>1, <1>2 DEF Reports, TlsExpired
<1>5. <<>> \in Seq(Nat)
  OBVIOUS
<1> QED BY <1>1, <1>2, <1>3, <1>4, <1>5, ReturnStep

\* A transfer that breaks off releases its body.
LEMMA BrokenStep == TransportInv /\ Broken => TransportInv'
<1> SUFFICES ASSUME TransportInv, Broken PROVE TransportInv'
  OBVIOUS
<1>1. pc = "exchange" /\ got' \in BOOLEAN /\ res.expired = FALSE
  BY Zenon DEF TransportInv, TypeOK, FlowOK, Broken
<1>2. PICK rc \in {"NETWORK", "NOMEM"} : Fails(rc)
  BY DEF Broken, MapError
<1>3. Return(rc, FALSE, <<>>)
  BY <1>1, <1>2 DEF Fails
<1>4. <<>> \in Seq(Nat) /\ FALSE \in BOOLEAN
  OBVIOUS
<1>5. got' \in BOOLEAN
  BY <1>1, Zenon
<1> QED BY <1>1, <1>3, <1>4, <1>5, ReturnStep

\* A transfer that completes hands its body over.
LEMMA CompleteStep == TransportInv /\ Complete => TransportInv'
<1> SUFFICES ASSUME TransportInv, Complete PROVE TransportInv'
  OBVIOUS
<1>1. pc = "exchange" /\ got' = TRUE /\ Return("OK", res.expired, buf.data)
  BY DEF Complete
<1>2. res.expired = FALSE
  BY <1>1 DEF TransportInv, TypeOK, FlowOK
<1>3. buf.data \in Seq(Nat) /\ buf.data = Stream(peer.sent)
  BY <1>1 DEF TransportInv, TypeOK, BufOK
<1> QED BY <1>1, <1>2, <1>3, ReturnStep

\* The request that goes out is the one at hand.
LEMMA SentStep == TransportInv /\ Sent => TransportInv'
<1> SUFFICES ASSUME TransportInv, Sent PROVE TransportInv'
  OBVIOUS
<1>1. TypeOK /\ OptsOK /\ FlowOK /\ BufOK
  BY DEF TransportInv
<1>2. /\ pc = "connect" /\ pc' = "exchange" /\ got' \in BOOLEAN
      /\ UNCHANGED <<mode, opts, req, n, buf, add, newcap, peer, res>>
      /\ wire' = [verb |-> IF opts.custom # "none" THEN opts.custom ELSE opts.base,
                  body |-> IF opts.base = "POST" THEN opts.fields ELSE <<"none", 0>>,
                  verified |-> opts.verify, trust |-> opts.ca]
  BY DEF Sent
<1>3. wire' \in [verb : {"none"} \union Methods, body : Bodies, verified : BOOLEAN,
                 trust : {"none", "system", "pinned"}]
  BY <1>1, <1>2 DEF TypeOK, Bodies, Methods
<1>4. TypeOK'
  BY <1>1, <1>2, <1>3 DEF TypeOK, PCs
<1>5. NothingSticks'
  BY <1>1, <1>2 DEF OptsOK, NothingSticks
<1>6. BufOK'
  <2>1. buf = NoBuf /\ peer.sent = 0
    BY <1>1, <1>2 DEF BufOK
  <2>2. Stream(0) = <<>>
    BY DEF Stream
  <2> QED BY <1>2, <2>1, <2>2, TransportAssumption DEF BufOK, NoBuf
<1>7. OptsOK' /\ FlowOK' /\ GrowOK' /\ RetrySafe'
  BY <1>1, <1>2 DEF OptsOK, FlowOK, GrowOK, RetrySafe
<1> QED BY <1>2, <1>4, <1>5, <1>6, <1>7 DEF TransportInv

\* What write_cb needs for a chunk never wraps round.
LEMMA NeedIs ==
  ASSUME TransportInv, pc \in {"exchange", "grow"}, NEW k \in 1..ChunkMax
  PROVE  Need(buf, k) = peer.sent + k + 1
<1>1. /\ buf.data = Stream(peer.sent) /\ peer.sent \in Nat /\ buf.cap \in Nat
      /\ buf.cap <= PtrdiffMax /\ (buf.cap # 0 \/ peer.sent = 0)
      /\ buf.cap = 0 \/ peer.sent + 1 <= buf.cap
  BY TransportAssumption DEF TransportInv, TypeOK, BufOK, SizeMax
<1>2. Len(buf.data) = peer.sent
  BY <1>1, StreamGrows
<1>3. peer.sent + k + 1 \in 0..SizeMax
  BY <1>1, TransportAssumption DEF SizeMax
<1> QED BY <1>2, <1>3, NoWrapping DEF Need

\* A chunk that fits the block is behind the bytes there were.
LEMMA AppendedOK ==
  ASSUME TransportInv, pc \in {"exchange", "grow"}, NEW k \in 1..ChunkMax,
         NEW b, b.data = buf.data, b \in [cap : 0..SizeMax, data : Seq(Nat)],
         b.cap <= PtrdiffMax, peer.sent + k + 1 <= b.cap, pc' = "exchange",
         buf' = Appended(b, k), peer' = [peer EXCEPT !.sent = @ + k]
  PROVE  /\ BufOK' /\ buf' \in [cap : 0..SizeMax, data : Seq(Nat)]
         /\ peer' \in [sent : Nat, cert : Certs]
<1>1. buf.data = Stream(peer.sent) /\ peer \in [sent : Nat, cert : Certs]
  BY DEF TransportInv, TypeOK, BufOK
<1>2. /\ peer' \in [sent : Nat, cert : Certs] /\ peer'.sent = peer.sent + k
  BY <1>1, TransportAssumption, SMTT(60)
<1>3. Stream(peer.sent) \o [i \in 1..k |-> peer.sent + i] = Stream(peer'.sent)
  <2>1. k \in Nat /\ peer.sent \in Nat
    BY <1>1, TransportAssumption
  <2>2. Stream(peer.sent) \o [i \in 1..k |-> peer.sent + i] = Stream(peer.sent + k)
    BY <2>1, StreamGrows
  <2> QED BY <1>2, <2>2
<1>4. Stream(peer'.sent) \in Seq(Nat)
  BY <1>2, StreamGrows
<1>5. buf' = [b EXCEPT !.data = Stream(peer'.sent)]
  BY <1>1, <1>3 DEF Appended
<1>6. buf' \in [cap : 0..SizeMax, data : Seq(Nat)] /\ buf'.cap = b.cap
      /\ buf'.data = Stream(peer'.sent)
  BY <1>4, <1>5
<1> QED BY <1>1, <1>2, <1>6, TransportAssumption DEF BufOK, SizeMax

\* A chunk fits the buffer, or the loop of write_cb starts.
LEMMA ChunkStep ==
  ASSUME TransportInv, NEW k \in 1..ChunkMax, Chunk(k)
  PROVE  TransportInv'
<1>1. TypeOK /\ OptsOK /\ FlowOK /\ BufOK /\ NothingSticks
  BY DEF TransportInv
<1>2. /\ pc = "exchange" /\ got' = TRUE /\ UNCHANGED <<mode, opts, req, n, wire, res>>
  BY DEF Chunk
<1>3. Need(buf, k) = peer.sent + k + 1
  BY <1>2, NeedIs
<1>4. buf.cap \in 0..PtrdiffMax /\ peer.sent \in Nat
      /\ buf \in [cap : 0..SizeMax, data : Seq(Nat)]
  BY <1>1, <1>2, TransportAssumption DEF TypeOK, BufOK, SizeMax
<1>5. CASE Need(buf, k) > buf.cap
  <2>1. pc' = "grow" /\ newcap' = FirstTry(buf) /\ add' = k /\ UNCHANGED <<buf, peer>>
    BY <1>5 DEF Chunk
  <2>2. newcap' \in 0..SizeMax /\ newcap' >= 1 /\ newcap' >= 2 * buf.cap
    <3>1. CASE buf.cap = 0
      BY <1>4, <2>1, <3>1, TransportAssumption DEF FirstTry, SizeMax
    <3>2. CASE buf.cap # 0
      <4>1. buf.cap * 2 \in 0..SizeMax
        BY <1>4, TransportAssumption DEF SizeMax
      <4> QED BY <1>4, <2>1, <3>2, <4>1, NoWrapping DEF FirstTry
    <3> QED BY <3>1, <3>2
  <2>3. got' \in BOOLEAN
    BY <1>2, Zenon
  <2>4. TypeOK'
    BY <1>1, <1>2, <2>1, <2>2, <2>3, TransportAssumption DEF TypeOK, PCs
  <2>5. OptsOK' /\ NothingSticks' /\ FlowOK' /\ BufOK' /\ GrowOK' /\ RetrySafe'
    BY <1>1, <1>2, <2>1, <2>2
    DEF OptsOK, NothingSticks, OnWire, FlowOK, BufOK, GrowOK, RetrySafe
  <2> QED BY <2>1, <2>4, <2>5 DEF TransportInv
<1>6. CASE ~(Need(buf, k) > buf.cap)
  <2>1. /\ buf' = Appended(buf, k) /\ peer' = [peer EXCEPT !.sent = @ + k]
        /\ UNCHANGED <<pc, newcap, add>>
    BY <1>6 DEF Chunk
  <2>2. peer.sent + k + 1 <= buf.cap
    BY <1>3, <1>4, <1>6
  <2>3. /\ BufOK' /\ buf' \in [cap : 0..SizeMax, data : Seq(Nat)]
        /\ peer' \in [sent : Nat, cert : Certs]
    <3>1. pc' = "exchange" /\ buf.cap <= PtrdiffMax
      BY <1>2, <1>4, <2>1, TransportAssumption
    <3> QED BY <1>2, <1>4, <2>1, <2>2, <3>1, AppendedOK
  <2>4. got' \in BOOLEAN
    BY <1>2, Zenon
  <2>5. TypeOK'
    BY <1>1, <1>2, <2>1, <2>3, <2>4 DEF TypeOK
  <2>6. OptsOK' /\ NothingSticks' /\ FlowOK' /\ GrowOK' /\ RetrySafe'
    BY <1>1, <1>2, <2>1
    DEF OptsOK, NothingSticks, OnWire, FlowOK, GrowOK, RetrySafe
  <2> QED BY <1>2, <2>1, <2>3, <2>5, <2>6 DEF TransportInv
<1> QED BY <1>5, <1>6

\* As long as the loop of write_cb goes on, it is below the half of size_t.
LEMMA RoundFits == TransportInv => NoRoundWraps
<1> SUFFICES ASSUME TransportInv, pc = "grow", newcap < Need(buf, add)
             PROVE  SizeT(newcap * 2) = newcap * 2 /\ newcap > 0
  BY DEF NoRoundWraps
<1>1. /\ peer.sent \in Nat /\ buf.cap \in Nat /\ newcap \in Nat /\ add \in 1..ChunkMax
      /\ buf.cap # 0 \/ peer.sent = 0
      /\ buf.cap = 0 \/ peer.sent + 1 <= buf.cap
      /\ newcap >= 1 /\ newcap >= 2 * buf.cap
  BY TransportAssumption DEF TransportInv, TypeOK, BufOK, GrowOK, SizeMax
<1>2. Need(buf, add) = peer.sent + add + 1
  BY <1>1, NeedIs
<1>3. newcap <= PtrdiffMax
  BY <1>1, <1>2, TransportAssumption
<1>4. newcap * 2 \in 0..SizeMax
  BY <1>1, <1>3, TransportAssumption DEF SizeMax
<1> QED BY <1>1, <1>4, NoWrapping

\* One round of the loop of write_cb stays within size_t.
LEMMA DoubleStep == TransportInv /\ Double => TransportInv'
<1> SUFFICES ASSUME TransportInv, Double PROVE TransportInv'
  OBVIOUS
<1>1. TypeOK /\ OptsOK /\ FlowOK /\ BufOK /\ GrowOK /\ NothingSticks
  BY DEF TransportInv
<1>2. /\ pc = "grow" /\ newcap < Need(buf, add) /\ newcap' = SizeT(newcap * 2)
      /\ UNCHANGED <<mode, opts, req, n, pc, got, wire, buf, add, peer, res>>
  BY DEF Double
<1>3. newcap' = newcap * 2 /\ newcap > 0
  BY <1>2, RoundFits DEF NoRoundWraps
<1>4. newcap \in 0..SizeMax /\ SizeMax \in Nat
  BY <1>1, TransportAssumption DEF TypeOK, SizeMax
<1>5. newcap' \in 0..SizeMax
  BY <1>2, <1>4, Sized
<1>6. TypeOK'
  BY <1>1, <1>2, <1>5 DEF TypeOK
<1>7. GrowOK'
  <2>1. newcap >= 2 * buf.cap /\ newcap >= 1 /\ add \in 1..ChunkMax /\ buf.cap \in 0..SizeMax
    BY <1>1, <1>2 DEF GrowOK, TypeOK
  <2>2. newcap' >= 2 * buf.cap /\ newcap' >= 1
    BY <1>3, <1>4, <2>1
  <2> QED BY <1>2, <2>1, <2>2 DEF GrowOK
<1>8. OptsOK' /\ FlowOK' /\ BufOK' /\ NothingSticks' /\ RetrySafe'
  BY <1>1, <1>2 DEF OptsOK, FlowOK, BufOK, NothingSticks, OnWire, RetrySafe
<1> QED BY <1>2, <1>6, <1>7, <1>8 DEF TransportInv

\* realloc grants a block the chunk fits, or the send fails.
LEMMA ReallocStep == TransportInv /\ Realloc => TransportInv'
<1> SUFFICES ASSUME TransportInv, Realloc PROVE TransportInv'
  OBVIOUS
<1>1. TypeOK /\ OptsOK /\ FlowOK /\ BufOK /\ GrowOK /\ NothingSticks
  BY DEF TransportInv
<1>2. pc = "grow" /\ newcap >= Need(buf, add) /\ got' = got /\ add \in 1..ChunkMax
  BY <1>1 DEF Realloc, GrowOK
<1>3. CASE Fails("NOMEM")
  <2>1. res.expired = FALSE /\ got' \in BOOLEAN
    BY <1>1, <1>2, Zenon DEF FlowOK, TypeOK
  <2>2. Return("NOMEM", FALSE, <<>>)
    BY <1>3, <2>1 DEF Fails
  <2>3. <<>> \in Seq(Nat) /\ FALSE \in BOOLEAN
    OBVIOUS
  <2> QED BY <1>2, <2>1, <2>2, <2>3, ReturnStep
<1>4. CASE /\ newcap <= PtrdiffMax
           /\ buf' = Appended([buf EXCEPT !.cap = newcap], add)
           /\ peer' = [peer EXCEPT !.sent = @ + add]
           /\ pc' = "exchange"
           /\ UNCHANGED <<mode, opts, req, n, wire, add, newcap, res>>
  <2> DEFINE b == [buf EXCEPT !.cap = newcap]
  <2>1. b \in [cap : 0..SizeMax, data : Seq(Nat)] /\ b.data = buf.data /\ b.cap = newcap
    BY <1>1 DEF TypeOK
  <2>2. peer.sent + add + 1 <= newcap
    BY <1>2, NeedIs
  <2>3. buf' = Appended(b, add)
    BY <1>4
  <2> HIDE DEF b
  <2>4. /\ BufOK' /\ buf' \in [cap : 0..SizeMax, data : Seq(Nat)]
        /\ peer' \in [sent : Nat, cert : Certs]
    BY <1>2, <1>4, <2>1, <2>2, <2>3, AppendedOK
  <2>5. TypeOK'
    BY <1>1, <1>2, <1>4, <2>4 DEF TypeOK, PCs
  <2>6. OptsOK' /\ NothingSticks' /\ FlowOK' /\ GrowOK' /\ RetrySafe'
    BY <1>1, <1>2, <1>4 DEF OptsOK, NothingSticks, OnWire, FlowOK, GrowOK, RetrySafe
  <2> QED BY <1>4, <2>4, <2>5, <2>6 DEF TransportInv
<1> QED BY <1>3, <1>4 DEF Realloc

\* The caller takes the result of a send.
LEMMA CollectStep == TransportInv /\ Collect => TransportInv'
<1> SUFFICES ASSUME TransportInv, Collect PROVE TransportInv'
  OBVIOUS
<1>1. TypeOK /\ OptsOK
  BY DEF TransportInv
<1>2. /\ pc' = "idle" /\ req' = NoRequest /\ got' = FALSE /\ wire' = NoWire
      /\ peer' = NoPeer /\ buf' = NoBuf /\ add' = 0 /\ newcap' = 0
      /\ UNCHANGED <<mode, opts, n>>
      /\ res' = [NoRes EXCEPT !.expired = res.expired]
  BY DEF Collect
<1>3. /\ buf' \in [cap : 0..SizeMax, data : Seq(Nat)]
      /\ newcap' \in 0..SizeMax /\ add' \in 0..ChunkMax
      /\ peer' \in [sent : Nat, cert : Certs] /\ req' \in Requests
  BY <1>2, TransportAssumption
  DEF SizeMax, NoBuf, NoPeer, Certs, NoRequest, Requests, Methods, Overrides
<1>4. wire' \in [verb : {"none"} \union Methods, body : Bodies, verified : BOOLEAN,
                 trust : {"none", "system", "pinned"}]
  BY <1>2 DEF NoWire, Bodies
<1>5. res' \in [rc : {"OK", "NETWORK", "UNREACHABLE", "NOMEM", "ARG"},
                expired : BOOLEAN, body : Seq(Nat)]
  BY <1>1, <1>2, NoResIs DEF TypeOK
<1>6. got' \in BOOLEAN
  BY <1>2, Zenon
<1>7. TypeOK'
  BY <1>1, <1>2, <1>3, <1>4, <1>5, <1>6 DEF TypeOK, PCs
<1>8. OptsOK' /\ FlowOK' /\ BufOK' /\ GrowOK' /\ NothingSticks' /\ RetrySafe'
  BY <1>1, <1>2 DEF OptsOK, FlowOK, BufOK, GrowOK, NothingSticks, OnWire, RetrySafe
<1> QED BY <1>2, <1>7, <1>8 DEF TransportInv

\* Every step of the client, of libcurl and of the peer keeps the invariant.
LEMMA TransportNext == TransportInv /\ [Next]_vars => TransportInv'
<1> SUFFICES ASSUME TransportInv, [Next]_vars PROVE TransportInv'
  OBVIOUS
<1>1. ASSUME NEW r \in Requests, Send(r) PROVE TransportInv'
  BY <1>1, SendStep
<1>2. ASSUME NEW k \in 1..ChunkMax, Chunk(k) PROVE TransportInv'
  BY <1>2, ChunkStep
<1>3. CASE Unconnected \/ HandshakeFails
  BY <1>3, UnconnectedStep
<1>4. CASE CertRefused
  BY <1>4, CertRefusedStep
<1>5. CASE Sent
  BY <1>5, SentStep
<1>6. CASE Broken
  BY <1>6, BrokenStep
<1>7. CASE Double
  BY <1>7, DoubleStep
<1>8. CASE Realloc
  BY <1>8, ReallocStep
<1>9. CASE Complete
  BY <1>9, CompleteStep
<1>10. CASE Collect
  BY <1>10, CollectStep
<1>11. CASE UNCHANGED vars
  <2>1. TypeOK' /\ OptsOK' /\ FlowOK' /\ BufOK' /\ GrowOK' /\ NothingSticks' /\ RetrySafe'
    BY <1>11 DEF vars, TransportInv, TypeOK, OptsOK, FlowOK, BufOK, GrowOK, NothingSticks,
                 OnWire, RetrySafe
  <2> QED BY <1>11, <2>1 DEF vars, TransportInv
<1> QED
  BY <1>1, <1>2, <1>3, <1>4, <1>5, <1>6, <1>7, <1>8, <1>9, <1>10, <1>11 DEF Next, Progress

-----------------------------------------------------------------------------
(* Results                                                                 *)

\* The options of the handle, the flow of a send and the buffer of its body, as
\* the parts of the invariant say, in every reachable state.
THEOREM TransportInvariant == Spec => []TransportInv
  BY TransportInit, TransportNext, PTL DEF Spec

\* Every variable keeps its type, sizes included.
THEOREM TransportTypes == Spec => []TypeOK
<1>1. TransportInv => TypeOK
  BY DEF TransportInv
<1> QED BY <1>1, TransportInvariant, PTL

\* What curl_send puts on the wire is the request at hand with its own posture,
\* whatever options earlier requests left on the handle.
THEOREM NothingEverSticks == Spec => []NothingSticks
<1>1. TransportInv => NothingSticks
  BY DEF TransportInv
<1> QED BY <1>1, TransportInvariant, PTL

\* UNREACHABLE and the expired-certificate verdict mean that the peer never had
\* the request, and the verdict is of this send (ehem_curl_map_error,
\* ehem_curl_tls_expired).
THEOREM RetriesAreSafe == Spec => []RetrySafe
<1>1. TransportInv => RetrySafe
  BY DEF TransportInv
<1> QED BY <1>1, TransportInvariant, PTL

\* write_cb loses, repeats and reorders no byte and stays within its block, for
\* every size_t and however the body is cut.
THEOREM BodiesAreWhole == Spec => []BodyWhole
<1>1. TransportInv => BodyWhole
  <2> SUFFICES ASSUME TransportInv PROVE BodyWhole
    OBVIOUS
  <2>1. pc \in PCs /\ buf.cap \in Nat /\ peer.sent \in Nat
    BY TransportAssumption DEF TransportInv, TypeOK, SizeMax
  <2>2. CASE pc \in {"idle", "connect", "ret"}
    BY <2>2 DEF TransportInv, BufOK, NoBuf, BodyWhole
  <2>3. CASE pc \in {"exchange", "grow"}
    <3>1. /\ buf.data = Stream(peer.sent)
          /\ buf.cap # 0 \/ peer.sent = 0
          /\ buf.cap = 0 \/ peer.sent + 1 <= buf.cap
      BY <2>3 DEF TransportInv, BufOK
    <3>2. Len(buf.data) = peer.sent
      BY <2>1, <3>1, StreamGrows
    <3>3. peer.sent = 0 => buf.data = <<>>
      BY <3>1 DEF Stream
    <3> QED BY <2>1, <2>3, <3>1, <3>2, <3>3 DEF BodyWhole
  <2> QED BY <2>1, <2>2, <2>3 DEF PCs
<1> QED BY <1>1, TransportInvariant, PTL

\* The loop of write_cb that doubles the capacity never wraps round to zero,
\* which would make it endless: the fact SendsReturn rests on.
THEOREM GrowthTerminates == Spec => []NoRoundWraps
  BY RoundFits, TransportInvariant, PTL
=============================================================================
