------------------------------ MODULE Pairing -------------------------------
(***************************************************************************)
(* Pairing a phone with the device: the exchanges an application makes     *)
(* with the broker (proto_notify.c) and with the device (proto_ext.c), in  *)
(* the order the data dependencies impose.  Each is a call of its own, may *)
(* fail, and may be repeated.  Only the deletion of the imported key       *)
(* undoes one of them.                                                     *)
(*                                                                         *)
(* Several phones are paired at the same time, each by an application with *)
(* its own context, and the device has room for a few only.                *)
(***************************************************************************)
EXTENDS HemTypes, FiniteSets

CONSTANTS
  Phones,     \* a phone and the application that pairs it
  Slots,      \* authenticators the device can hold (8 in the firmware)
  MaxLinks    \* bound: registrations opened for a phone

ASSUME PairingAssumption == Slots \in Nat /\ MaxLinks \in Nat \ {0}

VARIABLES
  have,    \* per phone: what the application got from the calls so far
  rid,     \* per phone: the registration the application knows, 0 for none
  links,   \* per phone: the registrations the broker opened
  scanned, \* registrations the phone has answered
  final,   \* registrations finalised at the broker
  slots,   \* phones whose key the device holds
  gone,    \* history: phones whose key was imported and deleted again
  mobile,  \* per application: its context holds a mobile session
  knows    \* per application: what the codes told it about the import

vars == <<have, rid, links, scanned, final, slots, gone, mobile, knows>>

Material == {"epk", "request", "reply", "kid"}
Regs == Phones \X (1..MaxLinks)

TypeOK ==
  /\ have \in [Phones -> SUBSET Material]
  /\ rid \in [Phones -> 0..MaxLinks] /\ links \in [Phones -> 0..MaxLinks]
  /\ scanned \subseteq Regs /\ final \subseteq Regs
  /\ slots \subseteq Phones /\ Cardinality(slots) <= Slots
  /\ gone \subseteq Phones
  /\ mobile \in [Phones -> BOOLEAN]
  /\ knows \in [Phones -> {"no", "doubt", "yes"}]

Init ==
  /\ have = [p \in Phones |-> {}]
  /\ rid = [p \in Phones |-> 0] /\ links = [p \in Phones |-> 0]
  /\ scanned = {} /\ final = {} /\ slots = {} /\ gone = {}
  /\ mobile = [p \in Phones |-> FALSE]
  /\ knows = [p \in Phones |-> "no"]

-----------------------------------------------------------------------------
(* Outcomes of a call                                                      *)

\* Answers for a request that had its effect, when the reply was lost, garbled,
\* a failure half way, or could not be kept
Unheard == {a \in PathResults : Undecided(a)}

Gets(p, what) == have' = [have EXCEPT ![p] = @ \union what]

\* The call fails: the application has nothing new, and may call again
Fails == UNCHANGED vars

-----------------------------------------------------------------------------
(* Broker calls (proto_notify.c)                                           *)

NotifySession(p) ==
  \/ Fails
  \/ /\ Gets(p, {"epk"})
     /\ UNCHANGED <<rid, links, scanned, final, slots, gone, mobile, knows>>

\* The broker opens a registration; where its answer is unusable, the
\* application never learns of it
RegisterInit(p) ==
  /\ {"epk", "request"} \subseteq have[p]
  /\ \/ Fails
     \/ /\ links[p] < MaxLinks /\ links' = [links EXCEPT ![p] = @ + 1]
        /\ rid' \in {[rid EXCEPT ![p] = links[p] + 1], rid}
        /\ UNCHANGED <<have, scanned, final, slots, gone, mobile, knows>>

\* 202 while the phone has not answered, then its reply
RegisterCheck(p) ==
  /\ rid[p] # 0
  /\ \/ Fails
     \/ /\ IF <<p, rid[p]>> \in scanned THEN Gets(p, {"reply"}) ELSE UNCHANGED have
        /\ UNCHANGED <<rid, links, scanned, final, slots, gone, mobile, knows>>

\* Any 2xx is success here; whether its answer arrives makes no difference to
\* what the application has
RegisterFinalise(p) ==
  /\ rid[p] # 0 /\ "kid" \in have[p]
  /\ \/ Fails
     \/ /\ final' = final \union {<<p, rid[p]>>}
        /\ UNCHANGED <<have, rid, links, scanned, slots, gone, mobile, knows>>

-----------------------------------------------------------------------------
(* Device calls (proto_ext.c)                                              *)

\* REQ-AUTH-010: refused before anything is sent, where the path would ask the
\* phone for a token that the device does not take for pairing
MobileRefused(p) == mobile[p]

\* An exchange with the device without an effect on it
ExtCall(p, gets) ==
  \/ MobileRefused(p) /\ Fails
  \/ /\ ~MobileRefused(p)
     /\ Gets(p, {}) \/ Gets(p, gets)
     /\ UNCHANGED <<rid, links, scanned, final, slots, gone, mobile, knows>>

ExtInit(p) == "epk" \in have[p] /\ ExtCall(p, {"request"})
\* Only asks the device for a keyed checksum that the application shows
ExtMac(p) == "epk" \in have[p] /\ ExtCall(p, {})

Imports_Overfull(p) == p \notin slots /\ Cardinality(slots) <= Slots
\* The device imports the key unless it is there already, or there is no room
Imports(p) == p \notin slots /\ Cardinality(slots) < Slots

\* What a caller may conclude from the code and the status
AfterValidate(p, a) ==
  IF a.code = "OK" THEN "yes"
  ELSE IF Undecided(a) /\ knows[p] = "no" THEN "doubt"
  ELSE knows[p]

Accepted_AlreadyPaired(a) == a.code \in {"OK", "DEVICE"}
\* The kid is handed out with a success only: a 406 may mean that the phone is
\* paired already, or that it never will be
Accepted(a) == a.code = "OK"

Explained_AnyFailure(a) == IF a.code = "DEVICE" THEN Answer("DEVICE", 406) ELSE a
\* A recorded 406 is reported as the refused import, whatever the code was
Explained(a) == IF a.code # "OK" /\ a.http = 406 THEN Answer("DEVICE", 406) ELSE a

\* The device did nothing, or it imported the key.  Even where the key went in,
\* the reply may lack a field (req_str), or there is no memory for the result
ExtValidate(p) ==
  /\ "reply" \in have[p]
  /\ \/ MobileRefused(p) /\ Fails
     \/ /\ ~MobileRefused(p)
        /\ \E a \in PathFailures \union PathResults :
             /\ \/ a \in PathFailures /\ UNCHANGED <<slots, gone>>
                \/ /\ a \in Unheard \union {Answer("OK", 200)}
                   /\ Imports(p) /\ slots' = slots \union {p}
                   /\ gone' = gone \ {p}
             /\ IF Accepted(Explained(a)) THEN Gets(p, {"kid"}) ELSE UNCHANGED have
             /\ knows' = [knows EXCEPT ![p] = AfterValidate(p, Explained(a))]
        /\ UNCHANGED <<rid, links, scanned, final, mobile>>

\* ehem_key_delete with the kid, by this application or by one that found the
\* key in the repository: the device forgets the phone, the broker does not.  A
\* deletion the device does not execute changes nothing here.
Unpair(p) ==
  /\ p \in slots /\ slots' = slots \ {p} /\ gone' = gone \union {p}
  /\ UNCHANGED <<have, rid, links, scanned, final, mobile, knows>>

-----------------------------------------------------------------------------
(* The phone, and the application between its calls                        *)

\* The user scans the link on the screen
Scan(p) ==
  /\ rid[p] # 0 /\ scanned' = scanned \union {<<p, rid[p]>>}
  /\ UNCHANGED <<have, rid, links, final, slots, gone, mobile, knows>>

\* ehem_login or ehem_login_mobile
SwitchSession(p) ==
  /\ mobile' = [mobile EXCEPT ![p] = ~@]
  /\ UNCHANGED <<have, rid, links, scanned, final, slots, gone, knows>>

-----------------------------------------------------------------------------
Next ==
  \E p \in Phones :
    \/ NotifySession(p) \/ RegisterInit(p) \/ RegisterCheck(p)
    \/ RegisterFinalise(p) \/ ExtInit(p) \/ ExtMac(p) \/ ExtValidate(p)
    \/ Unpair(p) \/ Scan(p) \/ SwitchSession(p)

Spec == Init /\ [][Next]_vars

-----------------------------------------------------------------------------
(* Properties                                                              *)

\* A phone the broker considers paired is one whose key the device took, and
\* still has unless somebody deleted it: no order of failures, repeated calls,
\* deletions and full tables finalises a registration that the device never
\* backed, even while others compete for its slots.
FinalMeansPaired ==
  \A r \in final : r[1] \in slots \union gone

\* The codes of ehem_ext_validate tell the truth about the import: a caller who
\* saw only refusals left nothing on the device, and one who saw a success did
\* and holds the kid.  NETWORK, PROTOCOL, NOMEM and a DEVICE with status 500 may
\* leave a key behind that nobody knows of; a DEVICE with 406 never does.
CodesTellImport ==
  \A p \in Phones :
    /\ knows[p] = "no" => p \notin slots
    /\ knows[p] = "yes" => p \in slots \union gone /\ "kid" \in have[p]
=============================================================================
