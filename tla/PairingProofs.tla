---------------------------- MODULE PairingProofs ---------------------------
(***************************************************************************)
(* What holds of a pairing for any number of phones, slots and             *)
(* registrations.  Neither FinalMeansPaired nor CodesTellImport is         *)
(* inductive: the first needs to know where a kid comes from, and a        *)
(* finalisation happens many calls after the import it relies on.          *)
(***************************************************************************)
EXTENDS Pairing, FiniteSetTheorems, TLAPS

\* A kid the application holds is one of a key the device took.
KidBacked == \A p \in Phones : "kid" \in have[p] => p \in slots \union gone

PairingInv ==
  /\ TypeOK /\ IsFiniteSet(slots)
  /\ KidBacked /\ FinalMeansPaired /\ CodesTellImport

-----------------------------------------------------------------------------
\* An answer for a request that had no effect is no success, also as
\* ehem_ext_validate reports it.
LEMMA FailuresAreNotOk ==
  ASSUME NEW a \in PathFailures
  PROVE  a.code # "OK" /\ Explained(a).code # "OK"
BY DEF PathFailures, Answer, Explained

\* After an import the answer is a success, or one that leaves it open; the
\* status of a refused import is not among them.
LEMMA ImportAnswers ==
  ASSUME NEW a \in Unheard \union {Answer("OK", 200)}
  PROVE  /\ Explained(a) = a
         /\ a = Answer("OK", 200) \/ (a.code # "OK" /\ Undecided(a))
BY DEF Unheard, PathResults, Undecided, Answer, Explained

\* Adding the key of a phone that may be imported keeps the table within bounds.
LEMMA ImportFits ==
  ASSUME NEW p \in Phones, IsFiniteSet(slots), Cardinality(slots) <= Slots,
         Imports(p)
  PROVE  /\ IsFiniteSet(slots \union {p})
         /\ Cardinality(slots \union {p}) <= Slots
<1>1. IsFiniteSet(slots \union {p})
      /\ Cardinality(slots \union {p}) = Cardinality(slots) + 1
  BY FS_AddElement DEF Imports
<1>2. Cardinality(slots) \in Nat
  BY FS_CardinalityType
<1> QED
  BY <1>1, <1>2, PairingAssumption DEF Imports

\* A deleted key makes room.
LEMMA DeletionFits ==
  ASSUME NEW p \in slots, IsFiniteSet(slots), Cardinality(slots) <= Slots
  PROVE  /\ IsFiniteSet(slots \ {p})
         /\ Cardinality(slots \ {p}) <= Slots
<1>1. /\ IsFiniteSet(slots \ {p})
      /\ Cardinality(slots \ {p}) = Cardinality(slots) - 1
  BY FS_RemoveElement
<1>2. Cardinality(slots) \in Nat
  BY FS_CardinalityType
<1> QED
  BY <1>1, <1>2, PairingAssumption

\* Nothing is paired or known at the start.
LEMMA PairingInit == Init => PairingInv
<1> SUFFICES ASSUME Init PROVE PairingInv
  OBVIOUS
<1>1. IsFiniteSet(slots) /\ Cardinality(slots) = 0
  BY FS_EmptySet DEF Init
<1>2. TypeOK
  BY <1>1, PairingAssumption DEF Init, TypeOK
<1> QED
  BY <1>1, <1>2
     DEF Init, PairingInv, KidBacked, FinalMeansPaired, CodesTellImport

-----------------------------------------------------------------------------
\* An action that imports nothing, tells nothing about an import and hands out no
\* kid keeps what is known about the import.
LEMMA ImportUntouched ==
  ASSUME PairingInv, slots' = slots, gone' = gone, knows' = knows,
         \A q \in Phones : have[q] \subseteq have'[q],
         \A q \in Phones : "kid" \in have'[q] => "kid" \in have[q]
  PROVE  KidBacked' /\ CodesTellImport'
BY DEF PairingInv, KidBacked, CodesTellImport

\* An exchange with the device that does not change it.
LEMMA ExtCallStep ==
  ASSUME PairingInv, NEW p \in Phones, NEW gets \in SUBSET (Material \ {"kid"}),
         ExtCall(p, gets)
  PROVE  PairingInv'
<1>1. CASE Fails
  BY <1>1
     DEF Fails, vars, PairingInv, TypeOK, KidBacked, FinalMeansPaired,
         CodesTellImport
<1>2. CASE /\ Gets(p, {}) \/ Gets(p, gets)
           /\ UNCHANGED <<rid, links, scanned, final, slots, gone, mobile, knows>>
  <2>1. \E more \in SUBSET (Material \ {"kid"}) :
          have' = [have EXCEPT ![p] = @ \union more]
    BY <1>2 DEF Gets
  <2>2. TypeOK' /\ FinalMeansPaired' /\ IsFiniteSet(slots')
    BY <1>2, <2>1 DEF PairingInv, TypeOK, FinalMeansPaired
  <2>3. KidBacked' /\ CodesTellImport'
    BY <1>2, <2>1, ImportUntouched DEF PairingInv, TypeOK
  <2> QED
    BY <2>2, <2>3 DEF PairingInv
<1> QED
  BY <1>1, <1>2 DEF ExtCall

\* ehem_ext_validate, on each of its ways out.
LEMMA ValidateStep ==
  ASSUME PairingInv, NEW p \in Phones, ExtValidate(p)
  PROVE  PairingInv'
<1>1. CASE Fails
  BY <1>1
     DEF Fails, vars, PairingInv, TypeOK, KidBacked, FinalMeansPaired,
         CodesTellImport
<1>2. CASE ~Fails
  <2>0. PICK a \in PathFailures \union PathResults :
          /\ \/ a \in PathFailures /\ UNCHANGED <<slots, gone>>
             \/ /\ a \in Unheard \union {Answer("OK", 200)}
                /\ Imports(p) /\ slots' = slots \union {p}
                /\ gone' = gone \ {p}
          /\ IF Accepted(Explained(a)) THEN Gets(p, {"kid"}) ELSE UNCHANGED have
          /\ knows' = [knows EXCEPT ![p] = AfterValidate(p, Explained(a))]
    BY <1>2, Zenon DEF ExtValidate
  <2>1. UNCHANGED <<rid, links, scanned, final, mobile>>
    BY <1>2, Zenon DEF ExtValidate
  <2>2. /\ slots' \subseteq Phones /\ gone' \subseteq Phones
        /\ slots \union gone \subseteq slots' \union gone'
        /\ IsFiniteSet(slots') /\ Cardinality(slots') <= Slots
    BY <2>0, ImportFits DEF PairingInv, TypeOK
  <2>3. knows' \in [Phones -> {"no", "doubt", "yes"}]
    BY <2>0 DEF PairingInv, TypeOK, AfterValidate
  <2>4. have' \in [Phones -> SUBSET Material]
    BY <2>0 DEF PairingInv, TypeOK, Gets, Material
  <2>5. TypeOK'
    BY <2>1, <2>2, <2>3, <2>4 DEF PairingInv, TypeOK
  <2>6. FinalMeansPaired'
    BY <2>1, <2>2 DEF PairingInv, FinalMeansPaired
  <2>7. ASSUME Explained(a).code = "OK"  PROVE KidBacked' /\ CodesTellImport'
    <3>1. slots' = slots \union {p} /\ have' = [have EXCEPT ![p] = @ \union {"kid"}]
          /\ knows' = [knows EXCEPT ![p] = "yes"]
      BY <2>0, <2>7, FailuresAreNotOk DEF Accepted, Gets, AfterValidate
    <3>2. KidBacked'
      BY <2>2, <3>1 DEF PairingInv, TypeOK, KidBacked
    <3>3. CodesTellImport'
      BY <2>2, <3>1 DEF PairingInv, TypeOK, CodesTellImport
    <3> QED
      BY <3>2, <3>3
  <2>8. ASSUME Explained(a).code # "OK"  PROVE KidBacked' /\ CodesTellImport'
    <3>1. have' = have
      BY <2>0, <2>8 DEF Accepted
    <3>2. CASE slots' = slots /\ gone' = gone
      <4>1. \A q \in Phones : \/ knows'[q] = knows[q]
                              \/ knows'[q] = "doubt" /\ knows[q] = "no"
        BY <2>0, <2>8 DEF PairingInv, TypeOK, AfterValidate
      <4> QED
        BY <3>1, <3>2, <4>1 DEF PairingInv, KidBacked, CodesTellImport
    <3>3. CASE slots' = slots \union {p} /\ a \in Unheard \union {Answer("OK", 200)}
      <4>0. Undecided(Explained(a))
        BY <2>8, <3>3, ImportAnswers DEF Answer
      <4>1. /\ knows'[p] # "no"
            /\ knows'[p] = "yes" => knows[p] = "yes"
            /\ \A q \in Phones \ {p} : knows'[q] = knows[q]
        BY <2>0, <2>8, <4>0 DEF PairingInv, TypeOK, AfterValidate
      <4> QED
        BY <2>2, <3>1, <3>3, <4>1 DEF PairingInv, TypeOK, KidBacked, CodesTellImport
    <3> QED
      BY <2>0, <2>8, <3>2, <3>3
  <2> QED
    BY <2>2, <2>5, <2>6, <2>7, <2>8 DEF PairingInv
<1> QED
  BY <1>1, <1>2

\* The deletion of a key.
LEMMA UnpairStep ==
  ASSUME PairingInv, NEW p \in Phones, Unpair(p)
  PROVE  PairingInv'
<1>1. /\ p \in slots /\ slots' = slots \ {p} /\ gone' = gone \union {p}
      /\ UNCHANGED <<have, rid, links, scanned, final, mobile, knows>>
  BY Zenon DEF Unpair
<1>2. IsFiniteSet(slots') /\ Cardinality(slots') <= Slots
  BY <1>1, DeletionFits DEF PairingInv, TypeOK
<1>3. TypeOK'
  BY <1>1, <1>2 DEF PairingInv, TypeOK
<1>4. KidBacked' /\ FinalMeansPaired' /\ CodesTellImport'
  BY <1>1 DEF PairingInv, KidBacked, FinalMeansPaired, CodesTellImport
<1> QED
  BY <1>2, <1>3, <1>4 DEF PairingInv

-----------------------------------------------------------------------------
\* The calls to the broker, the phone and the application keep the invariant.
LEMMA BrokerStep ==
  ASSUME PairingInv, NEW p \in Phones,
         \/ NotifySession(p) \/ RegisterInit(p) \/ RegisterCheck(p)
         \/ RegisterFinalise(p) \/ Scan(p) \/ SwitchSession(p)
  PROVE  PairingInv'
<1> USE DEF PairingInv, TypeOK, Material, Regs
<1>1. CASE Fails
  BY <1>1
     DEF Fails, vars, KidBacked, FinalMeansPaired, CodesTellImport
<1>2. CASE ~Fails /\ NotifySession(p)
  <2>1. /\ have' = [have EXCEPT ![p] = @ \union {"epk"}]
        /\ UNCHANGED <<rid, links, scanned, final, slots, gone, mobile, knows>>
    BY <1>2, Zenon DEF NotifySession, Gets
  <2>2. KidBacked' /\ CodesTellImport'
    BY <2>1, ImportUntouched
  <2> QED
    BY <2>1, <2>2 DEF FinalMeansPaired
<1>3. CASE ~Fails /\ RegisterInit(p)
  <2>1. /\ links[p] < MaxLinks /\ links' = [links EXCEPT ![p] = @ + 1]
        /\ rid' = [rid EXCEPT ![p] = links[p] + 1] \/ rid' = rid
        /\ UNCHANGED <<have, scanned, final, slots, gone, mobile, knows>>
    BY <1>3 DEF RegisterInit
  <2>2. rid' \in [Phones -> 0..MaxLinks] /\ links' \in [Phones -> 0..MaxLinks]
    BY <2>1, PairingAssumption
  <2> QED
    BY <2>1, <2>2 DEF KidBacked, FinalMeansPaired, CodesTellImport
<1>4. CASE ~Fails /\ RegisterCheck(p)
  <2>1. /\ have' = [have EXCEPT ![p] = @ \union {"reply"}] \/ have' = have
        /\ UNCHANGED <<rid, links, scanned, final, slots, gone, mobile, knows>>
    BY <1>4, Zenon DEF RegisterCheck, Gets
  <2>2. KidBacked' /\ CodesTellImport'
    BY <2>1, ImportUntouched
  <2> QED
    BY <2>1, <2>2 DEF FinalMeansPaired
<1>5. CASE ~Fails /\ RegisterFinalise(p)
  <2>1. /\ rid[p] # 0 /\ "kid" \in have[p]
        /\ final' = final \union {<<p, rid[p]>>}
        /\ UNCHANGED <<have, rid, links, scanned, slots, gone, mobile, knows>>
    BY <1>5, Zenon DEF RegisterFinalise
  <2>2. p \in slots \union gone /\ rid[p] \in 1..MaxLinks
    BY <2>1, PairingAssumption DEF KidBacked
  <2> QED
    BY <2>1, <2>2 DEF KidBacked, FinalMeansPaired, CodesTellImport
<1>6. CASE Scan(p)
  <2>1. /\ rid[p] # 0 /\ scanned' = scanned \union {<<p, rid[p]>>}
        /\ UNCHANGED <<have, rid, links, final, slots, gone, mobile, knows>>
    BY <1>6, Zenon DEF Scan
  <2>2. rid[p] \in 1..MaxLinks
    BY <2>1, PairingAssumption
  <2> QED
    BY <2>1, <2>2 DEF KidBacked, FinalMeansPaired, CodesTellImport
<1>7. CASE SwitchSession(p)
  <2>1. /\ mobile' = [mobile EXCEPT ![p] = ~@]
        /\ UNCHANGED <<have, rid, links, scanned, final, slots, gone, knows>>
    BY <1>7, Zenon DEF SwitchSession
  <2>2. mobile' \in [Phones -> BOOLEAN]
    BY <2>1, Zenon
  <2> QED
    BY <2>1, <2>2 DEF KidBacked, FinalMeansPaired, CodesTellImport
<1> QED
  BY <1>1, <1>2, <1>3, <1>4, <1>5, <1>6, <1>7, Zenon

\* Every step keeps the invariant.
LEMMA PairingStep == PairingInv /\ [Next]_vars => PairingInv'
<1> SUFFICES ASSUME PairingInv, [Next]_vars PROVE PairingInv'
  OBVIOUS
<1>1. CASE UNCHANGED vars
  BY <1>1
     DEF vars, PairingInv, TypeOK, KidBacked, FinalMeansPaired, CodesTellImport
<1>2. CASE Next
  <2>1. PICK p \in Phones :
          \/ NotifySession(p) \/ RegisterInit(p) \/ RegisterCheck(p)
          \/ RegisterFinalise(p) \/ ExtInit(p) \/ ExtMac(p) \/ ExtValidate(p)
          \/ Unpair(p) \/ Scan(p) \/ SwitchSession(p)
    BY <1>2, Zenon DEF Next
  <2>2. CASE ExtInit(p)
    <3>1. {"request"} \in SUBSET (Material \ {"kid"})
      BY DEF Material
    <3> QED
      BY <2>2, <3>1, ExtCallStep, Zenon DEF ExtInit
  <2>3. CASE ExtMac(p)
    <3>1. {} \in SUBSET (Material \ {"kid"})
      OBVIOUS
    <3> QED
      BY <2>3, <3>1, ExtCallStep, Zenon DEF ExtMac
  <2> QED
    BY <2>1, <2>2, <2>3, ValidateStep, UnpairStep, BrokerStep, Zenon
<1> QED
  BY <1>1, <1>2, Zenon

\* The invariant of the pairing, for any number of phones and slots.
THEOREM PairingInvariant == Spec => []PairingInv
<1>1. Init => PairingInv
  BY PairingInit
<1>2. PairingInv /\ [Next]_vars => PairingInv'
  BY PairingStep
<1> QED
  BY <1>1, <1>2, PTL DEF Spec

\* The device's table is never overfull, and the rest is of its type.
THEOREM PairingTypes == Spec => []TypeOK
<1>1. PairingInv => TypeOK
  BY DEF PairingInv
<1> QED
  BY <1>1, PairingInvariant, PTL

\* What the broker considers paired the device took, and has unless it was deleted.
THEOREM FinalIsPaired == Spec => []FinalMeansPaired
<1>1. PairingInv => FinalMeansPaired
  BY DEF PairingInv
<1> QED
  BY <1>1, PairingInvariant, PTL

\* The codes of ehem_ext_validate tell the truth about the import.
THEOREM CodesAreTrue == Spec => []CodesTellImport
<1>1. PairingInv => CodesTellImport
  BY DEF PairingInv
<1> QED
  BY <1>1, PairingInvariant, PTL
=============================================================================
