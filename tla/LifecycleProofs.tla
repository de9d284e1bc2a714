-------------------------- MODULE LifecycleProofs ---------------------------
(***************************************************************************)
(* Proofs about Lifecycle: the balance of the backends' initialisations,   *)
(* the check of the loaded crypto library and the soundness of the heap,   *)
(* for any number of contexts and of struct probes.                        *)
(***************************************************************************)
EXTENDS Lifecycle, TLAPS

InitSteps == {"version", "engine", "probe", "transport"}
OptionSteps == {"alloc", "ca_file", "checkin_url", "url"}
FactorySteps == {"trio", "check", "base_url", "st_ca"}

\* Which steps an operation goes through, and what the transport factory holds.
StepOK ==
  /\ call.op = "none" => call.step = "ret"
  /\ call.op = "init" => call.step \in InitSteps \union {"ret"}
  /\ call.op = "derive" => call.step \in InitSteps \union {"rng", "ret"}
  /\ call.op = "convert" => call.step \in {"use", "ret"}
  /\ call.op = "create" => call.step \notin {"rng", "use"}
  /\ call.step \notin {"check", "base_url", "st_ca", "ret"} => call.held = {}
  /\ call.step = "check" => call.held \subseteq OwnTransport
  /\ call.step = "base_url" => call.held = OwnTransport
  /\ call.step = "st_ca" => call.held = OwnTransport \union {"base_url"}

\* Where the initialisations stand: libcurl is up with the latch, wolfCrypt also
\* while its library is checked; what needs the latch comes after it.
CountOK ==
  /\ ready = TRUE => call.step \notin InitSteps /\ curl = 1
  /\ ready = FALSE => call.step \notin FactorySteps \union {"rng"} /\ curl = 0
  /\ crypto = 1 <=> /\ engine = "wolfssl"
                    /\ ready = TRUE \/ call.step \in {"probe", "transport"}

\* What the checks passed so far say of the library.
LibraryOK ==
  /\ lib \in 0..(Probes + 1)
  /\ engine = "openssl" => lib \in {0, 1, Probes + 1}
  /\ call.step \in {"engine", "probe", "transport"} => lib # Probes + 1
  /\ call.step = "probe" =>
       /\ call.probe \in 1..Last
       /\ \A k \in 1..Probes : k < call.probe => lib # k
  /\ call.step = "transport" => lib = 0
  /\ ready = TRUE => lib = 0

\* The context a create is building.
Building(c) == call.op = "create" /\ call.c = c /\ call.step # "ret"

\* What the transport factory has taken, before the context knows of it.
Unattached ==
  IF call.step \in {"check", "base_url", "st_ca"} THEN call.held ELSE {}

\* Only live contexts, and the one under construction, point to anything; the
\* one under construction has no transport of its own yet.
ContextOK ==
  /\ \A c \in Ctxs : c \notin live /\ ~Building(c) => ptrs[c] = {}
  /\ \A c \in Ctxs : Building(c) => c \notin live /\ ptrs[c] \cap Factory = {}
  /\ \A c \in Ctxs : call.step = "alloc" /\ Building(c) => ptrs[c] = {}
  /\ \A c \in Ctxs : c \notin live => owns[c] = FALSE
  /\ \A c \in Ctxs : owns[c] => "app" \notin ptrs[c]
  /\ \A c \in Ctxs : ~owns[c] => ptrs[c] \cap Factory = {}
  /\ \A c \in Ctxs : Building(c) /\ call.step \in FactorySteps \union InitSteps
       => "app" \notin ptrs[c]

\* Allocated is what the application lent, what a context points to, and what
\* the factory is putting together.
HeapOK ==
  /\ heap \subseteq Ctxs \X Blocks
  /\ \A c \in Ctxs, b \in Blocks :
       <<c, b>> \in heap <=>
         \/ b = "app"
         \/ b \in ptrs[c]
         \/ Building(c) /\ b \in Unattached
  /\ wrong = FALSE

LifeInv ==
  /\ TypeOK /\ StepOK /\ CountOK /\ LibraryOK /\ ContextOK /\ HeapOK

-----------------------------------------------------------------------------
(* Calls                                                                   *)

CallType ==
  call \in [op : {"none", "init", "create", "derive", "convert"}, c : Ctxs,
            step : Steps, probe : 0..Probes, rc : Codes, held : SUBSET Factory]

\* The fields of no call.
LEMMA NoCallFields ==
  /\ NoCall \in [op : {"none", "init", "create", "derive", "convert"}, c : Ctxs,
                 step : Steps, probe : 0..Probes, rc : Codes, held : SUBSET Factory]
  /\ NoCall.op = "none" /\ NoCall.step = "ret" /\ NoCall.held = {}
<1>1. (CHOOSE c \in Ctxs : TRUE) \in Ctxs
  BY LifecycleAssumption
<1> QED BY <1>1, LifecycleAssumption DEF NoCall, Steps, Codes

\* A call may end at any step.
LEMMA CallEnds ==
  ASSUME CallType, StepOK, NEW rc \in Codes,
         call' = [call EXCEPT !.step = "ret", !.rc = rc]
  PROVE  CallType' /\ StepOK'
<1>1. /\ call'.step = "ret" /\ call'.op = call.op /\ CallType'
  BY DEF CallType, Steps
<1> QED BY <1>1 DEF StepOK, InitSteps

\* A call keeps to the steps of its operation.
LEMMA CallStep ==
  ASSUME CallType, StepOK, engine \in Engines, [Next]_vars
  PROVE  CallType' /\ StepOK'
<1>1. CASE GlobalInit
  BY <1>1, NoCallFields DEF CallType, StepOK, GlobalInit, FirstStep, Latched,
     globals, Idle, InitSteps, Steps, Codes
<1>2. CASE GlobalCleanup
  BY <1>2, NoCallFields DEF CallType, StepOK, GlobalCleanup, globals, Idle,
     InitSteps, Steps, Codes
<1>3. CASE Collect
  BY <1>3, NoCallFields DEF CallType, StepOK, Collect, globals, Idle,
     InitSteps, Steps, Codes
<1>4. CASE UseEngine
  BY <1>4, NoCallFields DEF CallType, StepOK, UseEngine, Return, globals, Idle,
     InitSteps, Steps, Codes
<1>5. CASE CheckVersion
  <2>1. call.step = "version"
    BY <1>5 DEF CheckVersion
  <2>2. ASSUME call' = [call EXCEPT !.step = "engine"]
        PROVE  CallType' /\ StepOK'
    BY <2>1, <2>2 DEF CallType, StepOK, InitSteps, Steps
  <2> QED BY <1>5, <2>2, CallEnds DEF CheckVersion, InitFailed, Go, Codes
<1>6. CASE InitEngine
  <2>1. call.step = "engine"
    BY <1>6 DEF InitEngine
  <2>2. ASSUME NEW rc \in Codes, call' = [call EXCEPT !.step = "ret", !.rc = rc]
        PROVE  CallType' /\ StepOK'
    BY <2>1, <2>2 DEF CallType, StepOK, InitSteps, Steps
  <2>3. ASSUME call' = [call EXCEPT !.step = "probe", !.probe = 1]
        PROVE  CallType' /\ StepOK'
    <3>1. 1 \in 0..Probes
      BY LifecycleAssumption
    <3> QED BY <2>1, <2>3, <3>1 DEF CallType, StepOK, InitSteps, Steps
  <2> QED BY <1>6, <2>2, <2>3 DEF InitEngine, InitFailed, Codes
<1>7. CASE Probe
  <2>1. call.step = "probe"
    BY <1>7 DEF Probe
  <2>2. ASSUME NEW rc \in Codes, call' = [call EXCEPT !.step = "ret", !.rc = rc]
        PROVE  CallType' /\ StepOK'
    BY <2>1, <2>2 DEF CallType, StepOK, InitSteps, Steps
  <2>3. ASSUME call.probe < Last, call' = [call EXCEPT !.probe = @ + 1]
        PROVE  CallType' /\ StepOK'
    <3>1. call.probe + 1 \in 0..Probes
      BY <2>3, LifecycleAssumption DEF CallType, Last
    <3> QED BY <2>1, <2>3, <3>1 DEF CallType, StepOK, InitSteps
  <2>4. ASSUME call' = [call EXCEPT !.step = "transport"]
        PROVE  CallType' /\ StepOK'
    BY <2>1, <2>4 DEF CallType, StepOK, InitSteps, Steps
  <2> QED BY <1>7, <2>2, <2>3, <2>4 DEF Probe, InitFailed, Go, Codes
<1>8. CASE InitTransport
  <2>1. call.step = "transport"
    BY <1>8 DEF InitTransport
  <2>2. ASSUME AfterInit # "ret", call' = [call EXCEPT !.step = AfterInit]
        PROVE  CallType' /\ StepOK'
    <3>1. \/ call.op = "create" /\ AfterInit = "trio"
          \/ call.op = "derive" /\ AfterInit = "rng"
      BY <2>2 DEF AfterInit
    <3> QED BY <2>1, <2>2, <3>1 DEF CallType, StepOK, InitSteps, Steps
  <2> QED BY <1>8, <2>2, CallEnds DEF InitTransport, InitFailed, Return, Go, Codes
<1>9. CASE AllocCtx
  BY <1>9, NoCallFields DEF CallType, StepOK, AllocCtx, Return, Go, Alloc,
     globals, Idle, InitSteps, Steps, Codes
<1>10. CASE CopyCaFile
  BY <1>10, NoCallFields DEF CallType, StepOK, CopyCaFile, Takes, CreateFails,
     Return, Alloc, globals, Idle, InitSteps, Steps, Codes
<1>11. CASE CopyCheckinUrl
  <2>1. call.step = "checkin_url"
    BY <1>11 DEF CopyCheckinUrl
  <2>2. Return("NOMEM") \/ Go("url")
    BY <1>11 DEF CopyCheckinUrl, CreateFails
  <2> QED BY <2>1, <2>2 DEF Return, Go, CallType, StepOK, InitSteps, Steps, Codes
<1>12. CASE CopyUrl
  <2>1. call.step = "url"
    BY <1>12 DEF CopyUrl
  <2>2. ASSUME NEW rc \in Codes, call' = [call EXCEPT !.step = "ret", !.rc = rc]
        PROVE  CallType' /\ StepOK'
    BY <2>1, <2>2 DEF CallType, StepOK, InitSteps, Steps
  <2>3. ASSUME NEW s \in {"version", "trio"}, call' = [call EXCEPT !.step = s]
        PROVE  CallType' /\ StepOK'
    BY <2>1, <2>3 DEF CallType, StepOK, InitSteps, Steps
  <2>4. \/ \E rc \in {"ARG", "NOMEM", "OK"} : Return(rc)
        \/ Go(FirstStep("trio"))
    BY <1>12 DEF CopyUrl, CreateFails
  <2>5. FirstStep("trio") \in {"version", "trio"}
    BY DEF FirstStep
  <2> QED BY <2>2, <2>3, <2>4, <2>5 DEF Return, Go, Codes
<1>13. CASE MakeTrio
  <2>1. call.step = "trio"
    BY <1>13 DEF MakeTrio
  <2>2. PICK got \in SUBSET OwnTransport :
          call' = [call EXCEPT !.step = "check", !.held = @ \union got]
    BY <1>13 DEF MakeTrio, FactoryTakes
  <2>3. call.held \union got \in SUBSET Factory /\ call.held \union got \subseteq OwnTransport
    BY <2>1 DEF StepOK, Factory
  <2> QED BY <2>1, <2>2, <2>3 DEF CallType, StepOK, InitSteps, Steps
<1>14. CASE CopyBaseUrl
  <2>1. call.step = "base_url" /\ call.held = OwnTransport
    BY <1>14 DEF CopyBaseUrl, StepOK
  <2>2. ASSUME NEW bs, FactoryFails(bs)
        PROVE  CallType' /\ StepOK'
    BY <2>1, <2>2 DEF FactoryFails, Return, CallType, StepOK, InitSteps, Steps, Codes
  <2>3. ASSUME FactoryTakes({"base_url"}, "st_ca")
        PROVE  CallType' /\ StepOK'
    <3>1. OwnTransport \union {"base_url"} \in SUBSET Factory
      BY DEF Factory
    <3> QED BY <2>1, <2>3, <3>1 DEF FactoryTakes, CallType, StepOK, InitSteps, Steps
  <2> QED BY <1>14, <2>2, <2>3 DEF CopyBaseUrl
<1>15. CASE Finish
  BY <1>15, NoCallFields DEF CallType, StepOK, Finish, FactoryFails, Return,
     globals, Idle, InitSteps, Steps, Codes
<1>16. ASSUME NEW c \in Ctxs, Login(c)
       PROVE  CallType' /\ StepOK'
  BY <1>16, NoCallFields DEF CallType, StepOK, Login, Alloc, globals, Idle,
     InitSteps, Steps, Codes
<1>17. ASSUME NEW c \in Ctxs, Logout(c)
       PROVE  CallType' /\ StepOK'
  BY <1>17, NoCallFields DEF CallType, StepOK, Logout, globals, Idle,
     InitSteps, Steps, Codes
<1>18. ASSUME NEW c \in Ctxs, ErrorRecorded(c)
       PROVE  CallType' /\ StepOK'
  BY <1>18, NoCallFields DEF CallType, StepOK, ErrorRecorded, Alloc, globals,
     Idle, InitSteps, Steps, Codes
<1>19. ASSUME NEW c \in Ctxs, ErrorCleared(c)
       PROVE  CallType' /\ StepOK'
  BY <1>19, NoCallFields DEF CallType, StepOK, ErrorCleared, globals, Idle,
     InitSteps, Steps, Codes
<1>20. CASE Derive
  BY <1>20, NoCallFields DEF CallType, StepOK, Derive, SelfInit, FirstStep,
     Latched, globals, Idle, InitSteps, Steps, Codes
<1>21. ASSUME NEW c \in Ctxs, Destroy(c)
       PROVE  CallType' /\ StepOK'
  BY <1>21, NoCallFields DEF CallType, StepOK, Destroy, globals, Idle,
     InitSteps, Steps, Codes
<1>22. ASSUME NEW c \in Ctxs, NEW o \in OptionSets, Create(c, o)
       PROVE  CallType' /\ StepOK'
  BY <1>22, NoCallFields DEF CallType, StepOK, Create, globals, Idle,
     InitSteps, Steps, Codes
<1>23. CASE UNCHANGED vars
  BY <1>23, NoCallFields DEF CallType, StepOK, vars, globals, Idle, InitSteps,
     Steps, Codes
<1>24. CASE CheckTrio
  <2>1. call.step = "check"
    BY <1>24 DEF CheckTrio
  <2>2. ASSUME call.held = OwnTransport, call' = [call EXCEPT !.step = "base_url"]
        PROVE  CallType' /\ StepOK'
    BY <2>1, <2>2 DEF CallType, StepOK, InitSteps, Steps
  <2> QED BY <1>24, <2>2, CallEnds DEF CheckTrio, FactoryFails, Return, Go, Codes
<1>25. CASE Convert
  BY <1>25, NoCallFields DEF CallType, StepOK, Convert, globals, Idle, InitSteps,
     Steps, Codes
<1> QED
  BY <1>1, <1>2, <1>3, <1>4, <1>5, <1>6, <1>7, <1>8, <1>9, <1>10, <1>11,
     <1>12, <1>13, <1>14, <1>15, <1>16, <1>17, <1>18, <1>19, <1>20, <1>21,
     <1>22, <1>23, <1>24, <1>25 DEF Next

-----------------------------------------------------------------------------
(* The backends                                                            *)

GlobalType == engine \in Engines /\ ready \in BOOLEAN /\ crypto \in 0..1 /\ curl \in 0..1

\* The step of a call that ends.
LEMMA Ended ==
  ASSUME CallType, NEW rc, call' = [call EXCEPT !.step = "ret", !.rc = rc]
  PROVE  call'.step = "ret"
  BY DEF CallType

\* A step outside the init that leaves the backends alone.
LEMMA QuietMove ==
  ASSUME GlobalType, CountOK, LibraryOK, UNCHANGED globals, call.step \notin InitSteps,
         call'.step \notin {"engine", "probe", "transport"},
         call'.step = "version" => ready = FALSE,
         call'.step \in FactorySteps \union {"rng"} => ready = TRUE
  PROVE  GlobalType' /\ CountOK' /\ LibraryOK'
<1>1. /\ engine' = engine /\ lib' = lib /\ ready' = ready
      /\ crypto' = crypto /\ curl' = curl
  BY DEF globals
<1>2. GlobalType'
  BY <1>1, Zenon DEF GlobalType
<1>3. CountOK'
  BY <1>1 DEF CountOK, GlobalType, InitSteps, FactorySteps
<1>4. LibraryOK'
  BY <1>1 DEF LibraryOK
<1> QED BY <1>2, <1>3, <1>4

\* A failed init after the engine came up undoes it.
LEMMA BackendUndone ==
  ASSUME CallType, GlobalType, CountOK, LibraryOK, call.step \in {"probe", "transport"},
         NEW rc, InitFailed(rc), crypto' = Undo, UNCHANGED curl
  PROVE  GlobalType' /\ CountOK' /\ LibraryOK'
<1>1. UNCHANGED <<engine, lib, curl>> /\ ready' = FALSE
  BY DEF InitFailed
<1>2. call'.step = "ret"
  BY Ended DEF InitFailed
<1>3. ready = FALSE /\ curl = 0 /\ (crypto = 1 <=> engine = "wolfssl")
  BY DEF CountOK, GlobalType, InitSteps
<1>4. crypto' = 0
  BY <1>3 DEF Undo, GlobalType
<1>5. GlobalType'
  BY <1>1, <1>3, <1>4 DEF GlobalType
<1>6. CountOK'
  BY <1>1, <1>2, <1>3, <1>4 DEF CountOK, InitSteps, FactorySteps
<1>7. LibraryOK'
  BY <1>1, <1>2 DEF LibraryOK
<1> QED BY <1>5, <1>6, <1>7

\* Every init, every failure of one and every cleanup leaves the counts where
\* the step says, and the latch rises only for a library that passed every check.
LEMMA BackendStep ==
  ASSUME CallType, StepOK, GlobalType, CountOK, LibraryOK, [Next]_vars
  PROVE  GlobalType' /\ CountOK' /\ LibraryOK'
<1>1. CASE GlobalInit
  <2>1. UNCHANGED globals
    BY <1>1 DEF GlobalInit
  <2>2. /\ call.step = "ret"
        /\ call'.step = IF ready THEN "ret" ELSE "version"
    BY <1>1, NoCallFields DEF GlobalInit, FirstStep, Latched, CallType, Idle,
       StepOK
  <2> QED BY <2>1, <2>2, QuietMove DEF InitSteps, FactorySteps, GlobalType
<1>2. CASE GlobalCleanup
  <2>1. call.step = "ret" /\ call' = call
    BY <1>2 DEF GlobalCleanup, Idle, StepOK
  <2>2. ready = TRUE /\ curl = 1 /\ (crypto = 1 <=> engine = "wolfssl")
    BY <1>2 DEF GlobalCleanup, CountOK, GlobalType
  <2>3. crypto' = 0 /\ curl' = 0 /\ ready' = FALSE /\ UNCHANGED <<engine, lib>>
    BY <1>2, <2>2 DEF GlobalCleanup, GlobalType
  <2>4. GlobalType'
    <3>1. ready' \in BOOLEAN
      BY <2>3, Zenon
    <3> QED BY <2>3, <3>1 DEF GlobalType
  <2>5. CountOK'
    BY <2>1, <2>3 DEF CountOK, FactorySteps
  <2>6. LibraryOK'
    BY <2>1, <2>3 DEF LibraryOK
  <2> QED BY <2>4, <2>5, <2>6
<1>3. CASE Collect
  <2>1. UNCHANGED globals
    BY <1>3 DEF Collect
  <2>2. call.step = "ret" /\ call'.step = "ret"
    BY <1>3, NoCallFields DEF Collect, CallType
  <2> QED BY <2>1, <2>2, QuietMove DEF InitSteps, FactorySteps
<1>4. CASE UseEngine
  <2>1. UNCHANGED globals
    BY <1>4 DEF UseEngine
  <2>2. call.step \in {"rng", "use"} /\ call'.step = "ret"
    BY <1>4 DEF UseEngine, Return, CallType
  <2> QED BY <2>1, <2>2, QuietMove DEF InitSteps, FactorySteps
<1>5. CASE CheckVersion
  <2>1. call.step = "version" /\ ready = FALSE
    BY <1>5 DEF CheckVersion, CountOK, GlobalType, InitSteps
  <2>2. CASE lib = OtherVersion
    <3>1. UNCHANGED <<engine, lib, crypto, curl>> /\ ready' = FALSE
      BY <1>5, <2>2 DEF CheckVersion, InitFailed
    <3>2. call'.step = "ret"
      BY <1>5, <2>2, Ended DEF CheckVersion, InitFailed
    <3> QED BY <2>1, <3>1, <3>2
        DEF GlobalType, CountOK, LibraryOK, InitSteps, FactorySteps
  <2>3. CASE lib # OtherVersion
    <3>1. UNCHANGED globals /\ call'.step = "engine"
      BY <1>5, <2>3 DEF CheckVersion, Go, CallType
    <3> QED BY <2>1, <2>3, <3>1 DEF GlobalType, CountOK, LibraryOK, globals,
            InitSteps, FactorySteps, OtherVersion
  <2> QED BY <2>2, <2>3
<1>6. CASE InitEngine
  <2>1. call.step = "engine" /\ ready = FALSE /\ crypto = 0
    BY <1>6 DEF InitEngine, CountOK, GlobalType, InitSteps
  <2>2. CASE InitFailed("PROTOCOL") /\ UNCHANGED <<crypto, curl>>
    <3>1. UNCHANGED <<engine, lib, crypto, curl>> /\ ready' = FALSE
      BY <2>2 DEF InitFailed
    <3>2. call'.step = "ret"
      BY <2>2, Ended DEF InitFailed
    <3> QED BY <2>1, <3>1, <3>2
        DEF GlobalType, CountOK, LibraryOK, InitSteps, FactorySteps
  <2>3. CASE /\ crypto' = IF engine = "wolfssl" THEN crypto + 1 ELSE crypto
             /\ call' = [call EXCEPT !.step = "probe", !.probe = 1]
             /\ UNCHANGED <<engine, lib, ready, curl>>
    <3>1. call'.step = "probe" /\ call'.probe = 1
      BY <2>3 DEF CallType
    <3>2. crypto' = IF engine = "wolfssl" THEN 1 ELSE 0
      BY <2>1, <2>3
    <3>3. GlobalType' /\ CountOK'
      BY <2>1, <2>3, <3>1, <3>2 DEF GlobalType, CountOK, InitSteps, FactorySteps
    <3>4. 1 \in 1..Last'
      BY <2>3, LifecycleAssumption DEF Last
    <3>5. LibraryOK'
      BY <2>1, <2>3, <3>1, <3>4 DEF LibraryOK
    <3> QED BY <3>3, <3>5
  <2> QED BY <1>6, <2>2, <2>3 DEF InitEngine
<1>7. CASE Probe
  <2>1. call.step = "probe" /\ ready = FALSE
    BY <1>7 DEF Probe, CountOK, GlobalType, InitSteps
  <2>2. ASSUME NEW rc, InitFailed(rc), crypto' = Undo, UNCHANGED curl
        PROVE  GlobalType' /\ CountOK' /\ LibraryOK'
    BY <2>1, <2>2, BackendUndone
  <2>3. ASSUME lib # call.probe, call.probe < Last,
               call' = [call EXCEPT !.probe = @ + 1], UNCHANGED globals
        PROVE  GlobalType' /\ CountOK' /\ LibraryOK'
    <3>1. call'.step = "probe" /\ call'.probe = call.probe + 1
      BY <2>1, <2>3 DEF CallType
    <3>2. GlobalType' /\ CountOK'
      BY <2>1, <2>3, <3>1 DEF GlobalType, CountOK, globals, InitSteps
    <3>3. call'.probe \in 1..Last'
      BY <2>1, <2>3, <3>1, LifecycleAssumption DEF globals, Last, LibraryOK
    <3>4. LibraryOK'
      BY <2>1, <2>3, <3>1, <3>3 DEF LibraryOK, CallType, globals
    <3> QED BY <3>2, <3>4
  <2>4. ASSUME lib # call.probe, call.probe = Last, Go("transport"), UNCHANGED globals
        PROVE  GlobalType' /\ CountOK' /\ LibraryOK'
    <3>1. call'.step = "transport"
      BY <2>4 DEF CallType, Go
    <3>2. GlobalType' /\ CountOK'
      BY <2>1, <2>4, <3>1 DEF GlobalType, CountOK, globals, InitSteps, FactorySteps
    <3>3. lib = 0
      BY <2>1, <2>4, LifecycleAssumption DEF LibraryOK, Last, GlobalType, Engines
    <3>4. LibraryOK'
      BY <2>1, <2>4, <3>1, <3>3 DEF LibraryOK, globals
    <3> QED BY <3>2, <3>4
  <2> QED BY <1>7, <2>2, <2>3, <2>4 DEF Probe
<1>8. CASE InitTransport
  <2>1. call.step = "transport" /\ ready = FALSE /\ curl = 0 /\ lib = 0
    BY <1>8 DEF InitTransport, CountOK, LibraryOK, GlobalType, InitSteps
  <2>2. ASSUME InitFailed("DEVICE"), crypto' = Undo, UNCHANGED curl
        PROVE  GlobalType' /\ CountOK' /\ LibraryOK'
    BY <2>1, <2>2, BackendUndone
  <2>3. ASSUME ready' = TRUE, curl' = curl + 1, UNCHANGED <<engine, lib, crypto>>,
               IF AfterInit = "ret" THEN Return("OK") ELSE Go(AfterInit)
        PROVE  GlobalType' /\ CountOK' /\ LibraryOK'
    <3>1. call'.step \in {"trio", "rng", "ret"}
      BY <2>3 DEF AfterInit, Return, Go, CallType
    <3> QED BY <2>1, <2>3, <3>1 DEF GlobalType, CountOK, LibraryOK, InitSteps
  <2> QED BY <1>8, <2>2, <2>3 DEF InitTransport
<1>9. CASE AllocCtx
  <2>1. UNCHANGED globals
    BY <1>9 DEF AllocCtx
  <2>2. call.step = "alloc" /\ call'.step \in {"ret", "ca_file", "checkin_url"}
    BY <1>9 DEF AllocCtx, Return, Go, Alloc, CallType
  <2> QED BY <2>1, <2>2, QuietMove DEF InitSteps, FactorySteps
<1>10. CASE CopyCaFile
  <2>1. UNCHANGED globals
    BY <1>10 DEF CopyCaFile, Takes, CreateFails
  <2>2. call.step = "ca_file" /\ call'.step \in {"ret", "checkin_url"}
    BY <1>10 DEF CopyCaFile, Takes, CreateFails, Return, Alloc, CallType
  <2> QED BY <2>1, <2>2, QuietMove DEF InitSteps, FactorySteps
<1>11. CASE CopyCheckinUrl
  <2>1. UNCHANGED globals
    BY <1>11 DEF CopyCheckinUrl, CreateFails
  <2>2. call.step = "checkin_url" /\ call'.step \in {"ret", "url"}
    BY <1>11 DEF CopyCheckinUrl, CreateFails, Return, Go, CallType
  <2> QED BY <2>1, <2>2, QuietMove DEF InitSteps, FactorySteps
<1>12. CASE CopyUrl
  <2>1. UNCHANGED globals
    BY <1>12 DEF CopyUrl, CreateFails
  <2>2. /\ call.step = "url"
        /\ \/ call'.step = "ret"
           \/ call'.step = IF ready THEN "trio" ELSE "version"
    BY <1>12 DEF CopyUrl, CreateFails, Return, Go, FirstStep, Latched, CallType
  <2> QED BY <2>1, <2>2, QuietMove DEF InitSteps, FactorySteps, GlobalType
<1>13. CASE MakeTrio
  <2>1. UNCHANGED globals
    BY <1>13 DEF MakeTrio, FactoryTakes
  <2>2. call.step = "trio" /\ call'.step = "check" /\ ready = TRUE
    BY <1>13 DEF MakeTrio, FactoryTakes, CallType, CountOK, GlobalType,
       FactorySteps
  <2> QED BY <2>1, <2>2, QuietMove DEF InitSteps, FactorySteps
<1>14. CASE CopyBaseUrl
  <2>1. UNCHANGED globals
    BY <1>14 DEF CopyBaseUrl, FactoryTakes, FactoryFails
  <2>2. /\ call.step = "base_url" /\ call'.step \in {"ret", "st_ca"}
        /\ ready = TRUE
    BY <1>14 DEF CopyBaseUrl, FactoryTakes, FactoryFails, Return, Go, CallType,
       CountOK, GlobalType, FactorySteps
  <2> QED BY <2>1, <2>2, QuietMove DEF InitSteps, FactorySteps
<1>15. CASE Finish
  <2>1. UNCHANGED globals
    BY <1>15 DEF Finish, FactoryFails
  <2>2. call.step = "st_ca" /\ call'.step = "ret"
    BY <1>15 DEF Finish, FactoryFails, Return, CallType
  <2> QED BY <2>1, <2>2, QuietMove DEF InitSteps, FactorySteps
<1>16. ASSUME NEW c \in Ctxs, Login(c)
       PROVE  GlobalType' /\ CountOK' /\ LibraryOK'
  <2>1. UNCHANGED globals
    BY <1>16 DEF Login
  <2>2. call.step = "ret" /\ call'.step = "ret"
    BY <1>16 DEF Login, Alloc, CallType, Idle, StepOK
  <2> QED BY <2>1, <2>2, QuietMove DEF InitSteps, FactorySteps
<1>17. ASSUME NEW c \in Ctxs, Logout(c)
       PROVE  GlobalType' /\ CountOK' /\ LibraryOK'
  <2>1. UNCHANGED globals
    BY <1>17 DEF Logout
  <2>2. call.step = "ret" /\ call'.step = "ret"
    BY <1>17 DEF Logout, CallType, Idle, StepOK
  <2> QED BY <2>1, <2>2, QuietMove DEF InitSteps, FactorySteps
<1>18. ASSUME NEW c \in Ctxs, ErrorRecorded(c)
       PROVE  GlobalType' /\ CountOK' /\ LibraryOK'
  <2>1. UNCHANGED globals
    BY <1>18 DEF ErrorRecorded
  <2>2. call.step = "ret" /\ call'.step = "ret"
    BY <1>18 DEF ErrorRecorded, Alloc, CallType, Idle, StepOK
  <2> QED BY <2>1, <2>2, QuietMove DEF InitSteps, FactorySteps
<1>19. ASSUME NEW c \in Ctxs, ErrorCleared(c)
       PROVE  GlobalType' /\ CountOK' /\ LibraryOK'
  <2>1. UNCHANGED globals
    BY <1>19 DEF ErrorCleared
  <2>2. call.step = "ret" /\ call'.step = "ret"
    BY <1>19 DEF ErrorCleared, CallType, Idle, StepOK
  <2> QED BY <2>1, <2>2, QuietMove DEF InitSteps, FactorySteps
<1>20. CASE Derive
  <2>1. UNCHANGED globals
    BY <1>20 DEF Derive
  <2>2. /\ call.step = "ret"
        /\ call'.step = IF ready THEN "rng" ELSE "version"
    BY <1>20, NoCallFields DEF Derive, SelfInit, FirstStep, Latched, CallType,
       Idle, StepOK
  <2> QED BY <2>1, <2>2, QuietMove DEF InitSteps, FactorySteps, GlobalType
<1>21. ASSUME NEW c \in Ctxs, Destroy(c)
       PROVE  GlobalType' /\ CountOK' /\ LibraryOK'
  <2>1. UNCHANGED globals
    BY <1>21 DEF Destroy
  <2>2. call.step = "ret" /\ call'.step = "ret"
    BY <1>21 DEF Destroy, CallType, Idle, StepOK
  <2> QED BY <2>1, <2>2, QuietMove DEF InitSteps, FactorySteps
<1>22. ASSUME NEW c \in Ctxs, NEW o \in OptionSets, Create(c, o)
       PROVE  GlobalType' /\ CountOK' /\ LibraryOK'
  <2>1. UNCHANGED globals
    BY <1>22 DEF Create
  <2>2. call.step = "ret" /\ call'.step \in {"ret", "alloc"}
    BY <1>22, NoCallFields DEF Create, CallType, Idle, StepOK
  <2> QED BY <2>1, <2>2, QuietMove DEF InitSteps, FactorySteps
<1>23. CASE UNCHANGED vars
  BY <1>23 DEF vars, globals, GlobalType, CountOK, LibraryOK, Last
<1>24. CASE CheckTrio
  <2>1. UNCHANGED globals
    BY <1>24 DEF CheckTrio, FactoryFails
  <2>2. /\ call.step = "check" /\ call'.step \in {"ret", "base_url"}
        /\ ready = TRUE
    BY <1>24 DEF CheckTrio, FactoryFails, Return, Go, CallType, CountOK,
       GlobalType, FactorySteps
  <2> QED BY <2>1, <2>2, QuietMove DEF InitSteps, FactorySteps
<1>25. CASE Convert
  <2>1. UNCHANGED globals
    BY <1>25 DEF Convert
  <2>2. call.step = "ret" /\ call'.step = "use"
    BY <1>25, NoCallFields DEF Convert, CallType, Idle, StepOK
  <2> QED BY <2>1, <2>2, QuietMove DEF InitSteps, FactorySteps
<1> QED
  BY <1>1, <1>2, <1>3, <1>4, <1>5, <1>6, <1>7, <1>8, <1>9, <1>10, <1>11,
     <1>12, <1>13, <1>14, <1>15, <1>16, <1>17, <1>18, <1>19, <1>20, <1>21,
     <1>22, <1>23, <1>24, <1>25 DEF Next

-----------------------------------------------------------------------------
(* Memory                                                                  *)

MemoryType ==
  /\ ptrs \in [Ctxs -> SUBSET Blocks] /\ owns \in [Ctxs -> BOOLEAN]
  /\ live \subseteq Ctxs

MemoryInv == MemoryType /\ ContextOK /\ HeapOK

\* What is released is all the context points to, but for what was lent.
LEMMA ReleasedIs ==
  ASSUME MemoryInv, NEW c \in Ctxs
  PROVE  Released(c) = ptrs[c] \ {"app"}
<1>1. CASE owns[c]
  BY <1>1 DEF MemoryInv, ContextOK, Released
<1>2. CASE ~owns[c]
  BY <1>2 DEF MemoryInv, ContextOK, Released, Factory
<1> QED BY <1>1, <1>2

\* A step of a call that touches no memory.
LEMMA MemoryKept ==
  ASSUME MemoryInv, UNCHANGED memory, Unattached = {}, Unattached' = {},
         \A c \in Ctxs : Building(c)' => Building(c) \/ c \notin live,
         \A c \in Ctxs : Building(c) /\ ~Building(c)' => ptrs[c] = {},
         \A c \in Ctxs : call'.step = "alloc" /\ Building(c)' => ptrs[c] = {},
         \A c \in Ctxs : Building(c)' /\ call'.step \in FactorySteps \union InitSteps
           => "app" \notin ptrs[c]
  PROVE  MemoryInv'
<1>1. UNCHANGED <<ptrs, owns, live, heap, wrong>>
  BY DEF memory
<1>2. MemoryType'
  BY <1>1, Zenon DEF MemoryInv, MemoryType
<1>3. ContextOK'
  BY <1>1 DEF MemoryInv, ContextOK
<1>4. HeapOK'
  BY <1>1 DEF MemoryInv, HeapOK
<1> QED BY <1>2, <1>3, <1>4 DEF MemoryInv

\* A context gets blocks of its own, or a transport it is lent.
LEMMA MemoryGrows ==
  ASSUME MemoryInv, NEW c \in Ctxs, NEW bs \in SUBSET Blocks,
         Unattached = {}, Unattached' = {},
         bs \cap Factory = {}, "app" \in bs => Building(c),
         ptrs' = [ptrs EXCEPT ![c] = @ \union bs],
         heap' = heap \union ({c} \X (bs \ {"app"})),
         UNCHANGED <<owns, wrong>>, live' \in {live, live \union {c}},
         c \in live' \/ Building(c)',
         \A e \in Ctxs : Building(e)' => Building(e) /\ e \notin live',
         \A e \in Ctxs \ {c} : Building(e) => Building(e)',
         \A e \in Ctxs : Building(e)' => call'.step # "alloc",
         \A e \in Ctxs : Building(e)' /\ call'.step \in FactorySteps \union InitSteps
           => "app" \notin ptrs'[e]
  PROVE  MemoryInv'
<1>1. /\ ptrs'[c] = ptrs[c] \union bs
      /\ \A e \in Ctxs \ {c} : ptrs'[e] = ptrs[e]
  BY DEF MemoryInv, MemoryType
<1>2. MemoryType'
  BY DEF MemoryInv, MemoryType
<1>3. ContextOK'
  <2>1. \A e \in Ctxs : e \notin live' => owns'[e] = FALSE
    BY DEF MemoryInv, ContextOK
  <2>2. \A e \in Ctxs : owns'[e] => "app" \notin ptrs'[e]
    BY <1>1 DEF MemoryInv, ContextOK
  <2>3. \A e \in Ctxs : ptrs[e] \cap Factory = {} => ptrs'[e] \cap Factory = {}
    BY <1>1
  <2> QED BY <1>1, <2>1, <2>2, <2>3 DEF MemoryInv, ContextOK
<1>4. HeapOK'
  <2>1. \A e \in Ctxs, b \in Blocks :
          <<e, b>> \in heap' <=> <<e, b>> \in heap \/ (e = c /\ b \in bs \ {"app"})
    OBVIOUS
  <2>2. heap' \subseteq Ctxs \X Blocks
    BY DEF MemoryInv, HeapOK
  <2> QED BY <1>1, <2>1, <2>2 DEF MemoryInv, HeapOK
<1> QED BY <1>2, <1>3, <1>4 DEF MemoryInv

\* A live context releases one of its blocks.
LEMMA MemoryShrinks ==
  ASSUME MemoryInv, NEW c \in Ctxs, NEW b \in Blocks, b \in ptrs[c],
         b # "app", b \notin Factory, call.op = "none", UNCHANGED <<call, owns, live>>,
         Free(c, {b}), ptrs' = [ptrs EXCEPT ![c] = @ \ {b}]
  PROVE  MemoryInv'
<1>1. \A e \in Ctxs : ~Building(e) /\ ~Building(e)'
  BY DEF Building
<1>2. /\ ptrs'[c] = ptrs[c] \ {b}
      /\ \A e \in Ctxs \ {c} : ptrs'[e] = ptrs[e]
  BY DEF MemoryInv, MemoryType
<1>3. MemoryType'
  BY DEF MemoryInv, MemoryType
<1>4. ContextOK'
  BY <1>1, <1>2 DEF MemoryInv, ContextOK
<1>5. HeapOK'
  <2>1. <<c, b>> \in heap
    BY DEF MemoryInv, HeapOK
  <2>2. /\ \A e \in Ctxs, d \in Blocks :
             <<e, d>> \in heap' <=> <<e, d>> \in heap /\ ~(e = c /\ d = b)
        /\ heap' \subseteq heap
    BY DEF Free
  <2>3. wrong' = FALSE
    <3>1. {c} \X {b} \subseteq heap
      BY <2>1
    <3> QED BY <3>1 DEF Free, MemoryInv, HeapOK
  <2> QED BY <1>1, <1>2, <2>2, <2>3 DEF MemoryInv, HeapOK
<1> QED BY <1>3, <1>4, <1>5 DEF MemoryInv

\* A context goes, or its construction is given up, with all its blocks.
LEMMA MemoryGone ==
  ASSUME MemoryInv, NEW c \in Ctxs, NEW gone \in SUBSET Blocks,
         \A b \in Blocks : b \in gone <=> <<c, b>> \in heap /\ b # "app",
         Free(c, gone), live' = live \ {c},
         ptrs' = [ptrs EXCEPT ![c] = {}], owns' = [owns EXCEPT ![c] = FALSE],
         \A e \in Ctxs \ {c} : ~Building(e), \A e \in Ctxs : ~Building(e)'
  PROVE  MemoryInv'
<1>1. /\ ptrs'[c] = {} /\ owns'[c] = FALSE
      /\ \A e \in Ctxs \ {c} : ptrs'[e] = ptrs[e] /\ owns'[e] = owns[e]
  BY DEF MemoryInv, MemoryType
<1>2. MemoryType'
  BY DEF MemoryInv, MemoryType
<1>3. ContextOK'
  BY <1>1 DEF MemoryInv, ContextOK
<1>4. HeapOK'
  <2>1. {c} \X gone \subseteq heap
    OBVIOUS
  <2>2. wrong' = FALSE
    BY <2>1 DEF Free, MemoryInv, HeapOK
  <2>3. /\ \A e \in Ctxs, b \in Blocks :
             <<e, b>> \in heap' <=> <<e, b>> \in heap /\ ~(e = c /\ b \in gone)
        /\ heap' \subseteq heap
    BY DEF Free
  <2> QED BY <1>1, <2>2, <2>3 DEF MemoryInv, HeapOK
<1> QED BY <1>2, <1>3, <1>4 DEF MemoryInv

\* Destroying a context releases what it points to and nothing else.
LEMMA DestroyedGone ==
  ASSUME MemoryInv, NEW c \in Ctxs, Destroyed(c), Unattached = {},
         \A e \in Ctxs \ {c} : ~Building(e), \A e \in Ctxs : ~Building(e)'
  PROVE  MemoryInv'
<1>1. Released(c) = ptrs[c] \ {"app"}
  BY ReleasedIs
<1>2. \A b \in Blocks : b \in Released(c) <=> <<c, b>> \in heap /\ b # "app"
  BY <1>1 DEF MemoryInv, HeapOK
<1>3. Released(c) \in SUBSET Blocks
  BY <1>1 DEF MemoryInv, MemoryType
<1> QED BY <1>2, <1>3, MemoryGone DEF Destroyed

\* The factory gives up: its own blocks go too, which no context points to yet.
LEMMA FactoryGone ==
  ASSUME CallType, StepOK, MemoryInv, Building(call.c), NEW bs \in SUBSET Factory,
         FactoryFails(bs), call.step \in {"check", "base_url", "st_ca"},
         call.held \subseteq bs
  PROVE  MemoryInv'
<1>1. call.c \in Ctxs
  BY DEF CallType
<1>2. Released(call.c) = ptrs[call.c] \ {"app"}
  BY <1>1, ReleasedIs
<1>3. bs \cap call.held = call.held /\ Unattached = call.held
  BY DEF Unattached
<1>4. call.held \subseteq Blocks /\ "app" \notin call.held
  BY DEF CallType, Factory, OwnTransport, Blocks
<1> DEFINE gone == (bs \cap call.held) \union Released(call.c)
<1>5. gone = call.held \union (ptrs[call.c] \ {"app"})
  BY <1>2, <1>3
<1>6. gone \in SUBSET Blocks
  BY <1>1, <1>4, <1>5 DEF MemoryInv, MemoryType
<1>7. \A b \in Blocks : b \in gone <=> <<call.c, b>> \in heap /\ b # "app"
  BY <1>1, <1>3, <1>4, <1>5 DEF MemoryInv, HeapOK
<1>8. \A e \in Ctxs : ~Building(e)'
  BY DEF FactoryFails, Return, CallType, Building
<1>9. \A e \in Ctxs \ {call.c} : ~Building(e)
  BY DEF Building
<1>10. /\ Free(call.c, gone) /\ live' = live \ {call.c}
       /\ ptrs' = [ptrs EXCEPT ![call.c] = {}]
       /\ owns' = [owns EXCEPT ![call.c] = FALSE]
  BY DEF FactoryFails
<1> HIDE DEF gone
<1> QED BY <1>1, <1>6, <1>7, <1>8, <1>9, <1>10, MemoryGone

\* A create has a context to build; the call of an option or a factory step is a
\* create.
LEMMA CreateSteps ==
  ASSUME CallType, StepOK, call.step \in OptionSteps \union FactorySteps
  PROVE  call.c \in Ctxs /\ Building(call.c)
  BY DEF CallType, StepOK, Building, OptionSteps, FactorySteps, InitSteps

\* A step that moves the call on.
LEMMA Moved ==
  ASSUME CallType, NEW s, call' = [call EXCEPT !.step = s] \/
                          \E rc : call' = [call EXCEPT !.step = s, !.rc = rc]
  PROVE  call'.op = call.op /\ call'.c = call.c /\ call'.step = s
  BY DEF CallType

\* A failed initialisation releases the context it was made for.
LEMMA InitFailedMemory ==
  ASSUME CallType, StepOK, MemoryInv, call.step \in InitSteps, NEW rc, InitFailed(rc)
  PROVE  MemoryInv'
<1>1. call'.step = "ret"
  BY Moved DEF InitFailed
<1>2. \A e \in Ctxs : ~Building(e)'
  BY <1>1 DEF Building
<1>3. Unattached = {} /\ Unattached' = {}
  BY <1>1 DEF Unattached, InitSteps
<1>4. CASE call.op = "create"
  <2>1. call.c \in Ctxs /\ \A e \in Ctxs \ {call.c} : ~Building(e)
    BY DEF CallType, Building
  <2>2. Destroyed(call.c)
    BY <1>4 DEF InitFailed
  <2> QED BY <1>2, <1>3, <2>1, <2>2, DestroyedGone
<1>5. CASE call.op # "create"
  <2>1. \A e \in Ctxs : ~Building(e)
    BY <1>5 DEF Building
  <2>2. UNCHANGED memory
    BY <1>5 DEF InitFailed
  <2> QED BY <1>1, <1>2, <1>3, <2>1, <2>2, MemoryKept
<1> QED BY <1>4, <1>5

\* The init goes on, or its caller does.
LEMMA InitMovedMemory ==
  ASSUME CallType, StepOK, MemoryInv, call.step \in InitSteps, UNCHANGED memory,
         call'.op = call.op, call'.c = call.c,
         call'.step \in InitSteps \union {"trio", "rng", "ret"},
         call.op = "create" => call'.step # "ret"
  PROVE  MemoryInv'
<1>1. Unattached = {} /\ Unattached' = {}
  BY DEF Unattached, InitSteps
<1>2. \A e \in Ctxs : Building(e)' <=> Building(e)
  BY DEF Building, InitSteps
<1>3. \A e \in Ctxs : Building(e) => "app" \notin ptrs[e]
  BY DEF MemoryInv, ContextOK
<1>4. call'.step # "alloc"
  BY DEF InitSteps
<1> QED BY <1>1, <1>2, <1>3, <1>4, MemoryKept

\* A failed construction releases what the context has so far.
LEMMA CreateFailedMemory ==
  ASSUME CallType, StepOK, MemoryInv, call.step \in OptionSteps, NEW rc, CreateFails(rc)
  PROVE  MemoryInv'
<1>1. call'.step = "ret" /\ Destroyed(call.c)
  BY Moved DEF CreateFails, Return
<1>2. \A e \in Ctxs : ~Building(e)'
  BY <1>1 DEF Building
<1>3. Unattached = {}
  BY DEF Unattached, OptionSteps
<1>4. call.c \in Ctxs /\ \A e \in Ctxs \ {call.c} : ~Building(e)
  BY DEF CallType, Building
<1> QED BY <1>1, <1>2, <1>3, <1>4, DestroyedGone

\* The construction takes blocks and goes on, or is done.
LEMMA CreateTook ==
  ASSUME CallType, StepOK, MemoryInv, call.step \in OptionSteps,
         NEW bs \in SUBSET Blocks, bs \cap Factory = {},
         ptrs' = [ptrs EXCEPT ![call.c] = @ \union bs],
         heap' = heap \union ({call.c} \X (bs \ {"app"})), UNCHANGED <<owns, wrong>>,
         call'.op = call.op, call'.c = call.c,
         call'.step \in {"ca_file", "checkin_url", "url", "version", "trio", "ret"},
         live' = IF call'.step = "ret" THEN live \union {call.c} ELSE live,
         call'.step \in {"version", "trio"} => "app" \notin ptrs'[call.c]
  PROVE  MemoryInv'
<1>1. call.c \in Ctxs /\ Building(call.c)
  BY CreateSteps
<1>2. \A e \in Ctxs \ {call.c} : ~Building(e) /\ ~Building(e)'
  BY DEF Building
<1>3. Building(call.c)' <=> call'.step # "ret"
  BY <1>1 DEF Building
<1>4. call.c \notin live
  BY <1>1 DEF MemoryInv, ContextOK
<1>5. Unattached = {} /\ Unattached' = {}
  BY DEF Unattached, OptionSteps
<1>6. live' \in {live, live \union {call.c}} /\ (call.c \in live' \/ Building(call.c)')
  BY <1>3
<1>7. \A e \in Ctxs : Building(e)' => Building(e) /\ e \notin live'
  BY <1>1, <1>2, <1>3, <1>4
<1>8. \A e \in Ctxs : Building(e)' /\ call'.step \in FactorySteps \union InitSteps
        => "app" \notin ptrs'[e]
  BY <1>2 DEF FactorySteps, InitSteps
<1>9. call'.step # "alloc"
  OBVIOUS
<1> QED BY <1>1, <1>2, <1>5, <1>6, <1>7, <1>8, <1>9, MemoryGrows

\* The factory takes blocks the context does not know of.
LEMMA FactoryTook ==
  ASSUME CallType, MemoryInv, call.c \in Ctxs, Building(call.c),
         call.step \in FactorySteps, NEW bs \in SUBSET Blocks,
         heap' = heap \union ({call.c} \X bs), UNCHANGED <<ptrs, owns, live, wrong>>,
         call'.op = call.op, call'.c = call.c, call'.step \in {"check", "base_url", "st_ca"},
         Unattached' = Unattached \union bs
  PROVE  MemoryInv'
<1>1. \A e \in Ctxs : Building(e)' <=> Building(e)
  BY DEF Building, FactorySteps
<1>2. \A e \in Ctxs : Building(e) <=> e = call.c
  BY DEF Building
<1>3. MemoryType'
  BY Zenon DEF MemoryInv, MemoryType
<1>4. ContextOK'
  BY <1>1 DEF MemoryInv, ContextOK, FactorySteps
<1>5. HeapOK'
  <2>1. \A e \in Ctxs, b \in Blocks :
          <<e, b>> \in heap' <=> <<e, b>> \in heap \/ (e = call.c /\ b \in bs)
    OBVIOUS
  <2>2. heap' \subseteq Ctxs \X Blocks
    BY DEF MemoryInv, HeapOK
  <2> QED BY <1>1, <1>2, <2>1, <2>2 DEF MemoryInv, HeapOK
<1> QED BY <1>3, <1>4, <1>5 DEF MemoryInv

\* Every step keeps the heap to what the contexts and the factory hold.
LEMMA MemoryStep ==
  ASSUME CallType, StepOK, MemoryInv, [Next]_vars
  PROVE  MemoryInv'
<1>1. CASE GlobalInit
  <2>1. UNCHANGED memory
    BY <1>1 DEF GlobalInit
  <2>2. call.step \notin {"check", "base_url", "st_ca"} /\ call'.step \notin {"check", "base_url", "st_ca"}
    BY <1>1, NoCallFields DEF GlobalInit, FirstStep, Latched, StepOK, CallType, Idle
  <2>3. \A e \in Ctxs : ~Building(e) /\ ~Building(e)'
    BY <1>1, NoCallFields DEF GlobalInit, FirstStep, Latched, StepOK, CallType, Idle, Building
  <2>4. Unattached = {} /\ Unattached' = {}
    BY <2>2 DEF Unattached
  <2> QED BY <2>1, <2>3, <2>4, MemoryKept
<1>2. CASE GlobalCleanup
  <2>1. UNCHANGED memory
    BY <1>2 DEF GlobalCleanup
  <2>2. call.step \notin {"check", "base_url", "st_ca"} /\ call'.step \notin {"check", "base_url", "st_ca"}
    BY <1>2 DEF GlobalCleanup, StepOK, CallType, Idle
  <2>3. \A e \in Ctxs : ~Building(e) /\ ~Building(e)'
    BY <1>2 DEF GlobalCleanup, StepOK, CallType, Idle, Building
  <2>4. Unattached = {} /\ Unattached' = {}
    BY <2>2 DEF Unattached
  <2> QED BY <2>1, <2>3, <2>4, MemoryKept
<1>3. CASE Collect
  <2>1. UNCHANGED memory
    BY <1>3 DEF Collect
  <2>2. call.step \notin {"check", "base_url", "st_ca"} /\ call'.step \notin {"check", "base_url", "st_ca"}
    BY <1>3, NoCallFields DEF Collect, StepOK, CallType, Idle
  <2>3. \A e \in Ctxs : ~Building(e) /\ ~Building(e)'
    BY <1>3, NoCallFields DEF Collect, StepOK, CallType, Idle, Building
  <2>4. Unattached = {} /\ Unattached' = {}
    BY <2>2 DEF Unattached
  <2> QED BY <2>1, <2>3, <2>4, MemoryKept
<1>4. CASE UseEngine
  <2>1. UNCHANGED memory
    BY <1>4 DEF UseEngine
  <2>2. call.step \notin {"check", "base_url", "st_ca"} /\ call'.step \notin {"check", "base_url", "st_ca"}
    BY <1>4 DEF UseEngine, Return, StepOK, CallType, Idle
  <2>3. \A e \in Ctxs : ~Building(e) /\ ~Building(e)'
    BY <1>4 DEF UseEngine, Return, StepOK, CallType, Idle, Building
  <2>4. Unattached = {} /\ Unattached' = {}
    BY <2>2 DEF Unattached
  <2> QED BY <2>1, <2>3, <2>4, MemoryKept
<1>5. CASE CheckVersion
  <2>1. call.step = "version"
    BY <1>5 DEF CheckVersion
  <2>2. CASE InitFailed("MISMATCH")
    BY <2>1, <2>2, InitFailedMemory DEF InitSteps
  <2>3. CASE Go("engine") /\ UNCHANGED memory
    BY <2>1, <2>3, InitMovedMemory, Moved DEF InitSteps, Go
  <2> QED BY <1>5, <2>2, <2>3 DEF CheckVersion
<1>6. CASE InitEngine
  <2>1. call.step = "engine"
    BY <1>6 DEF InitEngine
  <2>2. CASE InitFailed("PROTOCOL")
    BY <2>1, <2>2, InitFailedMemory DEF InitSteps
  <2>3. CASE call' = [call EXCEPT !.step = "probe", !.probe = 1] /\ UNCHANGED memory
    <3>1. call'.op = call.op /\ call'.c = call.c /\ call'.step = "probe"
      BY <2>3 DEF CallType
    <3> QED BY <2>1, <2>3, <3>1, InitMovedMemory DEF InitSteps
  <2> QED BY <1>6, <2>2, <2>3 DEF InitEngine
<1>7. CASE Probe
  <2>1. call.step = "probe"
    BY <1>7 DEF Probe
  <2>2. ASSUME NEW rc, InitFailed(rc)
        PROVE  MemoryInv'
    BY <2>1, <2>2, InitFailedMemory DEF InitSteps
  <2>3. CASE call' = [call EXCEPT !.probe = @ + 1] /\ UNCHANGED memory
    <3>1. call'.op = call.op /\ call'.c = call.c /\ call'.step = "probe"
      BY <2>1, <2>3 DEF CallType
    <3> QED BY <2>1, <2>3, <3>1, InitMovedMemory DEF InitSteps
  <2>4. CASE Go("transport") /\ UNCHANGED memory
    BY <2>1, <2>4, InitMovedMemory, Moved DEF InitSteps, Go
  <2> QED BY <1>7, <2>2, <2>3, <2>4 DEF Probe
<1>8. CASE InitTransport
  <2>1. call.step = "transport"
    BY <1>8 DEF InitTransport
  <2>2. CASE InitFailed("DEVICE")
    BY <2>1, <2>2, InitFailedMemory DEF InitSteps
  <2>3. CASE /\ IF AfterInit = "ret" THEN Return("OK") ELSE Go(AfterInit)
             /\ UNCHANGED memory
    <3>1. call'.op = call.op /\ call'.c = call.c /\ call'.step = AfterInit
      BY <2>3, Moved DEF Return, Go
    <3>2. AfterInit \in {"trio", "rng", "ret"} /\ (call.op = "create" => AfterInit = "trio")
      BY DEF AfterInit
    <3> QED BY <2>1, <2>3, <3>1, <3>2, InitMovedMemory DEF InitSteps
  <2> QED BY <1>8, <2>2, <2>3 DEF InitTransport
<1>9. CASE AllocCtx
  <2>1. call.step = "alloc" /\ call.step \in OptionSteps
    BY <1>9 DEF AllocCtx, OptionSteps
  <2>2. call.c \in Ctxs /\ Building(call.c)
    BY <2>1, CreateSteps
  <2>3. CASE Return("NOMEM") /\ UNCHANGED memory
    <3>1. call'.step = "ret"
      BY <2>3, Moved DEF Return
    <3>2. \A e \in Ctxs : ~Building(e)' /\ (Building(e) => ptrs[e] = {})
      BY <2>1, <3>1 DEF Building, MemoryInv, ContextOK
    <3>3. Unattached = {} /\ Unattached' = {}
      BY <2>1, <3>1 DEF Unattached
    <3> QED BY <2>3, <3>2, <3>3, MemoryKept
  <2>4. ASSUME Alloc(call.c, "ctx"), NEW s \in {"ca_file", "checkin_url"}, Go(s)
        PROVE  MemoryInv'
    <3>1. call'.op = call.op /\ call'.c = call.c /\ call'.step = s
      BY <2>4, Moved DEF Go
    <3>2. {"ctx"} \in SUBSET Blocks /\ {"ctx"} \cap Factory = {} /\ {"ctx"} \ {"app"} = {"ctx"}
      BY DEF Blocks, Factory, OwnTransport
    <3>3. {call.c} \X {"ctx"} = {<<call.c, "ctx">>}
      OBVIOUS
    <3> QED BY <2>1, <2>4, <3>1, <3>2, <3>3, CreateTook DEF Alloc
  <2> QED BY <1>9, <2>3, <2>4 DEF AllocCtx
<1>10. CASE CopyCaFile
  <2>1. call.step = "ca_file" /\ call.step \in OptionSteps
    BY <1>10 DEF CopyCaFile, OptionSteps
  <2>2. CASE CreateFails("NOMEM")
    BY <2>1, <2>2, CreateFailedMemory
  <2>3. CASE Alloc(call.c, "ca_file") /\ call' = [call EXCEPT !.step = "checkin_url"]
    <3>1. call'.op = call.op /\ call'.c = call.c /\ call'.step = "checkin_url"
      BY <2>3, Moved
    <3>2. /\ {"ca_file"} \in SUBSET Blocks /\ {"ca_file"} \cap Factory = {}
          /\ {"ca_file"} \ {"app"} = {"ca_file"}
      BY DEF Blocks, Factory, OwnTransport
    <3>3. {call.c} \X {"ca_file"} = {<<call.c, "ca_file">>}
      OBVIOUS
    <3> QED BY <2>1, <2>3, <3>1, <3>2, <3>3, CreateTook DEF Alloc
  <2> QED BY <1>10, <2>2, <2>3 DEF CopyCaFile, Takes
<1>11. CASE CopyCheckinUrl
  <2>1. call.step = "checkin_url" /\ call.step \in OptionSteps
    BY <1>11 DEF CopyCheckinUrl, OptionSteps
  <2>2. CASE CreateFails("NOMEM")
    BY <2>1, <2>2, CreateFailedMemory
  <2>3. ASSUME NEW lent \in {{}, {"app"}},
               ptrs' = [ptrs EXCEPT ![call.c] = @ \union lent \union {"checkin_url"}],
               heap' = heap \union {<<call.c, "checkin_url">>},
               Go("url"), UNCHANGED <<owns, live, wrong>>
        PROVE  MemoryInv'
    <3>1. call'.op = call.op /\ call'.c = call.c /\ call'.step = "url"
      BY <2>3, Moved DEF Go
    <3> DEFINE bs == lent \union {"checkin_url"}
    <3>2. bs \in SUBSET Blocks /\ bs \cap Factory = {} /\ bs \ {"app"} = {"checkin_url"}
      BY DEF Blocks, Factory, OwnTransport
    <3>3. {call.c} \X {"checkin_url"} = {<<call.c, "checkin_url">>}
      OBVIOUS
    <3>4. ptrs' = [ptrs EXCEPT ![call.c] = @ \union bs]
      <4>1. \A x : x \union lent \union {"checkin_url"} = x \union bs
        OBVIOUS
      <4> QED BY <2>3, <4>1
    <3> HIDE DEF bs
    <3> QED BY <2>1, <2>3, <3>1, <3>2, <3>3, <3>4, CreateTook
  <2> QED BY <1>11, <2>2, <2>3 DEF CopyCheckinUrl
<1>12. CASE CopyUrl
  <2>1. call.step = "url" /\ call.step \in OptionSteps
    BY <1>12 DEF CopyUrl, OptionSteps
  <2>2. ASSUME NEW rc, CreateFails(rc)
        PROVE  MemoryInv'
    BY <2>1, <2>2, CreateFailedMemory
  <2>3. ASSUME heap' = heap \union {<<call.c, "url">>},
               ptrs' = [ptrs EXCEPT ![call.c] = @ \union {"url"}],
               IF "app" \in ptrs[call.c]
               THEN Return("OK") /\ live' = live \union {call.c}
               ELSE Go(FirstStep("trio")) /\ UNCHANGED live,
               UNCHANGED <<owns, wrong>>
        PROVE  MemoryInv'
    <3>1. call.c \in Ctxs
      BY DEF CallType
    <3>2. /\ {"url"} \in SUBSET Blocks /\ {"url"} \cap Factory = {}
          /\ {"url"} \ {"app"} = {"url"}
      BY DEF Blocks, Factory, OwnTransport
    <3>3. {call.c} \X {"url"} = {<<call.c, "url">>}
      OBVIOUS
    <3>4. /\ call'.op = call.op /\ call'.c = call.c
          /\ call'.step = IF "app" \in ptrs[call.c] THEN "ret" ELSE FirstStep("trio")
      BY <2>3, Moved DEF Return, Go
    <3>5. FirstStep("trio") \in {"version", "trio"}
      BY DEF FirstStep
    <3>6. live' = IF call'.step = "ret" THEN live \union {call.c} ELSE live
      BY <2>3, <3>4, <3>5
    <3>7. call'.step \in {"version", "trio"} => "app" \notin ptrs'[call.c]
      BY <2>3, <3>1, <3>4, <3>5 DEF MemoryInv, MemoryType
    <3>8. call'.step \in {"ca_file", "checkin_url", "url", "version", "trio", "ret"}
      BY <3>4, <3>5
    <3> QED BY <2>1, <2>3, <3>2, <3>3, <3>4, <3>6, <3>7, <3>8, CreateTook
  <2> QED BY <1>12, <2>2, <2>3 DEF CopyUrl
<1>13. CASE MakeTrio
  <2>1. call.step = "trio" /\ call.step \in FactorySteps
    BY <1>13 DEF MakeTrio, FactorySteps
  <2>2. call.c \in Ctxs /\ Building(call.c)
    BY <2>1, CreateSteps
  <2>3. PICK got \in SUBSET OwnTransport : FactoryTakes(got, "check")
    BY <1>13 DEF MakeTrio
  <2>4. /\ call'.op = call.op /\ call'.c = call.c /\ call'.step = "check"
        /\ call'.held = got
    BY <2>1, <2>3 DEF FactoryTakes, CallType, StepOK
  <2>5. Unattached' = Unattached \union got
    BY <2>1, <2>4 DEF Unattached
  <2>6. got \in SUBSET Blocks
    BY DEF Blocks, Factory
  <2> QED BY <2>1, <2>2, <2>3, <2>4, <2>5, <2>6, FactoryTook DEF FactoryTakes
<1>14. CASE CopyBaseUrl
  <2>1. call.step = "base_url" /\ call.step \in FactorySteps
    BY <1>14 DEF CopyBaseUrl, FactorySteps
  <2>2. call.c \in Ctxs /\ Building(call.c)
    BY <2>1, CreateSteps
  <2>3. CASE FactoryFails({"handle", "t", "st"})
    <3>1. /\ {"handle", "t", "st"} \in SUBSET Factory
          /\ call.held \subseteq {"handle", "t", "st"}
      BY <2>1 DEF StepOK, OwnTransport, Factory
    <3> QED BY <2>1, <2>2, <2>3, <3>1, FactoryGone
  <2>4. CASE FactoryTakes({"base_url"}, "st_ca")
    <3>1. /\ call'.op = call.op /\ call'.c = call.c /\ call'.step = "st_ca"
          /\ call'.held = call.held \union {"base_url"}
      BY <2>4 DEF FactoryTakes, CallType
    <3>2. Unattached' = Unattached \union {"base_url"}
      BY <2>1, <3>1 DEF Unattached
    <3>3. {"base_url"} \in SUBSET Blocks
      BY DEF Blocks, Factory
    <3> QED BY <2>1, <2>2, <2>4, <3>1, <3>2, <3>3, FactoryTook DEF FactoryTakes
  <2> QED BY <1>14, <2>3, <2>4 DEF CopyBaseUrl
<1>15. CASE Finish
  <2>1. call.step = "st_ca" /\ call.step \in FactorySteps
    BY <1>15 DEF Finish, FactorySteps
  <2>2. call.c \in Ctxs /\ Building(call.c)
    BY <2>1, CreateSteps
  <2>3. CASE FactoryFails({"handle", "base_url", "t", "st"})
    <3>1. /\ {"handle", "base_url", "t", "st"} \in SUBSET Factory
          /\ call.held \subseteq {"handle", "base_url", "t", "st"}
      BY <2>1 DEF StepOK, OwnTransport, Factory
    <3> QED BY <2>1, <2>2, <2>3, <3>1, FactoryGone
  <2>4. ASSUME NEW more \in {{}, {"st_ca"}},
               heap' = heap \union ({call.c} \X more),
               ptrs' = [ptrs EXCEPT ![call.c] = @ \union OwnTransport
                                                  \union {"base_url"} \union more],
               owns' = [owns EXCEPT ![call.c] = TRUE], live' = live \union {call.c},
               Return("OK"), UNCHANGED wrong
        PROVE  MemoryInv'
    <3>1. call'.step = "ret"
      BY <2>4, Moved DEF Return
    <3>2. Unattached = OwnTransport \union {"base_url"} /\ Unattached' = {}
      BY <2>1, <3>1 DEF Unattached, StepOK
    <3>3. \A e \in Ctxs : ~Building(e)' /\ (Building(e) => e = call.c)
      BY <3>1 DEF Building
    <3>4. /\ ptrs'[call.c] = ptrs[call.c] \union Unattached \union more
          /\ owns'[call.c] = TRUE
          /\ \A e \in Ctxs \ {call.c} : ptrs'[e] = ptrs[e] /\ owns'[e] = owns[e]
      BY <2>2, <2>4, <3>2 DEF MemoryInv, MemoryType
    <3>5. "app" \notin ptrs'[call.c]
      <4>1. "app" \notin ptrs[call.c]
        BY <2>1, <2>2 DEF MemoryInv, ContextOK
      <4> QED BY <2>4, <3>2, <3>4, <4>1 DEF OwnTransport
    <3>6. OwnTransport \union {"base_url"} \union more \subseteq Blocks
      BY <2>4 DEF Blocks, Factory
    <3>7. MemoryType'
      BY <2>2, <2>4, <3>6 DEF MemoryInv, MemoryType
    <3>8. ContextOK'
      BY <2>4, <3>3, <3>4, <3>5 DEF MemoryInv, ContextOK
    <3>9. HeapOK'
      <4>1. \A e \in Ctxs, b \in Blocks :
              <<e, b>> \in heap' <=> <<e, b>> \in heap \/ (e = call.c /\ b \in more)
        BY <2>4
      <4>2. heap' \subseteq Ctxs \X Blocks
        BY <2>2, <2>4, <3>6 DEF MemoryInv, HeapOK
      <4> QED BY <2>2, <2>4, <3>3, <3>4, <4>1, <4>2 DEF MemoryInv, HeapOK
    <3> QED BY <3>7, <3>8, <3>9 DEF MemoryInv
  <2> QED BY <1>15, <2>3, <2>4 DEF Finish
<1>16. ASSUME NEW c \in Ctxs, Login(c)
       PROVE  MemoryInv'
  <2>1. \A e \in Ctxs : ~Building(e) /\ ~Building(e)'
    BY <1>16 DEF Login, Idle, Building
  <2>2. Unattached = {} /\ Unattached' = {}
    BY <1>16 DEF Login, Idle, StepOK, Unattached
  <2>3. {"auth"} \in SUBSET Blocks /\ {"auth"} \cap Factory = {} /\ {"auth"} \ {"app"} = {"auth"}
    BY DEF Blocks, Factory, OwnTransport
  <2>4. {c} \X {"auth"} = {<<c, "auth">>}
    OBVIOUS
  <2> QED BY <1>16, <2>1, <2>2, <2>3, <2>4, MemoryGrows DEF Login, Alloc
<1>17. ASSUME NEW c \in Ctxs, Logout(c)
       PROVE  MemoryInv'
  <2>1. "auth" \in Blocks /\ "auth" \notin Factory
    BY DEF Blocks, Factory, OwnTransport
  <2> QED BY <1>17, <2>1, MemoryShrinks DEF Logout, Idle
<1>18. ASSUME NEW c \in Ctxs, ErrorRecorded(c)
       PROVE  MemoryInv'
  <2>1. \A e \in Ctxs : ~Building(e) /\ ~Building(e)'
    BY <1>18 DEF ErrorRecorded, Idle, Building
  <2>2. Unattached = {} /\ Unattached' = {}
    BY <1>18 DEF ErrorRecorded, Idle, StepOK, Unattached
  <2>3. {"err_payload"} \in SUBSET Blocks /\ {"err_payload"} \cap Factory = {} /\ {"err_payload"} \ {"app"} = {"err_payload"}
    BY DEF Blocks, Factory, OwnTransport
  <2>4. {c} \X {"err_payload"} = {<<c, "err_payload">>}
    OBVIOUS
  <2> QED BY <1>18, <2>1, <2>2, <2>3, <2>4, MemoryGrows DEF ErrorRecorded, Alloc
<1>19. ASSUME NEW c \in Ctxs, ErrorCleared(c)
       PROVE  MemoryInv'
  <2>1. "err_payload" \in Blocks /\ "err_payload" \notin Factory
    BY DEF Blocks, Factory, OwnTransport
  <2> QED BY <1>19, <2>1, MemoryShrinks DEF ErrorCleared, Idle
<1>20. CASE Derive
  <2>1. UNCHANGED memory
    BY <1>20 DEF Derive
  <2>2. call.step \notin {"check", "base_url", "st_ca"} /\ call'.step \notin {"check", "base_url", "st_ca"}
    BY <1>20, NoCallFields DEF Derive, SelfInit, FirstStep, Latched, StepOK, CallType, Idle
  <2>3. \A e \in Ctxs : ~Building(e) /\ ~Building(e)'
    BY <1>20, NoCallFields DEF Derive, SelfInit, FirstStep, Latched, StepOK, CallType, Idle, Building
  <2>4. Unattached = {} /\ Unattached' = {}
    BY <2>2 DEF Unattached
  <2> QED BY <2>1, <2>3, <2>4, MemoryKept
<1>21. ASSUME NEW c \in Ctxs, Destroy(c)
       PROVE  MemoryInv'
  <2>1. \A e \in Ctxs : ~Building(e) /\ ~Building(e)'
    BY <1>21 DEF Destroy, Idle, Building
  <2>2. Unattached = {}
    BY <1>21 DEF Destroy, Idle, StepOK, Unattached
  <2> QED BY <1>21, <2>1, <2>2, DestroyedGone DEF Destroy
<1>22. ASSUME NEW c \in Ctxs, NEW o \in OptionSets, Create(c, o)
       PROVE  MemoryInv'
  <2>1. UNCHANGED memory /\ c \notin live
    BY <1>22 DEF Create
  <2>2. \A e \in Ctxs : ~Building(e)
    BY <1>22 DEF Create, Idle, Building
  <2>3. call'.c = c /\ call'.step \in {"alloc", "ret"}
    BY <1>22, NoCallFields DEF Create
  <2>4. ptrs[c] = {}
    BY <2>1, <2>2 DEF MemoryInv, ContextOK
  <2>5. \A e \in Ctxs : Building(e)' => e = c /\ call'.step = "alloc"
    BY <2>3 DEF Building
  <2>6. Unattached = {} /\ Unattached' = {}
    BY <1>22, <2>3 DEF Create, Idle, StepOK, Unattached
  <2> QED BY <2>1, <2>2, <2>4, <2>5, <2>6, MemoryKept DEF FactorySteps, InitSteps
<1>23. CASE UNCHANGED vars
  <2>1. UNCHANGED <<call, ptrs, owns, live, heap, wrong>>
    BY <1>23 DEF vars, memory
  <2>2. MemoryType'
    BY <2>1, Zenon DEF MemoryInv, MemoryType
  <2>3. ContextOK' /\ HeapOK'
    BY <2>1 DEF MemoryInv, ContextOK, HeapOK, Building, Unattached
  <2> QED BY <2>2, <2>3 DEF MemoryInv
<1>24. CASE CheckTrio
  <2>1. call.step = "check" /\ call.step \in FactorySteps
    BY <1>24 DEF CheckTrio, FactorySteps
  <2>2. call.c \in Ctxs /\ Building(call.c)
    BY <2>1, CreateSteps
  <2>3. CASE FactoryFails(TrioExit)
    <3>1. TrioExit \in SUBSET Factory /\ call.held \subseteq TrioExit
      BY <2>1 DEF StepOK, OwnTransport, Factory, TrioExit
    <3> QED BY <2>1, <2>2, <2>3, <3>1, FactoryGone
  <2>4. CASE Go("base_url") /\ UNCHANGED memory
    <3>1. /\ call'.op = call.op /\ call'.c = call.c /\ call'.step = "base_url"
          /\ call'.held = call.held
      BY <2>4 DEF Go, CallType
    <3>2. Unattached' = Unattached \union {}
      BY <2>1, <3>1 DEF Unattached
    <3>3. heap' = heap \union ({call.c} \X {}) /\ UNCHANGED <<ptrs, owns, live, wrong>>
      BY <2>4 DEF memory
    <3>4. {} \in SUBSET Blocks
      OBVIOUS
    <3> QED BY <2>1, <2>2, <3>1, <3>2, <3>3, <3>4, FactoryTook
  <2> QED BY <1>24, <2>3, <2>4 DEF CheckTrio
<1>25. CASE Convert
  <2>1. UNCHANGED memory
    BY <1>25 DEF Convert
  <2>2. call.step \notin {"check", "base_url", "st_ca"} /\ call'.step \notin {"check", "base_url", "st_ca"}
    BY <1>25, NoCallFields DEF Convert, StepOK, CallType, Idle
  <2>3. \A e \in Ctxs : ~Building(e) /\ ~Building(e)'
    BY <1>25, NoCallFields DEF Convert, StepOK, CallType, Idle, Building
  <2>4. Unattached = {} /\ Unattached' = {}
    BY <2>2 DEF Unattached
  <2> QED BY <2>1, <2>3, <2>4, MemoryKept
<1> QED
  BY <1>1, <1>2, <1>3, <1>4, <1>5, <1>6, <1>7, <1>8, <1>9, <1>10, <1>11,
     <1>12, <1>13, <1>14, <1>15, <1>16, <1>17, <1>18, <1>19, <1>20, <1>21,
     <1>22, <1>23, <1>24, <1>25 DEF Next

-----------------------------------------------------------------------------
(* The invariant and what follows from it                                  *)

\* The type invariant by groups of variables.
LEMMA TypeSplit == TypeOK <=> /\ CallType /\ MemoryType /\ GlobalType
                              /\ lib \in 0..(Probes + 1)
                              /\ heap \subseteq Ctxs \X Blocks
  BY DEF TypeOK, CallType, MemoryType, GlobalType, Same, OtherVersion

\* A process that has just started.
LEMMA LifeInit == Init => LifeInv
<1> SUFFICES ASSUME Init
             PROVE  LifeInv
  OBVIOUS
<1>1. CallType /\ StepOK
  BY NoCallFields DEF Init, CallType, StepOK
<1>2. call.step = "ret" /\ call.op = "none"
  BY NoCallFields DEF Init
<1>3. GlobalType
  <2>1. engine \in Engines /\ ready \in BOOLEAN
    BY Zenon DEF Init
  <2>2. crypto \in 0..1 /\ curl \in 0..1
    BY SMT DEF Init
  <2> QED BY <2>1, <2>2, Zenon DEF GlobalType
<1>4. CountOK
  BY <1>2 DEF Init, CountOK, FactorySteps
<1>5. LibraryOK
  BY <1>2, LifecycleAssumption DEF Init, LibraryOK, Same, OtherVersion
<1>6. \A c \in Ctxs : ~Building(c)
  BY <1>2 DEF Building
<1>7. MemoryType
  BY DEF Init, MemoryType
<1>8. ContextOK
  BY <1>6 DEF Init, ContextOK
<1>9. HeapOK
  BY <1>6 DEF Init, HeapOK, Blocks
<1> QED
  BY <1>1, <1>3, <1>4, <1>5, <1>7, <1>8, <1>9, TypeSplit DEF LifeInv, LibraryOK, HeapOK

\* Every step of every call keeps the invariant.
LEMMA LifeStep == LifeInv /\ [Next]_vars => LifeInv'
<1> SUFFICES ASSUME LifeInv, [Next]_vars
             PROVE  LifeInv'
  OBVIOUS
<1>1. CallType /\ StepOK /\ GlobalType /\ CountOK /\ LibraryOK /\ MemoryInv
  BY TypeSplit DEF LifeInv, MemoryInv
<1>2. CallType' /\ StepOK'
  BY <1>1, CallStep DEF GlobalType
<1>3. GlobalType' /\ CountOK' /\ LibraryOK'
  BY <1>1, BackendStep
<1>4. MemoryType' /\ ContextOK' /\ HeapOK'
  BY <1>1, MemoryStep DEF MemoryInv
<1>5. TypeOK'
  BY <1>2, <1>3, <1>4 DEF TypeOK, CallType, MemoryType, GlobalType, LibraryOK, HeapOK,
     Same, OtherVersion
<1> QED BY <1>2, <1>3, <1>4, <1>5 DEF LifeInv

\* The invariant of the backends and of the contexts' memory.
THEOREM LifeInvariant == Spec => []LifeInv
  BY LifeInit, LifeStep, PTL DEF Spec

\* Counts, pointers and blocks stay in their types.
THEOREM LifeTypes == Spec => []TypeOK
<1>1. LifeInv => TypeOK
  BY DEF LifeInv
<1> QED BY <1>1, LifeInvariant, PTL

\* Between calls each backend is initialised exactly once if the latch is up,
\* and not at all if it is down, whichever step of an earlier init failed.
THEOREM BackendsBalanced == Spec => []Balanced
<1>1. LifeInv => Balanced
  <2> SUFFICES ASSUME LifeInv, call.step = "ret"
               PROVE  /\ curl = IF ready THEN 1 ELSE 0
                      /\ crypto = IF ready /\ engine = "wolfssl" THEN 1 ELSE 0
    BY DEF Balanced, Between
  <2>1. ready \in BOOLEAN /\ crypto \in 0..1
    BY DEF LifeInv, TypeOK
  <2>2. CASE ready = TRUE
    BY <2>1, <2>2 DEF LifeInv, CountOK
  <2>3. CASE ready = FALSE
    BY <2>1, <2>3 DEF LifeInv, CountOK
  <2> QED BY <2>1, <2>2, <2>3
<1> QED BY <1>1, LifeInvariant, PTL

\* Token acquisitions, device initialisations, new mnemonics and transports are
\* made with the backends up, and the latch rises only for the crypto library the
\* SDK was built against.
THEOREM CryptoIsUp == Spec => []CryptoUp
<1>1. LifeInv => CryptoUp
  <2> SUFFICES ASSUME LifeInv
               PROVE  CryptoUp
    OBVIOUS
  <2>1. ready \in BOOLEAN
    BY Zenon DEF LifeInv, TypeOK
  <2> QED BY <2>1 DEF LifeInv, CountOK, LibraryOK, CryptoUp, FactorySteps, Same
<1> QED BY <1>1, LifeInvariant, PTL

\* No block is released twice, none outlives its context, none a context points
\* to is gone, and a transport the application lent is never released.
THEOREM HeapIsSound == Spec => []HeapSound
<1>1. LifeInv => HeapSound
  <2> SUFFICES ASSUME LifeInv
               PROVE  HeapSound
    OBVIOUS
  <2>1. ~wrong
    BY DEF LifeInv, HeapOK
  <2>2. ASSUME Between
        PROVE  heap = (Ctxs \X {"app"}) \union UNION {{c} \X ptrs[c] : c \in live}
    <3>1. \A c \in Ctxs : ~Building(c)
      BY <2>2 DEF Between, Building
    <3>2. \A c \in Ctxs, b \in Blocks :
            <<c, b>> \in heap <=> b = "app" \/ (c \in live /\ b \in ptrs[c])
      BY <3>1 DEF LifeInv, HeapOK, ContextOK
    <3>3. live \subseteq Ctxs /\ \A c \in Ctxs : ptrs[c] \subseteq Blocks
      BY DEF LifeInv, TypeOK
    <3>4. heap \subseteq Ctxs \X Blocks /\ "app" \in Blocks
      BY DEF LifeInv, HeapOK, Blocks
    <3>5. \A x \in heap :
            x \in (Ctxs \X {"app"}) \union UNION {{c} \X ptrs[c] : c \in live}
      BY <3>2, <3>4
    <3>6. \A c \in live : \A b \in ptrs[c] : <<c, b>> \in heap
      BY <3>2, <3>3
    <3>7. \A c \in Ctxs : <<c, "app">> \in heap
      BY <3>2, <3>4
    <3> QED BY <3>5, <3>6, <3>7
  <2> QED BY <2>1, <2>2 DEF HeapSound
<1> QED BY <1>1, LifeInvariant, PTL
=============================================================================
