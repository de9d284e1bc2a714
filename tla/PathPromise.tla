---------------------------- MODULE PathPromise -----------------------------
(***************************************************************************)
(* What the shared request path promises to the binding above it, without  *)
(* a word on tokens, check-ins, certificates or resends: a request that is *)
(* issued is answered once; the device has executed it at most once, and   *)
(* only before the answer; and the pair of code and last_error status says *)
(* which of the two it may have been.  HemSession implements it, and the   *)
(* model of the bindings is built on it.                                   *)
(***************************************************************************)
EXTENDS HemTypes

VARIABLES
  phase,      \* of the request: "idle", "open", "done"
  executed,   \* the device executed it
  answer      \* what the path returned, meaningful when done

vars == <<phase, executed, answer>>

NoAnswer == Answer("OK", 0)

Init == phase = "idle" /\ executed = FALSE /\ answer = NoAnswer

Issue == phase = "idle" /\ phase' = "open" /\ UNCHANGED <<executed, answer>>

Return ==
  /\ phase = "open" /\ phase' = "done"
  /\ \/ executed' = FALSE /\ answer' \in PathFailures
     \/ executed' = TRUE /\ answer' \in PathResults

Collect ==
  /\ phase = "done"
  /\ phase' = "idle" /\ executed' = FALSE /\ answer' = NoAnswer

Next == Issue \/ Return \/ Collect

Spec == Init /\ [][Next]_vars
=============================================================================
