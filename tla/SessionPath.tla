---------------------------- MODULE SessionPath -----------------------------
(***************************************************************************)
(* The session engine implements the request path's promise.  The binding's*)
(* activation is the request; last_error counts only where the path failed.*)
(***************************************************************************)
EXTENDS HemSession

PathPhase ==
  IF rpc["op"] = "idle" THEN "idle"
  ELSE IF rpc["op"] = "ret" THEN "done" ELSE "open"

PathAnswer ==
  IF rpc["op"] # "ret" THEN Answer("OK", 0)
  ELSE IF rc = "OK" THEN Answer("OK", 200) ELSE Answer(rc, err.http)

Path == INSTANCE PathPromise WITH
          phase <- PathPhase, executed <- applied = 1, answer <- PathAnswer

\* The request path keeps its promise: through token acquisition, certificate
\* and clock recovery and the resends, one answer per request, at most one
\* execution before it, and a code and status that tell the truth about it.
PathPromised == Path!Spec
=============================================================================
