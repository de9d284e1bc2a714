--------------------------- MODULE ConfirmPromise ---------------------------
(***************************************************************************)
(* What a push confirmation promises, with no network, no recoveries and   *)
(* no time in it.  A handle asks for a scope; the answer to the question   *)
(* it asked is given once, on the phone, whenever the user likes; a token  *)
(* for the scope appears only through a handle that is still held, whose   *)
(* own question was approved, and the handle is used up by that.           *)
(***************************************************************************)
EXTENDS Naturals

CONSTANTS
  Handles,    \* confirmation handles of the application
  Scopes,     \* scopes it asks confirmation for
  NoScope,
  MaxEvents   \* bound: questions asked in all

Events == 1..MaxEvents

\* A handle that was never begun, failed to begin, or was cancelled
Unused == [st |-> "free", event |-> 0]

VARIABLES
  handle,   \* [st : free | live | done, event : the question it asked]
  asked,    \* the scope each question is about
  answer,   \* the answer the phone gave
  tokens    \* scope -> the question its cached token comes from, 0 if none

promiseVars == <<handle, asked, answer, tokens>>

PromiseInit ==
  /\ handle = [h \in Handles |-> Unused]
  /\ asked = [e \in Events |-> NoScope]
  /\ answer = [e \in Events |-> "unasked"]
  /\ tokens = [s \in Scopes |-> 0]

\* A question reaches the phone.  It belongs to a handle, unless the caller was
\* told that the push failed.
Ask(e, s) ==
  /\ answer[e] = "unasked"
  /\ answer' = [answer EXCEPT ![e] = "pending"]
  /\ asked' = [asked EXCEPT ![e] = s]
  /\ \/ UNCHANGED handle
     \/ \E h \in Handles :
          /\ handle[h].st = "free"
          /\ handle' = [handle EXCEPT ![h] = [st |-> "live", event |-> e]]
  /\ UNCHANGED tokens

Answer(e) ==
  /\ answer[e] = "pending"
  /\ \E a \in {"approved", "denied"} : answer' = [answer EXCEPT ![e] = a]
  /\ UNCHANGED <<handle, asked, tokens>>

UseUp(h) ==
  /\ handle[h].st = "live" /\ answer[handle[h].event] # "pending"
  /\ handle' = [handle EXCEPT ![h].st = "done"]
  /\ UNCHANGED <<asked, answer>>

Grant(h) ==
  /\ UseUp(h) /\ answer[handle[h].event] = "approved"
  /\ tokens' = [tokens EXCEPT ![asked[handle[h].event]] = handle[h].event]

\* Denied, or approved and the redemption failed
Refuse(h) == UseUp(h) /\ UNCHANGED tokens

Drop(h) ==
  /\ handle[h].st # "free"
  /\ handle' = [handle EXCEPT ![h] = Unused]
  /\ UNCHANGED <<asked, answer, tokens>>

EndSession ==
  /\ tokens' = [s \in Scopes |-> 0]
  /\ UNCHANGED <<handle, asked, answer>>

PromiseNext ==
  \/ \E e \in Events : Answer(e) \/ \E s \in Scopes : Ask(e, s)
  \/ \E h \in Handles : Grant(h) \/ Refuse(h) \/ Drop(h)
  \/ EndSession

Promise == PromiseInit /\ [][PromiseNext]_promiseVars
=============================================================================
