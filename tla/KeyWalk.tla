------------------------------ MODULE KeyWalk -------------------------------
(***************************************************************************)
(* ehem_key_list_all and ehem_key_search_all: the walk that merges the     *)
(* pages of a listing into one result, against a repository that other     *)
(* clients of the device change while the walk is under way.               *)
(*                                                                         *)
(* Every page is one authenticated request of its own; what the shared     *)
(* request path does below it is the subject of HemSession.  For a search  *)
(* the repository stands for the keys that match.                          *)
(***************************************************************************)
EXTENDS Integers, Sequences, SequencesExt

CONSTANTS
  Keys,       \* key ids the device may hand out, each at most once
  PageCap     \* most entries in a page: the request's limit, capped by the device

ASSUME KeyWalkAssumption == PageCap \in Nat \ {0}

VARIABLES
  repo,       \* device: its keys in listing order
  fresh,      \* device: ids not used yet
  walk,       \* "none", "list" or "search"
  asking,     \* a page has been asked for
  offset,     \* entries walked so far
  acc,        \* entries gathered
  result,     \* what the last walk handed out
  stay,       \* history: keys in the repository since the walk began
  met         \* history: what others did during the walk

walkVars == <<walk, asking, offset, acc, result>>
vars == <<repo, fresh, walkVars, stay, met>>

NoResult == [ok |-> FALSE, entries |-> <<>>, total |-> 0]

TypeOK ==
  /\ repo \in Seq(Keys) /\ fresh \subseteq Keys
  /\ walk \in {"none", "list", "search"} /\ asking \in BOOLEAN
  /\ offset \in Nat /\ acc \in Seq(Keys)
  /\ result \in [ok : BOOLEAN, entries : Seq(Keys), total : Nat]
  /\ stay \subseteq Keys /\ met \subseteq {"create", "delete", "withhold"}

Init ==
  /\ repo = <<>> /\ fresh = Keys
  /\ walk = "none" /\ asking = FALSE /\ offset = 0 /\ acc = <<>> /\ result = NoResult
  /\ stay = {} /\ met = {}

Start(kind) ==
  /\ walk = "none"
  /\ walk' = kind /\ offset' = 0 /\ acc' = <<>> /\ result' = NoResult
  /\ stay' = ToSet(repo) /\ met' = {}
  /\ UNCHANGED <<repo, fresh, asking>>

\* The next page is asked for, from the offset on
Ask ==
  /\ walk # "none" /\ ~asking /\ asking' = TRUE
  /\ UNCHANGED <<repo, fresh, walk, offset, acc, result, stay, met>>

EndOfWalk_TotalOnly(listed, reached, total) == reached >= total
\* An empty page ends the walk, and so does reaching the reported total; a page
\* shorter than asked for does not
EndOfWalk(listed, reached, total) == listed = 0 \/ reached >= total

NextOffset_ByRequest(listed) == offset + PageCap
NextOffset_Overlapping(listed) == offset + listed - 1
NextOffset(listed) == offset + listed

\* A page was parsed: append it, go on behind it or hand the result out with
\* the total reported last
Merge(page, total) ==
  /\ asking' = FALSE
  /\ acc' = acc \o page
  /\ offset' = NextOffset(Len(page))
  /\ IF EndOfWalk(Len(page), offset', total)
     THEN /\ walk' = "none"
          /\ result' = [ok |-> TRUE, entries |-> acc', total |-> total]
     ELSE UNCHANGED <<walk, result>>

Remaining == Len(repo) - offset

\* The device lists from the offset on, as many as it likes up to the cap
Page ==
  /\ asking /\ Remaining > 0
  /\ \E n \in 1..PageCap :
       /\ n <= Remaining
       /\ Merge(SubSeq(repo, offset + 1, offset + n), Len(repo))
  /\ UNCHANGED <<repo, fresh, stay, met>>

\* Nothing at the offset: an empty page, or a 404, which a search reads as an
\* empty page with total 0
PastEnd ==
  /\ asking /\ Remaining <= 0
  /\ \/ Merge(<<>>, Len(repo))
     \/ walk = "search" /\ Merge(<<>>, 0)
  /\ UNCHANGED <<repo, fresh, stay, met>>

\* The device reports more keys than it lists; or a 404, which may be one of the
\* token exchanges below the search, reads as nothing found
EmptyPage ==
  /\ asking /\ Remaining > 0
  /\ Merge(<<>>, Len(repo)) \/ (walk = "search" /\ Merge(<<>>, 0))
  /\ met' = met \union {"withhold"}
  /\ UNCHANGED <<repo, fresh, stay>>

\* A page fails: what was gathered is dropped, nothing is handed out
PageFails ==
  /\ asking /\ asking' = FALSE
  /\ walk' = "none" /\ acc' = <<>>
  /\ UNCHANGED <<repo, fresh, offset, result, stay, met>>

\* Other clients (external): new keys come last, a deleted one leaves no gap
Create(k) ==
  /\ k \in fresh
  /\ repo' = Append(repo, k) /\ fresh' = fresh \ {k}
  /\ met' = met \union {"create"}
  /\ UNCHANGED <<walkVars, stay>>

Delete(i) ==
  /\ repo' = RemoveAt(repo, i)
  /\ stay' = stay \ {repo[i]} /\ met' = met \union {"delete"}
  /\ UNCHANGED <<fresh, walkVars>>

Walker == Ask \/ Page \/ PastEnd \/ EmptyPage \/ PageFails

Next ==
  \/ \E kind \in {"list", "search"} : Start(kind)
  \/ Walker
  \/ \E k \in Keys : Create(k)
  \/ \E i \in DOMAIN repo : Delete(i)

\* Every page request ends (HemSession's CallsReturn)
Spec == Init /\ [][Next]_vars /\ WF_vars(Walker)
-----------------------------------------------------------------------------
(* Properties                                                              *)

HandedOut == walk # "none" /\ walk' = "none" /\ result'.ok

\* No key is handed out twice, whatever is created or deleted during the walk.
NoDuplicates ==
  \A i, j \in 1..Len(acc) : acc[i] = acc[j] => i = j

\* As long as nobody deletes and no page comes empty before its time, a walk finds
\* every key that was there all along, also when keys are created behind it; with nothing changing underneath, the
\* merged pages are the repository in its order, however the device cuts them.
CreatesLoseNothing ==
  [][HandedOut /\ met' \subseteq {"create"} =>
       /\ stay \subseteq ToSet(result'.entries)
       /\ met' = {} => result'.entries = repo /\ result'.total = Len(repo)]_vars

\* Every walk ends, also against a device that reports more than it lists.
WalksEnd == walk # "none" ~> walk = "none"
=============================================================================
