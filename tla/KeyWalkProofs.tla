--------------------------- MODULE KeyWalkProofs ----------------------------
(***************************************************************************)
(* Proofs about KeyWalk: what a walk over the pages of a listing hands out *)
(* while other clients change the repository, for every repository and     *)
(* size of pages.                                                          *)
(***************************************************************************)
EXTENDS KeyWalk, TLAPS

\* A key is in the repository once, and no id comes back.
RepoOK ==
  /\ \A i, j \in 1..Len(repo) : repo[i] = repo[j] => i = j
  /\ \A i \in 1..Len(repo) : repo[i] \notin fresh

\* What was gathered is behind the walk: it is neither ahead in the repository
\* nor still to be created.
BehindOK ==
  /\ \A i \in 1..Len(acc) : acc[i] \notin fresh
  /\ \A i \in 1..Len(acc), j \in 1..Len(repo) : j > offset => acc[i] # repo[j]

\* Where nobody deletes and nothing is withheld, the walk has gathered what is
\* before its offset, and there is more unless it is at the very beginning.
PrefixOK ==
  walk # "none" =>
    /\ ~result.ok
    /\ met \subseteq {"create"} =>
         /\ offset = 0 \/ offset < Len(repo)
         /\ Len(acc) = offset /\ \A i \in 1..offset : acc[i] = repo[i]
         /\ stay \subseteq ToSet(repo)

KeyInv == TypeOK /\ RepoOK /\ BehindOK /\ PrefixOK /\ NoDuplicates

-----------------------------------------------------------------------------
(* Sequences                                                               *)

\* The entries of a page.
LEMMA Listed ==
  ASSUME NEW S, NEW s \in Seq(S), NEW o \in Nat, NEW n \in Nat, o + n <= Len(s)
  PROVE  /\ SubSeq(s, o + 1, o + n) \in Seq(S) /\ Len(SubSeq(s, o + 1, o + n)) = n
         /\ \A j \in 1..n : SubSeq(s, o + 1, o + n)[j] = s[o + j]
  OBVIOUS

\* The entries of two pages one behind the other.
LEMMA Joined ==
  ASSUME NEW S, NEW s \in Seq(S), NEW t \in Seq(S)
  PROVE  /\ s \o t \in Seq(S) /\ Len(s \o t) = Len(s) + Len(t)
         /\ \A j \in 1..Len(s) : (s \o t)[j] = s[j]
         /\ \A j \in (Len(s) + 1)..(Len(s) + Len(t)) : (s \o t)[j] = t[j - Len(s)]
  OBVIOUS

\* Sequences with the same entries are equal.
LEMMA SameEntries ==
  ASSUME NEW S, NEW s \in Seq(S), NEW t \in Seq(S), Len(s) = Len(t),
         \A j \in 1..Len(t) : s[j] = t[j]
  PROVE  s = t
<1>1. s = [j \in 1..Len(s) |-> s[j]] /\ t = [j \in 1..Len(t) |-> t[j]]
  OBVIOUS
<1> QED BY <1>1

\* What a deletion leaves: the entries behind it move one place to the front.
LEMMA Removed ==
  ASSUME NEW S, NEW s \in Seq(S), NEW i \in 1..Len(s)
  PROVE  /\ RemoveAt(s, i) \in Seq(S) /\ Len(RemoveAt(s, i)) = Len(s) - 1
         /\ \A j \in 1..(Len(s) - 1) :
              RemoveAt(s, i)[j] = IF j < i THEN s[j] ELSE s[j + 1]
<1> DEFINE a == SubSeq(s, 1, i - 1)
           b == SubSeq(s, i + 1, Len(s))
<1>1. a \in Seq(S) /\ Len(a) = i - 1 /\ \A j \in 1..(i - 1) : a[j] = s[j]
  OBVIOUS
<1>2. b \in Seq(S) /\ Len(b) = Len(s) - i /\ \A j \in 1..(Len(s) - i) : b[j] = s[i + j]
  OBVIOUS
<1>3. RemoveAt(s, i) = a \o b
  BY DEF RemoveAt
<1> HIDE DEF a, b
<1>4. /\ a \o b \in Seq(S) /\ Len(a \o b) = Len(s) - 1
      /\ \A j \in 1..(i - 1) : (a \o b)[j] = a[j]
      /\ \A j \in i..(Len(s) - 1) : (a \o b)[j] = b[j - (i - 1)]
  BY <1>1, <1>2, Joined
<1>5. ASSUME NEW j \in 1..(Len(s) - 1)
      PROVE  (a \o b)[j] = IF j < i THEN s[j] ELSE s[j + 1]
  <2>1. CASE j < i
    BY <1>1, <1>4, <2>1
  <2>2. CASE ~(j < i)
    <3>1. j - (i - 1) \in 1..(Len(s) - i) /\ j \in i..(Len(s) - 1) /\ i + (j - (i - 1)) = j + 1
      BY <2>2
    <3> QED BY <1>2, <1>4, <2>2, <3>1
  <2> QED BY <2>1, <2>2
<1> QED BY <1>3, <1>4, <1>5

-----------------------------------------------------------------------------
(* Steps                                                                   *)

\* Before the first walk the repository has no key twice.
LEMMA KeyInit == Init => KeyInv
<1> SUFFICES ASSUME Init PROVE KeyInv
  OBVIOUS
<1>1. NoResult \in [ok : BOOLEAN, entries : Seq(Keys), total : Nat]
  BY DEF NoResult
<1>2. asking \in BOOLEAN
  BY Zenon DEF Init
<1>3. TypeOK
  BY <1>1, <1>2 DEF Init, TypeOK
<1> QED BY <1>3 DEF Init, KeyInv, RepoOK, BehindOK, PrefixOK, NoDuplicates

\* A walk starts with nothing gathered.
LEMMA StartStep ==
  ASSUME KeyInv, NEW kind \in {"list", "search"}, Start(kind)
  PROVE  KeyInv'
<1>1. TypeOK /\ RepoOK
  BY DEF KeyInv
<1>2. /\ walk' = kind /\ offset' = 0 /\ acc' = <<>> /\ result' = NoResult
      /\ stay' = ToSet(repo) /\ met' = {} /\ UNCHANGED <<repo, fresh, asking>>
  BY DEF Start
<1>3. ToSet(repo) \subseteq Keys
  BY <1>1 DEF TypeOK, ToSet
<1>4. TypeOK'
  BY <1>1, <1>2, <1>3 DEF TypeOK, NoResult
<1>5. RepoOK' /\ BehindOK' /\ NoDuplicates'
  BY <1>1, <1>2 DEF RepoOK, BehindOK, NoDuplicates
<1>6. PrefixOK'
  BY <1>2 DEF PrefixOK, NoResult
<1> QED BY <1>4, <1>5, <1>6 DEF KeyInv

\* Asking for a page changes nothing the walk relies on.
LEMMA AskStep == KeyInv /\ Ask => KeyInv'
<1> SUFFICES ASSUME KeyInv, Ask PROVE KeyInv'
  OBVIOUS
<1>1. asking' = TRUE /\ UNCHANGED <<repo, fresh, walk, offset, acc, result, stay, met>>
  BY DEF Ask
<1>2. asking' \in BOOLEAN
  BY <1>1, Zenon
<1> QED BY <1>1, <1>2 DEF KeyInv, TypeOK, RepoOK, BehindOK, PrefixOK, NoDuplicates

\* A page that fails ends the walk without a result.
LEMMA PageFailsStep == KeyInv /\ PageFails => KeyInv'
<1> SUFFICES ASSUME KeyInv, PageFails PROVE KeyInv'
  OBVIOUS
<1>1. /\ asking' = FALSE /\ walk' = "none" /\ acc' = <<>>
      /\ UNCHANGED <<repo, fresh, offset, result, stay, met>>
  BY DEF PageFails
<1>2. asking' \in BOOLEAN
  BY <1>1, Zenon
<1> QED BY <1>1, <1>2 DEF KeyInv, TypeOK, RepoOK, BehindOK, PrefixOK, NoDuplicates

\* What a page with m entries, from the offset on, does to the walk.
LEMMA MergeStep ==
  ASSUME KeyInv, NEW page \in Seq(Keys), NEW m \in Nat, Len(page) = m,
         \A j \in 1..m : offset + j <= Len(repo) /\ page[j] = repo[offset + j],
         NEW total \in Nat, Merge(page, total), UNCHANGED <<repo, fresh, stay>>,
         met' \in {met, met \union {"withhold"}},
         met' = met /\ m # 0 => total = Len(repo)
  PROVE  KeyInv'
<1>1. TypeOK /\ RepoOK /\ BehindOK /\ PrefixOK /\ NoDuplicates
  BY DEF KeyInv
<1>2. /\ asking' = FALSE /\ acc' = acc \o page /\ offset' = offset + m
      /\ IF m = 0 \/ offset + m >= total
         THEN walk' = "none" /\ result' = [ok |-> TRUE, entries |-> acc', total |-> total]
         ELSE UNCHANGED <<walk, result>>
  BY DEF Merge, NextOffset, EndOfWalk
<1>3. offset \in Nat /\ acc \in Seq(Keys) /\ repo \in Seq(Keys)
  BY <1>1 DEF TypeOK
<1>4. /\ acc' \in Seq(Keys) /\ Len(acc') = Len(acc) + m
      /\ \A j \in 1..Len(acc) : acc'[j] = acc[j]
      /\ \A j \in (Len(acc) + 1)..(Len(acc) + m) : acc'[j] = page[j - Len(acc)]
  BY <1>2, <1>3, Joined
<1>5. ASSUME NEW j \in 1..Len(acc')
      PROVE  \/ j \in 1..Len(acc) /\ acc'[j] = acc[j]
             \/ /\ j - Len(acc) \in 1..m /\ acc'[j] = repo[offset + (j - Len(acc))]
                /\ offset + (j - Len(acc)) \in 1..Len(repo)
  <2>1. CASE j <= Len(acc)
    BY <1>3, <1>4, <2>1
  <2>2. CASE j > Len(acc)
    <3>1. j - Len(acc) \in 1..m /\ j \in (Len(acc) + 1)..(Len(acc) + m)
      BY <1>3, <1>4, <2>2
    <3> QED BY <1>3, <1>4, <3>1
  <2> QED BY <1>3, <1>4, <2>1, <2>2
<1>6. TypeOK'
  <2>1. asking' \in BOOLEAN
    BY <1>2, Zenon
  <2>2. result' \in [ok : BOOLEAN, entries : Seq(Keys), total : Nat]
        /\ walk' \in {"none", "list", "search"}
    <3>1. CASE m = 0 \/ offset + m >= total
      <4>1. walk' = "none" /\ result' = [ok |-> TRUE, entries |-> acc', total |-> total]
        BY <1>2, <3>1
      <4>2. TRUE \in BOOLEAN
        OBVIOUS
      <4> QED BY <1>4, <4>1, <4>2
    <3>2. CASE ~(m = 0 \/ offset + m >= total)
      BY <1>1, <1>2, <3>2 DEF TypeOK
    <3> QED BY <3>1, <3>2
  <2>3. met' \subseteq {"create", "delete", "withhold"} /\ offset' \in Nat
    BY <1>1, <1>2, <1>3 DEF TypeOK
  <2> QED BY <1>1, <1>4, <2>1, <2>2, <2>3 DEF TypeOK
<1>7. RepoOK'
  BY <1>1 DEF RepoOK
<1>8. BehindOK'
  <2>1. ASSUME NEW i \in 1..Len(acc')
        PROVE  acc'[i] \notin fresh
    BY <1>1, <1>5 DEF BehindOK, RepoOK
  <2>2. ASSUME NEW i \in 1..Len(acc'), NEW j \in 1..Len(repo), j > offset'
        PROVE  acc'[i] # repo[j]
    <3>1. j > offset /\ j > offset + m
      BY <1>2, <1>3, <2>2
    <3>2. CASE i \in 1..Len(acc) /\ acc'[i] = acc[i]
      BY <1>1, <3>1, <3>2 DEF BehindOK
    <3>3. CASE /\ i - Len(acc) \in 1..m /\ acc'[i] = repo[offset + (i - Len(acc))]
               /\ offset + (i - Len(acc)) \in 1..Len(repo)
      <4>1. offset + (i - Len(acc)) # j
        BY <1>3, <1>4, <3>1, <3>3
      <4> QED BY <1>1, <3>3, <4>1 DEF RepoOK
    <3> QED BY <1>5, <3>2, <3>3
  <2> QED BY <2>1, <2>2 DEF BehindOK
<1>9. NoDuplicates'
  <2> SUFFICES ASSUME NEW i \in 1..Len(acc'), NEW j \in 1..Len(acc'), acc'[i] = acc'[j]
               PROVE  i = j
    BY DEF NoDuplicates
  <2> DEFINE Early(x) == x \in 1..Len(acc) /\ acc'[x] = acc[x]
             Late(x) == /\ x - Len(acc) \in 1..m /\ acc'[x] = repo[offset + (x - Len(acc))]
                        /\ offset + (x - Len(acc)) \in 1..Len(repo)
                        /\ offset + (x - Len(acc)) > offset
  <2>1. (Early(i) \/ Late(i)) /\ (Early(j) \/ Late(j))
    <3>1. \A x \in 1..Len(acc') : x - Len(acc) \in 1..m => offset + (x - Len(acc)) > offset
      BY <1>3, <1>4
    <3> QED BY <1>5, <3>1
  <2>2. CASE Early(i) /\ Early(j)
    BY <1>1, <2>2 DEF NoDuplicates
  <2>3. CASE Late(i) /\ Late(j)
    <3>1. offset + (i - Len(acc)) = offset + (j - Len(acc))
      BY <1>1, <2>3 DEF RepoOK
    <3> QED BY <1>3, <1>4, <3>1
  <2>4. CASE (Early(i) /\ Late(j)) \/ (Late(i) /\ Early(j))
    BY <1>1, <2>4 DEF BehindOK
  <2> QED BY <2>1, <2>2, <2>3, <2>4
<1>10. PrefixOK'
  <2> SUFFICES ASSUME walk' # "none"
               PROVE  /\ ~result'.ok
                      /\ met' \subseteq {"create"} =>
                           /\ offset' = 0 \/ offset' < Len(repo)
                           /\ Len(acc') = offset' /\ \A i \in 1..offset' : acc'[i] = repo[i]
                           /\ stay \subseteq ToSet(repo)
    BY DEF PrefixOK
  <2>1. m # 0 /\ offset + m < total /\ walk' = walk /\ result' = result
    BY <1>2, <1>3
  <2>2. ~result'.ok
    BY <1>1, <2>1 DEF PrefixOK
  <2>3. ASSUME met' \subseteq {"create"}
        PROVE  /\ offset' < Len(repo) /\ Len(acc') = offset'
               /\ \A i \in 1..offset' : acc'[i] = repo[i]
               /\ stay \subseteq ToSet(repo)
    <3>1. met' = met
      BY <2>3
    <3>2. /\ Len(acc) = offset /\ \A i \in 1..offset : acc[i] = repo[i]
          /\ stay \subseteq ToSet(repo)
      BY <1>1, <2>1, <2>3, <3>1 DEF PrefixOK
    <3>3. offset' < Len(repo) /\ Len(acc') = offset'
      BY <1>2, <1>4, <2>1, <3>1, <3>2
    <3>4. ASSUME NEW i \in 1..offset' PROVE acc'[i] = repo[i]
      <4>1. i \in 1..Len(acc')
        BY <3>3
      <4>2. CASE i \in 1..Len(acc) /\ acc'[i] = acc[i]
        BY <3>2, <4>2
      <4>3. CASE acc'[i] = repo[offset + (i - Len(acc))]
        <5>1. offset + (i - Len(acc)) = i
          BY <1>3, <3>2
        <5> QED BY <4>3, <5>1
      <4> QED BY <1>5, <4>1, <4>2, <4>3
    <3> QED BY <3>2, <3>3, <3>4
  <2> QED BY <2>2, <2>3
<1> QED BY <1>6, <1>7, <1>8, <1>9, <1>10 DEF KeyInv

\* A page is appended, and the walk goes on behind it or ends.
LEMMA PageStep == KeyInv /\ Page => KeyInv'
<1> SUFFICES ASSUME KeyInv, Page PROVE KeyInv'
  OBVIOUS
<1>1. offset \in Nat /\ repo \in Seq(Keys)
  BY DEF KeyInv, TypeOK
<1>2. PICK m \in 1..PageCap :
        m <= Len(repo) - offset /\ Merge(SubSeq(repo, offset + 1, offset + m), Len(repo))
  BY DEF Page, Remaining
<1>3. UNCHANGED <<repo, fresh, stay, met>>
  BY DEF Page
<1> DEFINE page == SubSeq(repo, offset + 1, offset + m)
<1>4. m \in Nat /\ offset + m <= Len(repo) /\ Len(repo) \in Nat
  BY <1>1, <1>2, KeyWalkAssumption
<1>5. page \in Seq(Keys) /\ Len(page) = m /\ \A j \in 1..m : page[j] = repo[offset + j]
  BY <1>1, <1>4, Listed
<1>6. \A j \in 1..m : offset + j <= Len(repo)
  BY <1>1, <1>4
<1> HIDE DEF page
<1>7. Merge(page, Len(repo))
  BY <1>2 DEF page
<1> QED BY <1>3, <1>4, <1>5, <1>6, <1>7, MergeStep

\* An empty page changes no more than that the walk is over.
LEMMA EmptyStep ==
  ASSUME KeyInv, NEW total \in Nat, Merge(<<>>, total), UNCHANGED <<repo, fresh, stay>>,
         met' \in {met, met \union {"withhold"}}
  PROVE  KeyInv'
<1>1. <<>> \in Seq(Keys) /\ Len(<<>>) = 0 /\ 0 \in Nat
  OBVIOUS
<1>2. \A j \in 1..0 : offset + j <= Len(repo) /\ <<>>[j] = repo[offset + j]
  OBVIOUS
<1> QED BY <1>1, <1>2, MergeStep

\* A page without entries ends the walk with what it has.
LEMMA EmptySteps == KeyInv /\ (PastEnd \/ EmptyPage) => KeyInv'
<1> SUFFICES ASSUME KeyInv, PastEnd \/ EmptyPage PROVE KeyInv'
  OBVIOUS
<1>1. Len(repo) \in Nat
  BY DEF KeyInv, TypeOK
<1>2. PICK total \in {Len(repo), 0} : Merge(<<>>, total)
  BY DEF PastEnd, EmptyPage
<1>3. UNCHANGED <<repo, fresh, stay>> /\ met' \in {met, met \union {"withhold"}}
  BY DEF PastEnd, EmptyPage
<1> QED BY <1>1, <1>2, <1>3, EmptyStep

\* A key created meanwhile goes behind everything there is.
LEMMA CreateStep ==
  ASSUME KeyInv, NEW k \in Keys, Create(k)
  PROVE  KeyInv'
<1>1. TypeOK /\ RepoOK /\ BehindOK /\ PrefixOK /\ NoDuplicates
  BY DEF KeyInv
<1>2. /\ k \in fresh /\ repo' = Append(repo, k) /\ fresh' = fresh \ {k}
      /\ met' = met \union {"create"}
      /\ UNCHANGED <<walk, asking, offset, acc, result, stay>>
  BY DEF Create, walkVars
<1>3. repo \in Seq(Keys) /\ acc \in Seq(Keys) /\ offset \in Nat
  BY <1>1 DEF TypeOK
<1>4. /\ repo' \in Seq(Keys) /\ Len(repo') = Len(repo) + 1 /\ repo'[Len(repo) + 1] = k
      /\ \A i \in 1..Len(repo) : repo'[i] = repo[i]
  BY <1>2, <1>3
<1>5. TypeOK'
  BY <1>1, <1>2, <1>4 DEF TypeOK
<1>6. RepoOK'
  BY <1>1, <1>2, <1>3, <1>4 DEF RepoOK
<1>7. BehindOK'
  BY <1>1, <1>2, <1>3, <1>4 DEF BehindOK
<1>8. PrefixOK'
  <2>1. ToSet(repo) \subseteq ToSet(repo')
    BY <1>3, <1>4 DEF ToSet
  <2> SUFFICES ASSUME walk # "none"
               PROVE  /\ ~result.ok
                      /\ met' \subseteq {"create"} =>
                           /\ offset = 0 \/ offset < Len(repo')
                           /\ Len(acc) = offset /\ \A i \in 1..offset : acc[i] = repo'[i]
                           /\ stay \subseteq ToSet(repo')
    BY <1>2 DEF PrefixOK
  <2>2. ~result.ok
    BY <1>1 DEF PrefixOK
  <2>3. ASSUME met' \subseteq {"create"}
        PROVE  /\ offset = 0 \/ offset < Len(repo')
               /\ Len(acc) = offset /\ \A i \in 1..offset : acc[i] = repo'[i]
               /\ stay \subseteq ToSet(repo')
    <3>1. met \subseteq {"create"}
      BY <1>2, <2>3
    <3>2. /\ offset = 0 \/ offset < Len(repo)
          /\ Len(acc) = offset /\ \A i \in 1..offset : acc[i] = repo[i]
          /\ stay \subseteq ToSet(repo)
      BY <1>1, <3>1 DEF PrefixOK
    <3> QED BY <1>3, <1>4, <2>1, <3>2
  <2> QED BY <2>2, <2>3
<1>9. NoDuplicates'
  BY <1>1, <1>2 DEF NoDuplicates
<1> QED BY <1>5, <1>6, <1>7, <1>8, <1>9 DEF KeyInv

\* A key that leaves the repository moves the others towards the walk, never
\* past it.
LEMMA DeleteStep ==
  ASSUME KeyInv, NEW d \in DOMAIN repo, Delete(d)
  PROVE  KeyInv'
<1>1. TypeOK /\ RepoOK /\ BehindOK /\ PrefixOK /\ NoDuplicates
  BY DEF KeyInv
<1>2. /\ repo' = RemoveAt(repo, d) /\ stay' = stay \ {repo[d]}
      /\ met' = met \union {"delete"}
      /\ UNCHANGED <<fresh, walk, asking, offset, acc, result>>
  BY DEF Delete, walkVars
<1>3. repo \in Seq(Keys) /\ acc \in Seq(Keys) /\ offset \in Nat /\ d \in 1..Len(repo)
  BY <1>1 DEF TypeOK
<1>4. /\ repo' \in Seq(Keys) /\ Len(repo') = Len(repo) - 1
      /\ \A j \in 1..(Len(repo) - 1) :
           repo'[j] = IF j < d THEN repo[j] ELSE repo[j + 1]
  BY <1>2, <1>3, Removed
<1>5. TypeOK'
  BY <1>1, <1>2, <1>4 DEF TypeOK
<1> DEFINE old(j) == IF j < d THEN j ELSE j + 1
<1>6. \A j \in 1..Len(repo') : /\ old(j) \in 1..Len(repo) /\ repo'[j] = repo[old(j)]
                               /\ old(j) >= j
  BY <1>3, <1>4
<1>7. \A i, j \in 1..Len(repo') : old(i) = old(j) => i = j
  BY <1>3, <1>4
<1> HIDE DEF old
<1>8. RepoOK'
  <2>1. \A i, j \in 1..Len(repo') : repo'[i] = repo'[j] => i = j
    BY <1>1, <1>6, <1>7 DEF RepoOK
  <2>2. \A i \in 1..Len(repo') : repo'[i] \notin fresh
    BY <1>1, <1>6 DEF RepoOK
  <2> QED BY <1>2, <2>1, <2>2 DEF RepoOK
<1>9. BehindOK'
  <2>1. ASSUME NEW i \in 1..Len(acc), NEW j \in 1..Len(repo'), j > offset
        PROVE  acc[i] # repo'[j]
    <3>1. old(j) \in 1..Len(repo) /\ repo'[j] = repo[old(j)] /\ old(j) > offset
      BY <1>3, <1>4, <1>6, <2>1
    <3> QED BY <1>1, <3>1 DEF BehindOK
  <2> QED BY <1>1, <1>2, <2>1 DEF BehindOK
<1>10. PrefixOK' /\ NoDuplicates'
  <2>1. ~(met' \subseteq {"create"})
    BY <1>2
  <2> QED BY <1>1, <1>2, <2>1 DEF PrefixOK, NoDuplicates
<1> QED BY <1>5, <1>8, <1>9, <1>10 DEF KeyInv

\* Every step of the walk and of other clients keeps the invariant.
LEMMA KeyNext == KeyInv /\ [Next]_vars => KeyInv'
<1> SUFFICES ASSUME KeyInv, [Next]_vars PROVE KeyInv'
  OBVIOUS
<1>1. ASSUME NEW kind \in {"list", "search"}, Start(kind) PROVE KeyInv'
  BY <1>1, StartStep
<1>2. CASE Ask
  BY <1>2, AskStep
<1>3. CASE Page
  BY <1>3, PageStep
<1>4. CASE PastEnd \/ EmptyPage
  BY <1>4, EmptySteps
<1>5. CASE PageFails
  BY <1>5, PageFailsStep
<1>6. ASSUME NEW k \in Keys, Create(k) PROVE KeyInv'
  BY <1>6, CreateStep
<1>7. ASSUME NEW d \in DOMAIN repo, Delete(d) PROVE KeyInv'
  BY <1>7, DeleteStep
<1>8. CASE UNCHANGED vars
  BY <1>8 DEF vars, walkVars, KeyInv, TypeOK, RepoOK, BehindOK, PrefixOK, NoDuplicates
<1> QED BY <1>1, <1>2, <1>3, <1>4, <1>5, <1>6, <1>7, <1>8 DEF Next, Walker

-----------------------------------------------------------------------------
(* Results                                                                 *)

\* The repository, what a walk has gathered and what is still ahead of it, as the
\* parts of the invariant say, in every reachable state.
THEOREM WalkInvariant == Spec => []KeyInv
  BY KeyInit, KeyNext, PTL DEF Spec

\* Every variable keeps its type.
THEOREM WalkTypes == Spec => []TypeOK
<1>1. KeyInv => TypeOK
  BY DEF KeyInv
<1> QED BY <1>1, WalkInvariant, PTL

\* ehem_key_list_all and ehem_key_search_all hand no key out twice, whatever
\* other clients create or delete between two pages.
THEOREM NoKeyTwice == Spec => []NoDuplicates
<1>1. KeyInv => NoDuplicates
  BY DEF KeyInv
<1> QED BY <1>1, WalkInvariant, PTL

\* A walk that nobody deletes under hands out every key that was there when it
\* began; one that nothing changes under hands out the repository itself.
THEOREM CreatesAreHarmless == Spec => CreatesLoseNothing
<1> DEFINE Complete == /\ stay \subseteq ToSet(result'.entries)
                       /\ met' = {} => result'.entries = repo /\ result'.total = Len(repo)
<1>1. KeyInv /\ [Next]_vars => [HandedOut /\ met' \subseteq {"create"} => Complete]_vars
  <2> SUFFICES ASSUME KeyInv, Next, HandedOut, met' \subseteq {"create"}
               PROVE  Complete
    BY Zenon
  <2>1. /\ walk # "none" /\ walk' = "none" /\ result'.ok /\ ~result.ok
        /\ offset \in Nat /\ repo \in Seq(Keys) /\ acc \in Seq(Keys)
    BY DEF HandedOut, KeyInv, TypeOK, PrefixOK
  <2>2. ASSUME NEW page, NEW total, Merge(page, total)
        PROVE  /\ result' = [ok |-> TRUE, entries |-> acc \o page, total |-> total]
               /\ EndOfWalk(Len(page), offset + Len(page), total)
    BY <2>1, <2>2 DEF Merge, NextOffset
  <2>3. ASSUME met \subseteq {"create"}
        PROVE  /\ offset = 0 \/ offset < Len(repo)
               /\ Len(acc) = offset /\ \A i \in 1..offset : acc[i] = repo[i]
               /\ stay \subseteq ToSet(repo)
    BY <2>1, <2>3 DEF KeyInv, PrefixOK
  <2>4. CASE Page
    <3>1. met' = met
      BY <2>4 DEF Page
    <3>2. PICK m \in 1..PageCap :
            m <= Len(repo) - offset /\ Merge(SubSeq(repo, offset + 1, offset + m), Len(repo))
      BY <2>4 DEF Page, Remaining
    <3> DEFINE page == SubSeq(repo, offset + 1, offset + m)
    <3>3. m \in Nat \ {0} /\ offset + m <= Len(repo)
      BY <2>1, <3>2, KeyWalkAssumption
    <3>4. page \in Seq(Keys) /\ Len(page) = m /\ \A j \in 1..m : page[j] = repo[offset + j]
      BY <2>1, <3>3, Listed
    <3> HIDE DEF page
    <3>5. /\ result' = [ok |-> TRUE, entries |-> acc \o page, total |-> Len(repo)]
          /\ EndOfWalk(Len(page), offset + Len(page), Len(repo))
      BY <2>2, <3>2 DEF page
    <3>6. offset + m = Len(repo)
      BY <2>1, <3>3, <3>4, <3>5 DEF EndOfWalk
    <3>7. acc \o page = repo
      <4>1. Len(acc) = offset /\ \A i \in 1..offset : acc[i] = repo[i]
        BY <2>3, <3>1
      <4>2. /\ acc \o page \in Seq(Keys) /\ Len(acc \o page) = Len(repo)
            /\ \A j \in 1..offset : (acc \o page)[j] = acc[j]
            /\ \A j \in (offset + 1)..(offset + m) : (acc \o page)[j] = page[j - offset]
        BY <2>1, <3>4, <3>6, <4>1, Joined
      <4>3. ASSUME NEW j \in 1..Len(repo) PROVE (acc \o page)[j] = repo[j]
        <5>1. CASE j <= offset
          BY <2>1, <4>1, <4>2, <5>1
        <5>2. CASE ~(j <= offset)
          <6>1. j \in (offset + 1)..(offset + m) /\ j - offset \in 1..m
                /\ offset + (j - offset) = j
            BY <2>1, <3>6, <5>2
          <6> QED BY <3>4, <4>2, <6>1
        <5> QED BY <5>1, <5>2
      <4> HIDE DEF page
      <4> QED BY <2>1, <4>2, <4>3, SameEntries
    <3> QED BY <2>3, <3>1, <3>5, <3>7
  <2>5. CASE PastEnd
    <3>1. met' = met /\ Len(repo) - offset <= 0
      BY <2>5 DEF PastEnd, Remaining
    <3>2. offset = 0 /\ Len(repo) = 0
      BY <2>1, <2>3, <3>1
    <3>3. acc = <<>> /\ repo = <<>>
      BY <2>1, <2>3, <3>1, <3>2
    <3>4. PICK total \in {Len(repo), 0} : Merge(<<>>, total)
      BY <2>5 DEF PastEnd
    <3>5. result' = [ok |-> TRUE, entries |-> acc \o <<>>, total |-> total]
      BY <2>2, <3>4
    <3>6. acc \o <<>> = repo
      BY <3>3
    <3> QED BY <2>3, <3>1, <3>2, <3>4, <3>5, <3>6
  <2>6. CASE EmptyPage
    BY <2>6 DEF EmptyPage
  <2>7. CASE ~(Page \/ PastEnd \/ EmptyPage)
    <3>1. walk' = walk \/ result' = result \/ walk' \in {"list", "search"}
      BY <2>7 DEF Next, Walker, Start, Ask, PageFails, Create, Delete, walkVars
    <3> QED BY <2>1, <3>1
  <2> QED BY <2>4, <2>5, <2>6, <2>7
<1> QED BY <1>1, WalkInvariant, PTL DEF Spec, CreatesLoseNothing
=============================================================================
