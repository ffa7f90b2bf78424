-------------------------- MODULE MpscQueueProofs --------------------------
(***************************************************************************)
(* Proofs about MpscQueue, for any producers, elements and list lengths.   *)
(*                                                                         *)
(* The inductive invariant says which list the pointers stand for: some L, *)
(* numbered in append order, whose numbers lo + 1 .. mid are the batch in  *)
(* the consumer's hands and mid + 1 .. hi the queue proper.  Every element *)
(* is followed by its successor, through its link or through the store a   *)
(* producer is about to make.                                              *)
(***************************************************************************)
EXTENDS MpscQueue, FiniteSetTheorems, SequenceTheorems, TLAPS

-----------------------------------------------------------------------------
(* The inductive invariant, as a conjunction of named parts. *)

Pending(c) == \E p \in Producers : ppc[p] = "link" /\ pprev[p] = c

\* c is followed by d: linked, or about to be.
Edge(c, d) ==
    \/ next[c] = d /\ ~Pending(c)
    \/ next[c] = NULL /\ \E p \in Producers : ppc[p] = "link" /\ pprev[p] = c /\ pfirst[p] = d

\* c is the last of a list.
End(c) == next[c] = NULL /\ ~Pending(c)

LinkTyped == \A p \in Producers : ppc[p] = "link" => pprev[p] \in Chains /\ pfirst[p] \in Elements

Numbering == [Nat -> Elements \cup {NULL}]

BatchSteps == {"batch", "invoke", "restorecas", "restorewait", "restorehead"}

\* The list's elements are different, and are the elements not marked as free.
ListRep(L, lo, hi) ==
    /\ \A i \in lo + 1 .. hi : L[i] \in Elements
    /\ \A i, j \in lo + 1 .. hi : L[i] = L[j] => i = j
    /\ \A e \in Elements : next[e] # NOTQUEUED <=> \E i \in lo + 1 .. hi : L[i] = e

\* They follow each other, except at the cut between batch and queue, which a
\* restore closes before it stores to the head.
LinkRep(L, lo, mid, hi) ==
    /\ \A i \in lo + 1 .. hi - 1 : i # mid \/ cpc = "restorehead" => Edge(L[i], L[i + 1])
    /\ lo < hi => End(L[hi])
    /\ lo < mid /\ cpc # "restorehead" => End(L[mid])
    /\ IF hi = mid /\ cpc # "restorehead" THEN tail = HEAD ELSE tail = L[hi]

\* The head is followed by the queue, unless the consumer has cut it off to take
\* the queue, or has not yet stored a batch that it puts back.
HeadRep(L, mid, hi) ==
    /\ cpc \notin {"xchgtail", "restorehead"} =>
          IF mid < hi THEN Edge(HEAD, L[mid + 1]) ELSE End(HEAD)
    /\ cpc \in {"clearhead", "xchgtail", "restorehead"} => ~Pending(HEAD)
    /\ cpc = "xchgtail" => next[HEAD] = NULL
    /\ cpc \in {"clearhead", "xchgtail"} => chead = L[mid + 1]

\* What the consumer's local variables point to.
ConsumerRep(L, lo, mid, hi) ==
    /\ cpc \notin BatchSteps => lo = mid
    /\ cpc \in {"loadhead", "clearhead", "xchgtail", "restorewait"} => mid < hi
    /\ cpc \in BatchSteps => lo < mid /\ cur = L[lo + 1] /\ ctail = L[mid]
    /\ cpc = "invoke" =>
          /\ next[cur] = tmp /\ ~Pending(cur)
          /\ IF lo + 1 = mid THEN tmp = NULL ELSE tmp = L[lo + 2]

Rep(L, lo, mid, hi) ==
    /\ lo <= mid /\ mid <= hi
    /\ ListRep(L, lo, hi)
    /\ LinkRep(L, lo, mid, hi)
    /\ HeadRep(L, mid, hi)
    /\ ConsumerRep(L, lo, mid, hi)

Base == TypeOK /\ LateLinkSafe /\ LinkTyped

QueueInv == Base /\ \E L \in Numbering, lo, mid, hi \in Nat : Rep(L, lo, mid, hi)

-----------------------------------------------------------------------------
(* What a step does to the links. *)

\* At the start the list is empty.
LEMMA InitInv == Init => QueueInv
<1> SUFFICES ASSUME Init PROVE QueueInv OBVIOUS
<1> USE QueueAssumption
<1>1. Base
  BY DEF Init, Base, TypeOK, LateLinkSafe, LinkTyped, Chains
<1> DEFINE L0 == [i \in Nat |-> NULL]
<1>2. L0 \in Numbering
  BY DEF Numbering
<1>3. ~Pending(HEAD) /\ End(HEAD)
  BY DEF Init, Pending, End, Chains
<1>4. Rep(L0, 0, 0, 0)
  BY <1>3 DEF Init, Rep, ListRep, LinkRep, HeadRep, ConsumerRep, BatchSteps, Chains
<1> QED BY <1>1, <1>2, <1>4 DEF QueueInv

\* The second half of an append replaces the pending successor by a link.
LEMMA LinkStep ==
    ASSUME Base, NEW p \in Producers, AppendUpdatePrev(p)
    PROVE  /\ \A c, d : Edge(c, d) => Edge(c, d)'
           /\ \A c \in Chains : ~Pending(c) => ~Pending(c)' /\ next'[c] = next[c]
           /\ \A c \in Chains : next'[c] # NOTQUEUED <=> next[c] # NOTQUEUED
<1> USE QueueAssumption
<1>1. /\ pprev[p] \in Chains /\ pfirst[p] \in Elements
      /\ next[pprev[p]] = NULL
      /\ \A c \in Chains : next'[c] = IF c = pprev[p] THEN pfirst[p] ELSE next[c]
  BY DEF Base, TypeOK, LateLinkSafe, LinkTyped, AppendUpdatePrev
<1>2. \A q \in Producers : ppc'[q] = "link" => q # p /\ ppc[q] = "link"
                             /\ pprev'[q] = pprev[q] /\ pfirst'[q] = pfirst[q]
  BY DEF Base, TypeOK, AppendUpdatePrev
<1>3. \A q \in Producers : q # p /\ ppc[q] = "link" => ppc'[q] = "link"
                             /\ pprev'[q] = pprev[q] /\ pfirst'[q] = pfirst[q]
  BY DEF Base, TypeOK, AppendUpdatePrev
<1>4. \A q \in Producers : ppc[q] = "link" /\ pprev[q] = pprev[p] => q = p
  BY DEF Base, LateLinkSafe, AppendUpdatePrev
<1>5. ppc[p] = "link"
  BY DEF AppendUpdatePrev
<1>6. \A c \in Chains : ~Pending(c) => ~Pending(c)' /\ next'[c] = next[c]
  BY <1>1, <1>2, <1>5 DEF Pending
<1>7. ASSUME NEW c, NEW d, Edge(c, d) PROVE Edge(c, d)'
  <2>1. CASE c = pprev[p]
    <3>1. d = pfirst[p]
      BY <1>4, <1>5, <1>7, <2>1 DEF Edge, Pending
    <3>2. ~Pending(c)'
      BY <1>2, <1>4, <2>1 DEF Pending
    <3> QED BY <1>1, <2>1, <3>1, <3>2 DEF Edge
  <2>2. CASE c # pprev[p]
    <3>1. next'[c] = next[c]
      BY <2>2 DEF AppendUpdatePrev, Base, TypeOK
    <3>2. CASE next[c] = d /\ ~Pending(c)
      BY <1>2, <3>1, <3>2 DEF Edge, Pending
    <3>3. CASE next[c] = NULL /\ \E q \in Producers : ppc[q] = "link" /\ pprev[q] = c /\ pfirst[q] = d
      BY <1>3, <2>2, <3>1, <3>3 DEF Edge
    <3> QED BY <1>7, <3>2, <3>3 DEF Edge
  <2> QED BY <2>1, <2>2
<1> QED BY <1>1, <1>6, <1>7 DEF Chains

\* A step of the consumer makes no link pending, and leaves what it does not
\* store to as it was.
LEMMA ConsumerFrame ==
    ASSUME UNCHANGED pvars
    PROVE  /\ \A c : Pending(c)' <=> Pending(c)
           /\ \A c, d : next'[c] = next[c] => (Edge(c, d)' <=> Edge(c, d))
           /\ \A c : next'[c] = next[c] => (End(c)' <=> End(c))
<1>1. ppc' = ppc /\ pprev' = pprev /\ pfirst' = pfirst
  BY DEF pvars
<1>2. \A c : Pending(c)' <=> Pending(c)
  BY <1>1 DEF Pending
<1> QED BY <1>1, <1>2 DEF Edge, End

\* A consumer that stores to a chain nobody is about to link, or clears it,
\* leaves every late link safe.
LEMMA ConsumerBase ==
    ASSUME Base, UNCHANGED pvars, TypeOK',
           NEW a, \A c \in Chains : c # a => next'[c] = next[c], ~Pending(a) \/ next'[a] = NULL
    PROVE  Base'
<1>1. ppc' = ppc /\ pprev' = pprev /\ pfirst' = pfirst
  BY DEF pvars
<1>2. LinkTyped'
  BY <1>1 DEF LinkTyped, Base
<1>3. LateLinkSafe'
  BY <1>1 DEF LateLinkSafe, LinkTyped, Base, Pending
<1> QED BY <1>2, <1>3 DEF Base

\* The second half of an append keeps the list.
LEMMA PrevInv ==
    ASSUME Base, NEW p \in Producers, AppendUpdatePrev(p),
           NEW L \in Numbering, NEW lo \in Nat, NEW mid \in Nat, NEW hi \in Nat,
           Rep(L, lo, mid, hi)
    PROVE  Base' /\ Rep(L, lo, mid, hi)'
<1> USE QueueAssumption
<1>1. /\ \A c, d : Edge(c, d) => Edge(c, d)'
      /\ \A c \in Chains : ~Pending(c) => ~Pending(c)' /\ next'[c] = next[c]
      /\ \A c \in Chains : next'[c] # NOTQUEUED <=> next[c] # NOTQUEUED
  BY LinkStep
<1>2. \A c \in Chains : End(c) => End(c)'
  BY <1>1 DEF End
<1>3. tail' = tail /\ cpc' = cpc /\ chead' = chead /\ ctail' = ctail /\ cur' = cur /\ tmp' = tmp
  BY DEF AppendUpdatePrev, cvars
<1>4. HEAD \in Chains /\ Elements \subseteq Chains
  BY DEF Chains
<1>5. Base'
  <2>1. pprev[p] \in Chains /\ pfirst[p] \in Elements
    BY DEF Base, LinkTyped, AppendUpdatePrev
  <2>2. TypeOK'
    BY <2>1 DEF Base, TypeOK, AppendUpdatePrev, cvars
  <2>3. \A q \in Producers : ppc'[q] = "link" => q # p /\ ppc[q] = "link"
                               /\ pprev'[q] = pprev[q] /\ pfirst'[q] = pfirst[q]
    BY DEF Base, TypeOK, AppendUpdatePrev
  <2>4. \A q \in Producers : ppc'[q] = "link" => pprev[q] \in Chains /\ next'[pprev[q]] = next[pprev[q]]
    BY <2>3 DEF Base, TypeOK, LateLinkSafe, LinkTyped, AppendUpdatePrev
  <2> QED BY <2>2, <2>3, <2>4 DEF Base, LateLinkSafe, LinkTyped
<1>6. ListRep(L, lo, hi)'
  BY <1>1, <1>4 DEF Rep, ListRep
<1>7. LinkRep(L, lo, mid, hi)'
  <2>1. \A i \in lo + 1 .. hi : L[i] \in Chains
    BY <1>4 DEF Rep, ListRep
  <2> QED BY <1>1, <1>2, <1>3, <2>1 DEF Rep, LinkRep
<1>8. HeadRep(L, mid, hi)'
  BY <1>1, <1>2, <1>3, <1>4 DEF Rep, HeadRep
<1>9. ConsumerRep(L, lo, mid, hi)'
  <2>1. cpc = "invoke" => cur \in Chains
    BY <1>4 DEF Rep, ConsumerRep, ListRep, BatchSteps
  <2> QED BY <1>1, <1>3, <2>1 DEF Rep, ConsumerRep
<1> QED BY <1>5, <1>6, <1>7, <1>8, <1>9 DEF Rep

\* Exchanging the tail puts the new list behind the old one.
LEMMA TailInv ==
    ASSUME Base, NEW p \in Producers, NEW list \in Lists, AppendUpdateTail(p, list),
           NEW L \in Numbering, NEW lo \in Nat, NEW mid \in Nat, NEW hi \in Nat,
           Rep(L, lo, mid, hi),
           NEW L2, L2 = [i \in Nat |-> IF i \in hi + 1 .. hi + Len(list) THEN list[i - hi] ELSE L[i]]
    PROVE  /\ Len(list) \in Nat \ {0} /\ hi + Len(list) \in Nat
           /\ L2 \in Numbering
           /\ Base' /\ Rep(L2, lo, mid, hi + Len(list))'
<1> USE QueueAssumption
<1> DEFINE n == Len(list)
           m == hi + n
<1>1. /\ list \in [1 .. n -> Elements] /\ n \in Nat \ {0}
      /\ \A i, j \in 1 .. n : list[i] = list[j] => i = j
  <2>1. PICK k \in 1 .. MaxList : list \in [1 .. k -> Elements]
    BY DEF Lists
  <2>2. list \in Seq(Elements) /\ Len(list) = k
    BY <2>1
  <2>3. IsInjective(list)
    BY DEF Lists
  <2> QED BY <2>1, <2>2, <2>3 DEF IsInjective
<1>2. /\ \A i \in 1 .. n : list[i] \in Elements /\ next[list[i]] = NOTQUEUED
      /\ ppc[p] = "idle"
  BY <1>1 DEF AppendUpdateTail
<1>3. /\ \A i \in 1 .. n : next'[list[i]] = IF i = n THEN NULL ELSE list[i + 1]
      /\ \A c \in Chains : (\A i \in 1 .. n : list[i] # c) => next'[c] = next[c]
  BY <1>1, <1>2 DEF AppendUpdateTail, Chains
<1>4. /\ tail' = list[n] /\ tail' \in Elements
      /\ \A q \in Producers : q # p => ppc'[q] = ppc[q] /\ pprev'[q] = pprev[q] /\ pfirst'[q] = pfirst[q]
      /\ ppc'[p] = "link" /\ pprev'[p] = tail /\ pfirst'[p] = list[1]
      /\ cpc' = cpc /\ chead' = chead /\ ctail' = ctail /\ cur' = cur /\ tmp' = tmp
  BY <1>1 DEF AppendUpdateTail, cvars, Base, TypeOK
<1>5. /\ L2 \in Numbering
      /\ \A i \in lo + 1 .. hi : L2[i] = L[i]
      /\ \A i \in hi + 1 .. m : L2[i] = list[i - hi]
      /\ m \in Nat /\ m > hi
  <2>1. \A i \in Nat : L2[i] = IF i \in hi + 1 .. m THEN list[i - hi] ELSE L[i]
    OBVIOUS
  <2>2. \A i \in hi + 1 .. m : i - hi \in 1 .. n /\ list[i - hi] \in Elements
    BY <1>1
  <2>3. m \in Nat /\ m > hi
    BY <1>1
  <2>4. \A i \in Nat : L2[i] \in Elements \cup {NULL}
    BY <2>1, <2>2 DEF Numbering
  <2>5. L2 \in Numbering
    BY <2>4 DEF Numbering
  <2> QED BY <2>1, <2>3, <2>5
<1>6. /\ \A i \in lo + 1 .. hi : L[i] \in Elements /\ next[L[i]] # NOTQUEUED
      /\ lo <= mid /\ mid <= hi
  BY DEF Rep, ListRep
<1>t. PICK t : t = tail
  OBVIOUS
\* The tail is the end of a list.
<1>7. t \in Chains /\ End(t)
  BY <1>6, <1>t DEF Rep, LinkRep, HeadRep, ConsumerRep, BatchSteps, Base, TypeOK
<1>8. \A c : Pending(c)' <=> Pending(c) \/ c = t
  BY <1>2, <1>4, <1>t DEF Pending
<1>9. \A i \in 1 .. n : ~Pending(list[i]) /\ t # list[i] /\ list[i] \in Chains
  BY <1>1, <1>2, <1>7 DEF Pending, End, Base, LateLinkSafe, Chains
<1>10. ASSUME NEW c \in Chains, next[c] # NOTQUEUED, c # t
       PROVE  /\ next'[c] = next[c]
              /\ \A d : Edge(c, d) => Edge(c, d)'
              /\ End(c) => End(c)'
  <2>1. next'[c] = next[c]
    BY <1>2, <1>3, <1>10
  <2> QED BY <1>2, <1>4, <1>t, <1>8, <1>10, <2>1 DEF Edge, End
<1>11. Edge(t, list[1])'
  <2>1. next'[t] = NULL
    BY <1>3, <1>7, <1>9 DEF End
  <2> QED BY <1>4, <1>t, <2>1 DEF Edge
<1>12. /\ \A i \in 1 .. n - 1 : Edge(list[i], list[i + 1])'
       /\ End(list[n])'
  <2>1. ASSUME NEW i \in 1 .. n - 1 PROVE Edge(list[i], list[i + 1])'
    <3>1. next'[list[i]] = list[i + 1]
      BY <1>1, <1>3
    <3>2. ~Pending(list[i])'
      BY <1>1, <1>8, <1>9
    <3> QED BY <3>1, <3>2 DEF Edge
  <2>2. next'[list[n]] = NULL /\ ~Pending(list[n])'
    BY <1>1, <1>3, <1>8, <1>9
  <2> QED BY <2>1, <2>2 DEF End
<1> HIDE DEF n, m
<1>13. Base'
  <2>1. TypeOK'
    <3>1. next' \in [Chains -> Elements \cup {NULL, NOTQUEUED}]
      <4>1. \A c \in Chains : next'[c] \in Elements \cup {NULL, NOTQUEUED}
        <5> TAKE c \in Chains
        <5>1. CASE \E i \in 1 .. n : list[i] = c
          BY <1>1, <1>3, <5>1
        <5>2. CASE ~ \E i \in 1 .. n : list[i] = c
          BY <1>3, <5>2 DEF Base, TypeOK
        <5> QED BY <5>1, <5>2
      <4> QED BY <4>1 DEF AppendUpdateTail
    <3>2. list[1] \in Elements
      BY <1>1
    <3> QED BY <1>4, <1>7, <1>t, <3>1, <3>2 DEF Base, TypeOK, AppendUpdateTail, Chains
  <2>2. LinkTyped'
    BY <1>1, <1>4, <1>7, <1>t DEF Base, LinkTyped
  <2>3. ASSUME NEW q \in Producers, ppc'[q] = "link" PROVE next'[pprev'[q]] = NULL
    <3>1. CASE q = p
      BY <1>3, <1>4, <1>7, <1>9, <1>t, <3>1 DEF End
    <3>2. CASE q # p
      <4>1. ppc[q] = "link" /\ pprev'[q] = pprev[q] /\ pprev[q] \in Chains /\ next[pprev[q]] = NULL
        BY <1>4, <2>3, <3>2 DEF Base, LateLinkSafe, LinkTyped
      <4>2. \A i \in 1 .. n : list[i] # pprev[q]
        BY <1>2, <4>1
      <4> QED BY <1>3, <4>1, <4>2
    <3> QED BY <3>1, <3>2
  <2>4. ASSUME NEW q \in Producers, NEW r \in Producers \ {q}, ppc'[q] = "link", ppc'[r] = "link"
        PROVE  pprev'[r] # pprev'[q]
    BY <1>4, <1>7, <1>t, <2>4 DEF Base, LateLinkSafe, End, Pending
  <2> QED BY <2>1, <2>2, <2>3, <2>4 DEF Base, LateLinkSafe
<1>14. ListRep(L2, lo, m)'
  <2>1. \A i \in lo + 1 .. m : L2[i] \in Elements
    BY <1>1, <1>5, <1>6 DEF m
  <2>2. ASSUME NEW i \in lo + 1 .. m, NEW j \in lo + 1 .. m, L2[i] = L2[j] PROVE i = j
    <3>1. CASE i <= hi /\ j <= hi
      BY <1>5, <2>2, <3>1 DEF Rep, ListRep
    <3>2. CASE i > hi /\ j > hi
      BY <1>1, <1>5, <2>2, <3>2 DEF m
    <3>3. CASE i <= hi /\ j > hi
      <4>1. i \in lo + 1 .. hi /\ j \in hi + 1 .. m /\ j - hi \in 1 .. n
        BY <1>1, <3>3 DEF m
      <4>2. L[i] = list[j - hi]
        BY <1>5, <2>2, <4>1
      <4> QED BY <1>2, <1>6, <4>1, <4>2
    <3>4. CASE i > hi /\ j <= hi
      <4>1. j \in lo + 1 .. hi /\ i \in hi + 1 .. m /\ i - hi \in 1 .. n
        BY <1>1, <3>4 DEF m
      <4>2. L[j] = list[i - hi]
        BY <1>5, <2>2, <4>1
      <4> QED BY <1>2, <1>6, <4>1, <4>2
    <3> QED BY <3>1, <3>2, <3>3, <3>4, <1>5
  <2>3. ASSUME NEW e \in Elements
        PROVE  next'[e] # NOTQUEUED <=> \E i \in lo + 1 .. m : L2[i] = e
    <3>1. CASE \E k \in 1 .. n : list[k] = e
      <4>1. PICK k \in 1 .. n : list[k] = e
        BY <3>1
      <4>2. next'[e] # NOTQUEUED
        <5>1. k # n => list[k + 1] \in Elements
          BY <1>1
        <5> QED BY <1>3, <4>1, <5>1
      <4>3. hi + k \in lo + 1 .. m /\ L2[hi + k] = e
        BY <1>1, <1>5, <1>6, <4>1 DEF m
      <4> QED BY <4>2, <4>3
    <3>2. CASE ~ \E k \in 1 .. n : list[k] = e
      <4>1. next'[e] = next[e]
        BY <1>3, <3>2 DEF Chains
      <4>2. (\E i \in lo + 1 .. m : L2[i] = e) <=> (\E i \in lo + 1 .. hi : L[i] = e)
        <5>1. \A i \in hi + 1 .. m : L2[i] # e
          <6>1. \A i \in hi + 1 .. m : i - hi \in 1 .. n
            BY <1>1 DEF m
          <6> QED BY <1>5, <3>2, <6>1
        <5>2. \A i \in lo + 1 .. m : i \in lo + 1 .. hi \/ i \in hi + 1 .. m
          BY <1>1, <1>6 DEF m
        <5>3. \A i \in lo + 1 .. hi : i \in lo + 1 .. m
          BY <1>5
        <5> QED BY <1>5, <5>1, <5>2, <5>3
      <4> QED BY <4>1, <4>2 DEF Rep, ListRep
    <3> QED BY <3>1, <3>2
  <2> QED BY <2>1, <2>2, <2>3 DEF ListRep
<1>15. \A i \in lo + 1 .. hi : L[i] \in Chains
  BY <1>6 DEF Chains
<1>16. L2[hi + 1] = list[1] /\ L2[m] = list[n]
  BY <1>1, <1>5 DEF m
<1>17. LinkRep(L2, lo, mid, m)'
  <2>1. ASSUME NEW i \in lo + 1 .. m - 1, i # mid \/ cpc' = "restorehead" PROVE Edge(L2[i], L2[i + 1])'
    <3>1. CASE i < hi
      <4>1. Edge(L[i], L[i + 1]) /\ i + 1 \in lo + 1 .. hi /\ i \in lo + 1 .. hi
        BY <1>4, <2>1, <3>1 DEF Rep, LinkRep
      <4>2. L[i] # t
        BY <1>t, <3>1, <4>1, <1>15 DEF Rep, LinkRep, ListRep, Chains
      <4> QED BY <1>5, <1>6, <1>10, <1>15, <4>1, <4>2
    <3>2. CASE i = hi
      <4>1. t = L[hi]
        BY <1>t, <1>4, <2>1, <3>2 DEF Rep, LinkRep
      <4>2. L2[i] = t /\ L2[i + 1] = list[1]
        BY <1>5, <1>16, <3>2, <4>1, <2>1
      <4> QED BY <1>11, <4>2
    <3>3. CASE i > hi
      <4>1. i - hi \in 1 .. n - 1 /\ L2[i] = list[i - hi] /\ L2[i + 1] = list[(i - hi) + 1]
        BY <1>1, <1>5, <3>3, <2>1 DEF m
      <4> QED BY <1>12, <4>1
    <3> QED BY <3>1, <3>2, <3>3
  <2>2. End(L2[m])'
    BY <1>12, <1>16
  <2>3. ASSUME lo < mid, cpc' # "restorehead" PROVE End(L2[mid])'
    <3>1. mid \in lo + 1 .. hi /\ End(L[mid])
      BY <1>4, <1>6, <2>3 DEF Rep, LinkRep
    <3>2. L[mid] # t
      BY <1>t, <3>1, <1>4, <1>15, <2>3 DEF Rep, LinkRep, ListRep, Chains
    <3> QED BY <1>5, <1>6, <1>10, <1>15, <3>1, <3>2
  <2>4. m # mid /\ tail' = L2[m]
    BY <1>4, <1>5, <1>6, <1>16
  <2> QED BY <2>1, <2>2, <2>3, <2>4 DEF LinkRep
<1>18. HeadRep(L2, mid, m)'
  <2>1. next[HEAD] # NOTQUEUED \/ cpc = "restorehead"
    BY <1>6 DEF Rep, HeadRep, Edge, End
  <2>2. HEAD \in Chains /\ (t = HEAD <=> (hi = mid /\ cpc # "restorehead"))
    BY <1>t, <1>6, <1>15 DEF Rep, LinkRep, ConsumerRep, BatchSteps, Chains
  <2>3. \A i \in 1 .. n : list[i] # HEAD
    BY <1>1
  <2>4. next'[HEAD] = next[HEAD]
    BY <1>3, <2>3 DEF Chains
  <2>5. ASSUME cpc \notin {"xchgtail", "restorehead"} PROVE mid < m /\ Edge(HEAD, L2[mid + 1])'
    <3>1. CASE mid < hi
      <4>1. L2[mid + 1] = L[mid + 1] /\ Edge(HEAD, L[mid + 1])
        BY <1>5, <1>6, <2>5, <3>1 DEF Rep, HeadRep
      <4> QED BY <1>5, <1>10, <2>1, <2>2, <2>5, <3>1, <4>1 DEF Chains
    <3>2. CASE mid = hi
      <4>1. t = HEAD /\ L2[mid + 1] = list[1] /\ mid < m
        BY <1>5, <1>16, <2>2, <2>5, <3>2
      <4> QED BY <1>11, <4>1
    <3> QED BY <1>6, <3>1, <3>2
  <2>6. ASSUME cpc \in {"clearhead", "xchgtail", "restorehead"} PROVE ~Pending(HEAD)'
    <3>1. ~Pending(HEAD) /\ t # HEAD
      BY <2>2, <2>6 DEF Rep, HeadRep, ConsumerRep
    <3> QED BY <1>8, <3>1
  <2>7. cpc \in {"clearhead", "xchgtail"} => chead = L2[mid + 1]
    BY <1>5, <1>6 DEF Rep, HeadRep, ConsumerRep
  <2>8. cpc = "xchgtail" => next[HEAD] = NULL
    BY DEF Rep, HeadRep
  <2> QED BY <1>4, <2>4, <2>5, <2>6, <2>7, <2>8 DEF HeadRep
<1>19. ConsumerRep(L2, lo, mid, m)'
  <2>1. cpc \in BatchSteps => L2[lo + 1] = L[lo + 1] /\ L2[mid] = L[mid]
    BY <1>5, <1>6 DEF Rep, ConsumerRep
  <2>2. ASSUME cpc = "invoke" PROVE next'[cur] = tmp /\ ~Pending(cur)' /\ (lo + 1 # mid => L2[lo + 2] = L[lo + 2])
    <3>1. lo < mid /\ cur = L[lo + 1] /\ ctail = L[mid] /\ next[cur] = tmp /\ ~Pending(cur)
      BY <2>2 DEF Rep, ConsumerRep, BatchSteps
    <3>2. cur # t
      BY <1>t, <1>6, <1>15, <2>2, <3>1 DEF Rep, LinkRep, ListRep, Chains
    <3>3. PICK c \in Chains : c = cur /\ next[c] # NOTQUEUED
      BY <1>6, <1>15, <3>1
    <3>4. next'[c] = next[c] /\ ~Pending(c)'
      BY <1>8, <1>10, <3>1, <3>2, <3>3
    <3>5. lo + 1 # mid => L2[lo + 2] = L[lo + 2]
      BY <1>5, <1>6, <3>1
    <3> QED BY <1>4, <3>1, <3>3, <3>4, <3>5
  <2>3. mid < hi => mid < m
    BY <1>5
  <2> QED BY <1>4, <2>1, <2>2, <2>3 DEF Rep, ConsumerRep, BatchSteps
<1> QED BY <1>1, <1>5, <1>6, <1>13, <1>14, <1>17, <1>18, <1>19 DEF Rep, n, m

\* A dequeue that saw a tail has elements before it.
LEMMA LoadTailInv ==
    ASSUME Base, DequeueLoadTail,
           NEW L \in Numbering, NEW lo \in Nat, NEW mid \in Nat, NEW hi \in Nat,
           Rep(L, lo, mid, hi)
    PROVE  Base' /\ Rep(L, lo, mid, hi)'
<1> USE QueueAssumption
<1>1. UNCHANGED pvars /\ next' = next /\ tail' = tail /\ cpc = "idle" /\ cpc' = "loadhead"
  BY DEF DequeueLoadTail
<1>2. Base'
  BY <1>1 DEF DequeueLoadTail, Base, TypeOK, LateLinkSafe, LinkTyped, pvars
<1>3. mid < hi /\ lo = mid
  BY <1>1 DEF DequeueLoadTail, Rep, LinkRep, ConsumerRep, BatchSteps
<1> QED BY <1>1, <1>2, <1>3, ConsumerFrame
        DEF Rep, ListRep, LinkRep, HeadRep, ConsumerRep, BatchSteps

\* The first element is read from a link that has been made.
LEMMA LoadHeadInv ==
    ASSUME Base, DequeueLoadHead,
           NEW L \in Numbering, NEW lo \in Nat, NEW mid \in Nat, NEW hi \in Nat,
           Rep(L, lo, mid, hi)
    PROVE  Base' /\ Rep(L, lo, mid, hi)'
<1> USE QueueAssumption
<1>1. /\ UNCHANGED pvars /\ next' = next /\ tail' = tail /\ chead' = next[HEAD]
      /\ next[HEAD] # NULL /\ cpc = "loadhead" /\ cpc' = "clearhead"
  BY DEF DequeueLoadHead
<1>2. lo = mid /\ mid < hi /\ Edge(HEAD, L[mid + 1])
  BY <1>1 DEF Rep, HeadRep, ConsumerRep, BatchSteps
<1>3. next[HEAD] = L[mid + 1] /\ ~Pending(HEAD)
  BY <1>1, <1>2 DEF Edge
<1>4. L[mid + 1] \in Elements
  BY <1>2 DEF Rep, ListRep
<1>5. Base'
  BY <1>1, <1>3, <1>4 DEF DequeueLoadHead, Base, TypeOK, LateLinkSafe, LinkTyped, pvars
<1> QED BY <1>1, <1>2, <1>3, <1>5, ConsumerFrame
        DEF Rep, ListRep, LinkRep, HeadRep, ConsumerRep, BatchSteps

\* What a store of the consumer to one chain leaves alone in the list.
LEMMA ListFrame ==
    ASSUME UNCHANGED pvars, NEW a, \A c \in Chains : c # a => next'[c] = next[c],
           NEW L \in Numbering, NEW lo \in Nat, NEW hi \in Nat,
           \A i \in lo + 1 .. hi : L[i] \in Elements
    PROVE  /\ \A c : Pending(c)' <=> Pending(c)
           /\ \A i \in lo + 1 .. hi : L[i] # a =>
                 /\ \A d : Edge(L[i], d)' <=> Edge(L[i], d)
                 /\ End(L[i])' <=> End(L[i])
                 /\ next'[L[i]] = next[L[i]]
           /\ HEAD # a =>
                 /\ \A d : Edge(HEAD, d)' <=> Edge(HEAD, d)
                 /\ End(HEAD)' <=> End(HEAD)
                 /\ next'[HEAD] = next[HEAD]
<1>1. HEAD \in Chains /\ \A i \in lo + 1 .. hi : L[i] \in Chains
  BY DEF Chains
<1> QED BY <1>1, ConsumerFrame

\* The head is cut off while the list behind it is whole.
LEMMA ClearHeadInv ==
    ASSUME Base, DequeueClearHead,
           NEW L \in Numbering, NEW lo \in Nat, NEW mid \in Nat, NEW hi \in Nat,
           Rep(L, lo, mid, hi)
    PROVE  Base' /\ Rep(L, lo, mid, hi)'
<1> USE QueueAssumption
<1>1. /\ UNCHANGED pvars /\ tail' = tail /\ chead' = chead /\ ctail' = ctail /\ cur' = cur /\ tmp' = tmp
      /\ cpc = "clearhead" /\ cpc' = "xchgtail"
      /\ next'[HEAD] = NULL /\ \A c \in Chains : c # HEAD => next'[c] = next[c]
  BY DEF DequeueClearHead, Base, TypeOK, Chains
<1>2. TypeOK'
  BY <1>1 DEF DequeueClearHead, Base, TypeOK, pvars
<1>3. Base'
  BY <1>1, <1>2, ConsumerBase
<1>4. \A i \in lo + 1 .. hi : L[i] \in Elements /\ L[i] # HEAD
  BY DEF Rep, ListRep
<1>5. /\ \A c : Pending(c)' <=> Pending(c)
      /\ \A i \in lo + 1 .. hi : /\ \A d : Edge(L[i], d)' <=> Edge(L[i], d)
                                 /\ End(L[i])' <=> End(L[i])
  BY <1>1, <1>4, ListFrame
<1>6. ListRep(L, lo, hi)'
  BY <1>1, <1>4 DEF Rep, ListRep, Chains
<1>7. LinkRep(L, lo, mid, hi)'
  BY <1>1, <1>5 DEF Rep, LinkRep, ConsumerRep, BatchSteps
<1> QED BY <1>1, <1>3, <1>5, <1>6, <1>7 DEF Rep, HeadRep, ConsumerRep, BatchSteps

\* Exchanging the tail makes the whole queue the batch.
LEMMA XchgTailInv ==
    ASSUME Base, DequeueXchgTail,
           NEW L \in Numbering, NEW lo \in Nat, NEW mid \in Nat, NEW hi \in Nat,
           Rep(L, lo, mid, hi)
    PROVE  Base' /\ Rep(L, lo, hi, hi)'
<1> USE QueueAssumption
<1>1. /\ UNCHANGED pvars /\ next' = next /\ tail' = HEAD /\ ctail' = tail /\ cur' = chead
      /\ cpc = "xchgtail" /\ cpc' = "batch"
  BY DEF DequeueXchgTail
<1>2. /\ lo = mid /\ mid < hi /\ tail = L[hi] /\ chead = L[mid + 1]
      /\ next[HEAD] = NULL /\ ~Pending(HEAD)
  BY <1>1 DEF Rep, LinkRep, HeadRep, ConsumerRep, BatchSteps
<1>3. L[hi] \in Elements /\ L[mid + 1] \in Elements
  BY <1>2 DEF Rep, ListRep
<1>4. Base'
  BY <1>1, <1>2, <1>3 DEF DequeueXchgTail, Base, TypeOK, LateLinkSafe, LinkTyped, pvars, Chains
<1>5. LinkRep(L, lo, hi, hi)'
  BY <1>1, <1>2, ConsumerFrame DEF Rep, LinkRep
<1>6. HeadRep(L, hi, hi)'
  BY <1>1, <1>2, ConsumerFrame DEF HeadRep, End
<1> QED BY <1>1, <1>2, <1>4, <1>5, <1>6 DEF Rep, ListRep, ConsumerRep, BatchSteps

\* The next element of the batch is read from a link that has been made.
LEMMA BatchNextInv ==
    ASSUME Base, BatchNext,
           NEW L \in Numbering, NEW lo \in Nat, NEW mid \in Nat, NEW hi \in Nat,
           Rep(L, lo, mid, hi)
    PROVE  Base' /\ Rep(L, lo, mid, hi)'
<1> USE QueueAssumption
<1>1. /\ UNCHANGED pvars /\ next' = next /\ tail' = tail /\ chead' = chead /\ ctail' = ctail /\ cur' = cur
      /\ cpc = "batch" /\ cpc' = "invoke"
      /\ cur # ctail => next[cur] # NULL
      /\ IF cur = ctail THEN tmp' = NULL ELSE tmp' = next[cur]
  BY DEF BatchNext
<1>2. lo < mid /\ mid <= hi /\ cur = L[lo + 1] /\ ctail = L[mid]
  BY <1>1 DEF Rep, ConsumerRep, BatchSteps
<1>3. cur = ctail <=> lo + 1 = mid
  BY <1>2 DEF Rep, ListRep
<1>4. /\ next[cur] = tmp' /\ ~Pending(cur)
      /\ IF lo + 1 = mid THEN tmp' = NULL ELSE tmp' = L[lo + 2]
  <2>1. CASE lo + 1 = mid
    BY <1>1, <1>2, <1>3, <2>1 DEF Rep, LinkRep, End
  <2>2. CASE lo + 1 # mid
    <3>1. Edge(L[lo + 1], L[lo + 2])
      BY <1>1, <1>2, <2>2 DEF Rep, LinkRep
    <3> QED BY <1>1, <1>2, <1>3, <2>2, <3>1 DEF Edge
  <2> QED BY <2>1, <2>2
<1>5. tmp' \in Elements \cup {NULL}
  BY <1>2, <1>4 DEF Rep, ListRep
<1>6. Base'
  BY <1>1, <1>5 DEF BatchNext, Base, TypeOK, LateLinkSafe, LinkTyped, pvars
<1>7. ~Pending(cur)'
  BY <1>1, <1>4 DEF Pending, pvars
<1>8. ConsumerRep(L, lo, mid, hi)'
  BY <1>1, <1>2, <1>4, <1>7 DEF ConsumerRep, BatchSteps
<1>9. ListRep(L, lo, hi)'
  BY <1>1 DEF Rep, ListRep
<1>10. LinkRep(L, lo, mid, hi)'
  BY <1>1, ConsumerFrame DEF Rep, LinkRep
<1>11. HeadRep(L, mid, hi)'
  BY <1>1, ConsumerFrame DEF Rep, HeadRep
<1> QED BY <1>6, <1>8, <1>9, <1>10, <1>11 DEF Rep

\* Giving an element away takes it off the front of the batch.
LEMMA InvokeInv ==
    ASSUME Base, Invoke,
           NEW L \in Numbering, NEW lo \in Nat, NEW mid \in Nat, NEW hi \in Nat,
           Rep(L, lo, mid, hi)
    PROVE  Base' /\ Rep(L, lo + 1, mid, hi)'
<1> USE QueueAssumption
<1>1. /\ lo < mid /\ mid <= hi /\ cpc = "invoke" /\ ~Pending(cur)
      /\ cur = L[lo + 1] /\ ctail = L[mid]
      /\ IF lo + 1 = mid THEN tmp = NULL ELSE tmp = L[lo + 2]
  BY DEF Invoke, Rep, ConsumerRep, BatchSteps
<1>2. /\ \A i \in lo + 1 .. hi : L[i] \in Elements
      /\ \A i \in lo + 2 .. hi : L[i] # L[lo + 1]
      /\ L[lo + 1] \in Elements /\ L[lo + 1] # HEAD /\ L[lo + 1] \in Chains
  BY <1>1 DEF Rep, ListRep, Chains
<1>3. /\ UNCHANGED pvars /\ tail' = tail
      /\ next'[L[lo + 1]] = NOTQUEUED
      /\ \A c \in Chains : c # L[lo + 1] => next'[c] = next[c]
  BY <1>1, <1>2 DEF Invoke, Base, TypeOK
<1>4. IF lo + 1 = mid THEN cpc' = "idle" ELSE cpc' = "batch" /\ cur' = L[lo + 2] /\ ctail' = L[mid]
  BY <1>1, <1>2 DEF Invoke
<1>5. TypeOK'
  BY <1>1, <1>2 DEF Invoke, Base, TypeOK, pvars
<1>6. Base'
  BY <1>1, <1>3, <1>5, ConsumerBase
<1>7. /\ \A c : Pending(c)' <=> Pending(c)
      /\ \A i \in lo + 2 .. hi : /\ \A d : Edge(L[i], d)' <=> Edge(L[i], d)
                                 /\ End(L[i])' <=> End(L[i])
      /\ \A d : Edge(HEAD, d)' <=> Edge(HEAD, d)
      /\ End(HEAD)' <=> End(HEAD)
  <2>1. \A i \in lo + 1 .. hi : L[i] \in Elements
    BY <1>2
  <2>2. /\ \A c : Pending(c)' <=> Pending(c)
        /\ \A i \in lo + 1 .. hi : L[i] # L[lo + 1] =>
              /\ \A d : Edge(L[i], d)' <=> Edge(L[i], d)
              /\ End(L[i])' <=> End(L[i])
        /\ \A d : Edge(HEAD, d)' <=> Edge(HEAD, d)
        /\ End(HEAD)' <=> End(HEAD)
    <3>1. HEAD \in Chains /\ \A i \in lo + 1 .. hi : L[i] \in Chains
      BY <2>1 DEF Chains
    <3>2. /\ next'[HEAD] = next[HEAD]
          /\ \A i \in lo + 1 .. hi : L[i] # L[lo + 1] => next'[L[i]] = next[L[i]]
      BY <1>2, <1>3, <3>1
    <3>3. /\ \A c : Pending(c)' <=> Pending(c)
          /\ \A c, d : next'[c] = next[c] => (Edge(c, d)' <=> Edge(c, d))
          /\ \A c : next'[c] = next[c] => (End(c)' <=> End(c))
      BY <1>3, ConsumerFrame
    <3> QED BY <3>2, <3>3
  <2>3. \A i \in lo + 2 .. hi : i \in lo + 1 .. hi
    OBVIOUS
  <2> QED BY <1>2, <2>2, <2>3
<1>8. ListRep(L, lo + 1, hi)'
  <2>1. ASSUME NEW e \in Elements
        PROVE  next'[e] # NOTQUEUED <=> \E i \in lo + 2 .. hi : L[i] = e
    <3>1. CASE e = L[lo + 1]
      BY <1>2, <1>3, <3>1
    <3>2. CASE e # L[lo + 1]
      <4>1. next'[e] = next[e]
        BY <1>3, <3>2 DEF Chains
      <4>2. (\E i \in lo + 1 .. hi : L[i] = e) <=> (\E i \in lo + 2 .. hi : L[i] = e)
        BY <1>1, <3>2
      <4> QED BY <4>1, <4>2 DEF Rep, ListRep
    <3> QED BY <3>1, <3>2
  <2>2. (lo + 1) + 1 = lo + 2
    OBVIOUS
  <2> QED BY <1>2, <2>1, <2>2 DEF Rep, ListRep
<1>9. LinkRep(L, lo + 1, mid, hi)'
  BY <1>1, <1>3, <1>4, <1>7 DEF Rep, LinkRep
<1>10. HeadRep(L, mid, hi)'
  BY <1>1, <1>4, <1>7 DEF Rep, HeadRep
<1>11. ConsumerRep(L, lo + 1, mid, hi)'
  BY <1>1, <1>4 DEF ConsumerRep, BatchSteps
<1> QED BY <1>1, <1>6, <1>8, <1>9, <1>10, <1>11 DEF Rep

\* What stores of a restore to the batch's last element leave alone.
LEMMA LastFrame ==
    ASSUME Base, UNCHANGED pvars, cpc \in BatchSteps, cpc # "restorehead",
           NEW L \in Numbering, NEW lo \in Nat, NEW mid \in Nat, NEW hi \in Nat,
           Rep(L, lo, mid, hi),
           NEW v, v # NOTQUEUED, next' = [next EXCEPT ![ctail] = v]
    PROVE  /\ lo < mid /\ mid <= hi /\ ctail = L[mid] /\ cur = L[lo + 1]
           /\ L[mid] \in Elements /\ ~Pending(L[mid]) /\ next'[L[mid]] = v
           /\ \A c \in Chains : c # L[mid] => next'[c] = next[c]
           /\ \A c : Pending(c)' <=> Pending(c)
           /\ \A i \in lo + 1 .. hi : i # mid =>
                 /\ \A d : Edge(L[i], d)' <=> Edge(L[i], d)
                 /\ End(L[i])' <=> End(L[i])
           /\ \A d : Edge(HEAD, d)' <=> Edge(HEAD, d)
           /\ End(HEAD)' <=> End(HEAD)
           /\ ListRep(L, lo, hi)'
<1> USE QueueAssumption
<1>1. lo < mid /\ mid <= hi /\ ctail = L[mid] /\ cur = L[lo + 1] /\ End(L[mid])
  BY DEF Rep, ConsumerRep, LinkRep
<1>2. /\ \A i \in lo + 1 .. hi : L[i] \in Elements /\ (i # mid => L[i] # L[mid])
      /\ L[mid] \in Elements /\ L[mid] \in Chains /\ HEAD # L[mid] /\ ~Pending(L[mid])
  BY <1>1 DEF Rep, ListRep, End, Chains
<1>3. next'[L[mid]] = v /\ \A c \in Chains : c # L[mid] => next'[c] = next[c]
  BY <1>1, <1>2 DEF Base, TypeOK
<1>4. /\ \A c : Pending(c)' <=> Pending(c)
      /\ \A i \in lo + 1 .. hi : i # mid =>
            /\ \A d : Edge(L[i], d)' <=> Edge(L[i], d)
            /\ End(L[i])' <=> End(L[i])
      /\ \A d : Edge(HEAD, d)' <=> Edge(HEAD, d)
      /\ End(HEAD)' <=> End(HEAD)
  <2>1. \A i \in lo + 1 .. hi : L[i] \in Elements
    BY <1>2
  <2>2. /\ \A c : Pending(c)' <=> Pending(c)
        /\ \A i \in lo + 1 .. hi : L[i] # L[mid] =>
              /\ \A d : Edge(L[i], d)' <=> Edge(L[i], d)
              /\ End(L[i])' <=> End(L[i])
        /\ \A d : Edge(HEAD, d)' <=> Edge(HEAD, d)
        /\ End(HEAD)' <=> End(HEAD)
    BY <1>2, <1>3, <2>1, ListFrame
  <2> QED BY <1>2, <2>2
<1>5. ListRep(L, lo, hi)'
  <2>1. ASSUME NEW e \in Elements PROVE next'[e] # NOTQUEUED <=> next[e] # NOTQUEUED
    <3>1. next[L[mid]] = NULL
      BY <1>1 DEF End
    <3> QED BY <1>3, <3>1 DEF Chains
  <2> QED BY <1>2, <2>1 DEF Rep, ListRep
<1> QED BY <1>1, <1>2, <1>3, <1>4, <1>5

\* A restore links its last element to the queue it found, if it is linked.
LEMMA RestoreStartInv ==
    ASSUME Base, RestoreStart,
           NEW L \in Numbering, NEW lo \in Nat, NEW mid \in Nat, NEW hi \in Nat,
           Rep(L, lo, mid, hi)
    PROVE  Base' /\ Rep(L, lo, mid, hi)'
<1> USE QueueAssumption
<1>1. /\ UNCHANGED pvars /\ tail' = tail /\ chead' = chead /\ ctail' = ctail /\ cur' = cur /\ tmp' = tmp
      /\ cpc = "batch" /\ next' = [next EXCEPT ![ctail] = next[HEAD]]
      /\ IF next[HEAD] = NULL THEN cpc' = "restorecas" ELSE cpc' = "restorehead"
  BY DEF RestoreStart
<1>2. mid <= hi /\ IF mid < hi THEN Edge(HEAD, L[mid + 1]) ELSE End(HEAD)
  BY <1>1 DEF Rep, HeadRep
<1>3. next[HEAD] = NULL \/ (mid < hi /\ next[HEAD] = L[mid + 1] /\ ~Pending(HEAD))
  BY <1>2 DEF Edge, End
<1>4. next[HEAD] = NULL \/ (mid < hi /\ next[HEAD] \in Elements)
  BY <1>3 DEF Rep, ListRep
<1>5. /\ lo < mid /\ mid <= hi /\ ctail = L[mid] /\ cur = L[lo + 1]
      /\ L[mid] \in Elements /\ ~Pending(L[mid]) /\ next'[L[mid]] = next[HEAD]
      /\ \A c \in Chains : c # L[mid] => next'[c] = next[c]
      /\ \A c : Pending(c)' <=> Pending(c)
      /\ \A i \in lo + 1 .. hi : i # mid =>
            /\ \A d : Edge(L[i], d)' <=> Edge(L[i], d)
            /\ End(L[i])' <=> End(L[i])
      /\ \A d : Edge(HEAD, d)' <=> Edge(HEAD, d)
      /\ End(HEAD)' <=> End(HEAD)
      /\ ListRep(L, lo, hi)'
  <2>1. next[HEAD] # NOTQUEUED
    BY <1>4
  <2> QED BY <1>1, <2>1, LastFrame DEF BatchSteps
<1>6. TypeOK'
  BY <1>1, <1>4 DEF RestoreStart, Base, TypeOK, pvars
<1>7. Base'
  BY <1>1, <1>5, <1>6, ConsumerBase
<1>8. CASE next[HEAD] = NULL
  <2>1. End(L[mid])'
    BY <1>5, <1>8 DEF End
  <2>2. LinkRep(L, lo, mid, hi)'
    <3>1. \A i \in lo + 1 .. hi - 1 : i # mid => Edge(L[i], L[i + 1])'
      BY <1>1, <1>5 DEF Rep, LinkRep
    <3>2. End(L[hi])'
      BY <1>1, <1>5, <2>1 DEF Rep, LinkRep
    <3>3. IF hi = mid THEN tail' = HEAD ELSE tail' = L[hi]
      BY <1>1 DEF Rep, LinkRep
    <3> QED BY <1>1, <1>8, <2>1, <3>1, <3>2, <3>3 DEF LinkRep
  <2>3. HeadRep(L, mid, hi)'
    BY <1>1, <1>2, <1>5, <1>8 DEF HeadRep
  <2>4. ConsumerRep(L, lo, mid, hi)'
    BY <1>1, <1>5, <1>8 DEF ConsumerRep, BatchSteps
  <2> QED BY <1>5, <1>7, <2>2, <2>3, <2>4 DEF Rep
<1>9. CASE next[HEAD] # NULL
  <2>1. Edge(L[mid], L[mid + 1])'
    BY <1>3, <1>5, <1>9 DEF Edge
  <2>2. LinkRep(L, lo, mid, hi)'
    <3>1. \A i \in lo + 1 .. hi - 1 : i # mid => Edge(L[i], L[i + 1])'
      BY <1>1, <1>5 DEF Rep, LinkRep
    <3>2. End(L[hi])'
      BY <1>1, <1>3, <1>5, <1>9 DEF Rep, LinkRep
    <3>3. tail' = L[hi]
      BY <1>1, <1>3, <1>9 DEF Rep, LinkRep
    <3> QED BY <1>1, <1>9, <2>1, <3>1, <3>2, <3>3 DEF LinkRep
  <2>3. HeadRep(L, mid, hi)'
    BY <1>1, <1>3, <1>5, <1>9 DEF HeadRep
  <2>4. ConsumerRep(L, lo, mid, hi)'
    BY <1>1, <1>5, <1>9 DEF ConsumerRep, BatchSteps
  <2> QED BY <1>5, <1>7, <2>2, <2>3, <2>4 DEF Rep
<1> QED BY <1>8, <1>9

\* The compare-exchange closes the list over an empty queue or meets an enqueuer.
LEMMA RestoreCasInv ==
    ASSUME Base, RestoreCas,
           NEW L \in Numbering, NEW lo \in Nat, NEW mid \in Nat, NEW hi \in Nat,
           Rep(L, lo, mid, hi)
    PROVE  Base' /\ Rep(L, lo, mid, hi)'
<1> USE QueueAssumption
<1>1. /\ UNCHANGED pvars /\ next' = next /\ ctail' = ctail /\ cur' = cur
      /\ cpc = "restorecas"
      /\ IF tail = HEAD THEN tail' = ctail /\ cpc' = "restorehead" ELSE tail' = tail /\ cpc' = "restorewait"
  BY DEF RestoreCas
<1>2. /\ lo < mid /\ mid <= hi /\ cur = L[lo + 1] /\ ctail = L[mid]
      /\ IF hi = mid THEN tail = HEAD ELSE tail = L[hi]
      /\ IF mid < hi THEN Edge(HEAD, L[mid + 1]) ELSE End(HEAD)
  BY <1>1 DEF Rep, LinkRep, HeadRep, ConsumerRep, BatchSteps
<1>3. L[mid] \in Elements /\ L[hi] \in Elements
  BY <1>2 DEF Rep, ListRep
<1>4. Base'
  BY <1>1, <1>2, <1>3 DEF RestoreCas, Base, TypeOK, LateLinkSafe, LinkTyped, pvars, Chains
<1>5. ListRep(L, lo, hi)'
  BY <1>1 DEF Rep, ListRep
<1>6. LinkRep(L, lo, mid, hi)'
  BY <1>1, <1>2, <1>3, ConsumerFrame DEF Rep, LinkRep
<1>7. HeadRep(L, mid, hi)'
  BY <1>1, <1>2, <1>3, ConsumerFrame DEF HeadRep, End
<1>8. ConsumerRep(L, lo, mid, hi)'
  BY <1>1, <1>2, <1>3 DEF ConsumerRep, BatchSteps
<1> QED BY <1>2, <1>4, <1>5, <1>6, <1>7, <1>8 DEF Rep

\* What the restore waited for goes behind the batch.
LEMMA RestoreWaitInv ==
    ASSUME Base, RestoreWait,
           NEW L \in Numbering, NEW lo \in Nat, NEW mid \in Nat, NEW hi \in Nat,
           Rep(L, lo, mid, hi)
    PROVE  Base' /\ Rep(L, lo, mid, hi)'
<1> USE QueueAssumption
<1>1. /\ UNCHANGED pvars /\ tail' = tail /\ chead' = chead /\ ctail' = ctail /\ cur' = cur /\ tmp' = tmp
      /\ cpc = "restorewait" /\ next' = [next EXCEPT ![ctail] = next[HEAD]]
      /\ next[HEAD] # NULL /\ cpc' = "restorehead"
  BY DEF RestoreWait
<1>2. mid < hi /\ Edge(HEAD, L[mid + 1])
  BY <1>1 DEF Rep, HeadRep, ConsumerRep
<1>3. next[HEAD] = L[mid + 1] /\ ~Pending(HEAD)
  BY <1>1, <1>2 DEF Edge
<1>4. next[HEAD] \in Elements
  BY <1>2, <1>3 DEF Rep, ListRep
<1>5. /\ lo < mid /\ mid <= hi /\ ctail = L[mid] /\ cur = L[lo + 1]
      /\ L[mid] \in Elements /\ ~Pending(L[mid]) /\ next'[L[mid]] = next[HEAD]
      /\ \A c \in Chains : c # L[mid] => next'[c] = next[c]
      /\ \A c : Pending(c)' <=> Pending(c)
      /\ \A i \in lo + 1 .. hi : i # mid =>
            /\ \A d : Edge(L[i], d)' <=> Edge(L[i], d)
            /\ End(L[i])' <=> End(L[i])
      /\ \A d : Edge(HEAD, d)' <=> Edge(HEAD, d)
      /\ End(HEAD)' <=> End(HEAD)
      /\ ListRep(L, lo, hi)'
  <2>1. next[HEAD] # NOTQUEUED /\ cpc \in BatchSteps /\ cpc # "restorehead"
    BY <1>1, <1>4 DEF BatchSteps
  <2> QED BY <1>1, <2>1, LastFrame
<1>6. TypeOK'
  BY <1>1, <1>4 DEF RestoreWait, Base, TypeOK, pvars
<1>7. Base'
  BY <1>1, <1>5, <1>6, ConsumerBase
<1>8. Edge(L[mid], L[mid + 1])'
  BY <1>3, <1>5 DEF Edge
<1>9. LinkRep(L, lo, mid, hi)'
  <2>1. \A i \in lo + 1 .. hi - 1 : i # mid => Edge(L[i], L[i + 1])'
    BY <1>1, <1>5 DEF Rep, LinkRep
  <2>2. End(L[hi])'
    BY <1>1, <1>2, <1>5 DEF Rep, LinkRep
  <2>3. tail' = L[hi]
    BY <1>1, <1>2 DEF Rep, LinkRep
  <2> QED BY <1>1, <1>8, <2>1, <2>2, <2>3 DEF LinkRep
<1>10. HeadRep(L, mid, hi)'
  BY <1>1, <1>3, <1>5 DEF HeadRep
<1>11. ConsumerRep(L, lo, mid, hi)'
  BY <1>1, <1>5 DEF ConsumerRep, BatchSteps
<1> QED BY <1>2, <1>5, <1>7, <1>9, <1>10, <1>11 DEF Rep

\* Storing to the head gives the whole list back to the queue.
LEMMA RestoreHeadInv ==
    ASSUME Base, RestoreHead,
           NEW L \in Numbering, NEW lo \in Nat, NEW mid \in Nat, NEW hi \in Nat,
           Rep(L, lo, mid, hi)
    PROVE  Base' /\ Rep(L, lo, lo, hi)'
<1> USE QueueAssumption
<1>1. /\ UNCHANGED pvars /\ tail' = tail /\ cpc = "restorehead" /\ cpc' = "idle"
      /\ next'[HEAD] = cur /\ \A c \in Chains : c # HEAD => next'[c] = next[c]
  BY DEF RestoreHead, Base, TypeOK, Chains
<1>2. lo < mid /\ mid <= hi /\ cur = L[lo + 1] /\ ~Pending(HEAD) /\ tail = L[hi]
  BY <1>1 DEF Rep, LinkRep, HeadRep, ConsumerRep, BatchSteps
<1>3. /\ \A i \in lo + 1 .. hi : L[i] \in Elements /\ L[i] # HEAD
      /\ cur \in Elements
  BY <1>2 DEF Rep, ListRep
<1>4. TypeOK'
  BY <1>1, <1>3 DEF RestoreHead, Base, TypeOK, pvars
<1>5. Base'
  BY <1>1, <1>2, <1>4, ConsumerBase
<1>6. /\ \A c : Pending(c)' <=> Pending(c)
      /\ \A i \in lo + 1 .. hi : /\ \A d : Edge(L[i], d)' <=> Edge(L[i], d)
                                 /\ End(L[i])' <=> End(L[i])
  BY <1>1, <1>3, ListFrame
<1>7. ListRep(L, lo, hi)'
  BY <1>1, <1>3 DEF Rep, ListRep, Chains
<1>8. LinkRep(L, lo, lo, hi)'
  <2>1. \A i \in lo + 1 .. hi - 1 : Edge(L[i], L[i + 1])'
    BY <1>1, <1>6 DEF Rep, LinkRep
  <2>2. End(L[hi])'
    BY <1>2, <1>6 DEF Rep, LinkRep
  <2> QED BY <1>1, <1>2, <2>1, <2>2 DEF LinkRep
<1>9. Edge(HEAD, L[lo + 1])'
  BY <1>1, <1>2, <1>6 DEF Edge
<1>10. HeadRep(L, lo, hi)'
  BY <1>1, <1>2, <1>9 DEF HeadRep
<1>11. ConsumerRep(L, lo, lo, hi)'
  BY <1>1 DEF ConsumerRep, BatchSteps
<1> QED BY <1>2, <1>5, <1>7, <1>8, <1>10, <1>11 DEF Rep

-----------------------------------------------------------------------------
(* Induction over the naturals in terms of sets, and segments of a numbering. *)

\* The order of the naturals, as a relation.
Lt == {ss \in Nat \X Nat : ss[1] < ss[2]}

\* It is well founded.
LEMMA LtWF == IsWellFoundedOn(Lt, Nat)
  BY NatLessThanWellFounded DEF OpToRel, Lt

\* A set of naturals has a least element ...
LEMMA LeastElement ==
    ASSUME NEW S, S \subseteq Nat, S # {}
    PROVE  \E m \in S : \A k \in S : m <= k
<1>1. \E x \in S : \A y \in S : ~ (<<y, x>> \in Lt)
  BY LtWF, WFMin, Zenon
<1>2. \A x, y \in Nat : y < x => <<y, x>> \in Lt
  BY DEF Lt
<1>3. PICK x \in S : \A y \in S : ~ (<<y, x>> \in Lt)
  BY <1>1
<1>4. \A y \in S : ~ (y < x)
  BY <1>2, <1>3
<1> QED BY <1>4

\* ... so a set with 0 and every successor is all of them.
LEMMA SetInduction ==
    ASSUME NEW S, S \subseteq Nat, 0 \in S, \A n \in S : n + 1 \in S
    PROVE  S = Nat
<1> SUFFICES ASSUME S # Nat PROVE FALSE OBVIOUS
<1>1. Nat \ S # {} OBVIOUS
<1>2. PICK m \in Nat \ S : \A k \in Nat \ S : m <= k
  BY <1>1, LeastElement
<1> QED BY <1>2

\* The elements numbered a + 1 .. b, as a sequence.
Seg(L, a, b) == [k \in 1 .. b - a |-> L[a + k]]

\* Its elements are in S.
Within(L, a, b, S) == \A i \in a + 1 .. b : L[i] \in S

\* What characterises it.
IsSeg(s, L, a, b, S) ==
    /\ s \in Seq(S) /\ Len(s) = b - a
    /\ \A k \in 1 .. b - a : s[k] = L[a + k]

\* Its length and its elements.
LEMMA SegProperties ==
    ASSUME NEW S, NEW L, NEW a \in Nat, NEW b \in Nat, a <= b, Within(L, a, b, S)
    PROVE  IsSeg(Seg(L, a, b), L, a, b, S)
<1> DEFINE s == Seg(L, a, b)
<1>1. s \in [1 .. b - a -> S]
  BY DEF Seg, Within
<1>2. b - a \in Nat
  OBVIOUS
<1>3. s \in Seq(S) /\ Len(s) = b - a
  BY <1>1, <1>2
<1> QED BY <1>3 DEF Seg, IsSeg

\* Nothing else has them.
LEMMA SegUnique ==
    ASSUME NEW S, NEW L, NEW a \in Nat, NEW b \in Nat, a <= b, Within(L, a, b, S),
           NEW s, IsSeg(s, L, a, b, S)
    PROVE  s = Seg(L, a, b)
<1>1. IsSeg(Seg(L, a, b), L, a, b, S)
  BY SegProperties
<1> DEFINE t == Seg(L, a, b)
<1> HIDE DEF t
<1>2. /\ s \in Seq(S) /\ t \in Seq(S) /\ Len(s) = Len(t)
      /\ \A i \in 1 .. Len(s) : s[i] = t[i]
  BY <1>1 DEF IsSeg, t
<1>3. s = t
  BY <1>2, SeqEqual
<1> QED BY <1>3 DEF t

\* No elements.
LEMMA SegEmpty ==
    ASSUME NEW L, NEW a \in Nat
    PROVE  Seg(L, a, a) = <<>>
<1>1. IsSeg(Seg(L, a, a), L, a, a, Nat)
  BY SegProperties DEF Within
<1> QED BY <1>1 DEF IsSeg

\* One element more.
LEMMA SegAppend ==
    ASSUME NEW S, NEW L, NEW a \in Nat, NEW b \in Nat, a <= b, Within(L, a, b + 1, S)
    PROVE  Append(Seg(L, a, b), L[b + 1]) = Seg(L, a, b + 1)
<1>1. Within(L, a, b, S) /\ L[b + 1] \in S
  BY DEF Within
<1>2. PICK s : s = Seg(L, a, b) /\ IsSeg(s, L, a, b, S)
  BY <1>1, SegProperties
<1>3. /\ Append(s, L[b + 1]) \in Seq(S)
      /\ Len(Append(s, L[b + 1])) = Len(s) + 1
      /\ \A k \in 1 .. Len(s) : Append(s, L[b + 1])[k] = s[k]
      /\ Append(s, L[b + 1])[Len(s) + 1] = L[b + 1]
  <2>1. s \in Seq(S)
    BY <1>2 DEF IsSeg
  <2> QED BY <1>1, <2>1
<1>4. PICK c \in Nat : c = b + 1
  OBVIOUS
<1>5. IsSeg(Append(s, L[b + 1]), L, a, c, S)
  BY <1>2, <1>3, <1>4 DEF IsSeg
<1>6. Within(L, a, c, S) /\ a <= c
  BY <1>4
<1>7. Append(s, L[b + 1]) = Seg(L, a, c)
  BY <1>5, <1>6, SegUnique
<1> QED BY <1>2, <1>4, <1>7

\* Two segments in a row.
LEMMA SegConcat ==
    \A L, S : \A a, b, c \in Nat : a <= b /\ b <= c /\ Within(L, a, c, S) =>
        Seg(L, a, c) = Seg(L, a, b) \o Seg(L, b, c)
<1> TAKE L, S
<1> TAKE a, b, c \in Nat
<1> HAVE a <= b /\ b <= c /\ Within(L, a, c, S)
<1>1. a <= c /\ Within(L, a, b, S) /\ Within(L, b, c, S)
  BY DEF Within
<1>2. PICK s : s = Seg(L, a, b) /\ IsSeg(s, L, a, b, S)
  BY <1>1, SegProperties
<1>3. PICK t : t = Seg(L, b, c) /\ IsSeg(t, L, b, c, S)
  BY <1>1, SegProperties
<1>4. s \in Seq(S) /\ t \in Seq(S)
  BY <1>2, <1>3 DEF IsSeg
<1>5. /\ s \o t \in Seq(S)
      /\ Len(s \o t) = Len(s) + Len(t)
      /\ \A k \in 1 .. Len(s) + Len(t) : (s \o t)[k] = IF k <= Len(s) THEN s[k] ELSE t[k - Len(s)]
  BY <1>4, ConcatProperties, Zenon
<1>6. Len(s) = b - a /\ Len(t) = c - b
  BY <1>2, <1>3 DEF IsSeg
<1>7. ASSUME NEW k \in 1 .. c - a PROVE (s \o t)[k] = L[a + k]
  <2>1. CASE k <= b - a
    BY <1>2, <1>5, <1>6, <2>1 DEF IsSeg
  <2>2. CASE k > b - a
    <3>1. k - (b - a) \in 1 .. c - b /\ b + (k - (b - a)) = a + k
      BY <2>2
    <3>2. (s \o t)[k] = t[k - (b - a)]
      BY <1>5, <1>6, <2>2
    <3> QED BY <1>3, <3>1, <3>2 DEF IsSeg
  <2>3. k <= b - a \/ k > b - a
    OBVIOUS
  <2> QED BY <2>1, <2>2, <2>3
<1>8. IsSeg(s \o t, L, a, c, S)
  BY <1>5, <1>6, <1>7 DEF IsSeg
<1>9. s \o t = Seg(L, a, c)
  BY <1>1, <1>8, SegUnique
<1> QED BY <1>2, <1>3, <1>9

\* Without its first element.
LEMMA SegTail ==
    \A L, S : \A a, b \in Nat : a < b /\ Within(L, a, b, S) =>
        Tail(Seg(L, a, b)) = Seg(L, a + 1, b) /\ Seg(L, a, b) # <<>>
<1> TAKE L, S
<1> TAKE a, b \in Nat
<1> HAVE a < b /\ Within(L, a, b, S)
<1>1. PICK c \in Nat : c = a + 1
  OBVIOUS
<1>2. c <= b /\ a <= b /\ Within(L, c, b, S)
  BY <1>1 DEF Within
<1>3. PICK s : s = Seg(L, a, b) /\ IsSeg(s, L, a, b, S)
  BY <1>2, SegProperties
<1>4. s \in Seq(S) /\ s # <<>>
  BY <1>3, EmptySeq DEF IsSeg
<1>5. /\ Tail(s) \in Seq(S)
      /\ Len(Tail(s)) = Len(s) - 1
      /\ \A k \in 1 .. Len(s) - 1 : Tail(s)[k] = s[k + 1]
  BY <1>4, HeadTailProperties
<1>6. IsSeg(Tail(s), L, c, b, S)
  <2>1. Len(s) - 1 = b - c
    BY <1>1, <1>3 DEF IsSeg
  <2>2. ASSUME NEW k \in 1 .. b - c PROVE Tail(s)[k] = L[c + k]
    <3>1. k + 1 \in 1 .. b - a /\ a + (k + 1) = c + k
      BY <1>1
    <3> QED BY <1>3, <1>5, <2>1, <3>1 DEF IsSeg
  <2> QED BY <1>5, <2>1, <2>2 DEF IsSeg
<1>7. Tail(s) = Seg(L, c, b)
  BY <1>2, <1>6, SegUnique
<1> QED BY <1>1, <1>3, <1>4, <1>7

-----------------------------------------------------------------------------
(* The chain of pointers is the segment of the list. *)

\* Who follows c: the link, or the pending element of the only producer there.
LEMMA SuccessorIs == ASSUME Base, NEW c, NEW d, Edge(c, d) PROVE Successor(c) = d
<1>1. CASE next[c] = d /\ ~Pending(c)
  BY <1>1 DEF Successor, Pending
<1>2. CASE next[c] = NULL /\ \E p \in Producers : ppc[p] = "link" /\ pprev[p] = c /\ pfirst[p] = d
  <2>1. PICK p \in Producers : ppc[p] = "link" /\ pprev[p] = c /\ pfirst[p] = d
    BY <1>2
  <2>2. \A q \in Producers : ppc[q] = "link" /\ pprev[q] = c => q = p
    BY <2>1 DEF Base, LateLinkSafe
  <2>3. (CHOOSE q \in Producers : ppc[q] = "link" /\ pprev[q] = c) = p
    BY <2>1, <2>2
  <2> QED BY <2>1, <2>3 DEF Successor
<1> QED BY <1>1, <1>2 DEF Edge

\* A numbering without repetitions is no longer than there are elements.
LEMMA LengthBound ==
    ASSUME NEW L, NEW a \in Nat, NEW b \in Nat, a <= b, Within(L, a, b, Elements),
           \A i, j \in a + 1 .. b : L[i] = L[j] => i = j
    PROVE  Cardinality(Elements) \in Nat /\ b - a <= Cardinality(Elements)
<1>1. IsFiniteSet(Elements) /\ Cardinality(Elements) \in Nat
  BY QueueAssumption, FS_CardinalityType
<1>2. IsFiniteSet(a + 1 .. b) /\ Cardinality(a + 1 .. b) = b - a
  <2>1. PICK c \in Int : c = a + 1
    OBVIOUS
  <2>2. b \in Int
    OBVIOUS
  <2>3. IsFiniteSet(c .. b) /\ Cardinality(c .. b) = IF c > b THEN 0 ELSE b - c + 1
    BY <2>2, FS_Interval
  <2>4. (IF c > b THEN 0 ELSE b - c + 1) = b - a
    BY <2>1
  <2> QED BY <2>1, <2>3, <2>4
<1>3. PICK f : f = [i \in a + 1 .. b |-> L[i]]
  OBVIOUS
<1>4. f \in [a + 1 .. b -> Elements]
  BY <1>3 DEF Within
<1>5. ASSUME Cardinality(Elements) < Cardinality(a + 1 .. b) PROVE FALSE
  <2>1. \E x, y \in a + 1 .. b : x # y /\ f[x] = f[y]
    BY <1>1, <1>2, <1>4, <1>5, FS_PigeonHole
  <2> QED BY <1>3, <2>1
<1> QED BY <1>1, <1>2, <1>5

\* Walking the links from one element to another visits what lies between.
LEMMA ChainValue ==
    ASSUME Base, NEW L, NEW a \in Nat, NEW b \in Nat, a < b, Within(L, a, b, Elements),
           \A i, j \in a + 1 .. b : L[i] = L[j] => i = j,
           \A i \in a + 1 .. b - 1 : Edge(L[i], L[i + 1])
    PROVE  ChainFrom(L[a + 1], L[b]) = Seg(L, a, b)
<1> DEFINE N == Cardinality(Elements)
           Step(s) == IF Last(s) \in {L[b], NULL, NOTQUEUED} THEN s ELSE Append(s, Successor(Last(s)))
           Unfold(w) == [n \in 0 .. N |-> IF n = 0 THEN <<L[a + 1]>> ELSE Step(w[n - 1])]
           End2(n) == IF a + 1 + n <= b THEN a + 1 + n ELSE b
           W == [n \in 0 .. N |-> Seg(L, a, End2(n))]
<1>1. N \in Nat /\ b - a <= N
  BY LengthBound
<1>2. ASSUME NEW e \in Nat, a < e, e <= b
      PROVE  Step(Seg(L, a, e)) = Seg(L, a, IF e = b THEN b ELSE e + 1)
  <2>1. Within(L, a, e, Elements) /\ a <= e
    BY <1>2 DEF Within
  <2>2. IsSeg(Seg(L, a, e), L, a, e, Elements)
    BY <2>1, SegProperties
  <2>3. Last(Seg(L, a, e)) = L[e]
    <3>1. PICK s : s = Seg(L, a, e)
      OBVIOUS
    <3>2. Len(s) = e - a /\ s[e - a] = L[a + (e - a)] /\ a + (e - a) = e
      BY <1>2, <2>2, <3>1 DEF IsSeg
    <3> QED BY <3>1, <3>2 DEF Last
  <2>4. L[e] \in Elements
    BY <1>2 DEF Within
  <2>5. CASE e = b
    BY <2>3, <2>5
  <2>6. CASE e # b
    <3>1. L[e] \notin {L[b], NULL, NOTQUEUED}
      BY <1>2, <2>4, <2>6, QueueAssumption
    <3>2. Successor(L[e]) = L[e + 1]
      BY <1>2, <2>6, SuccessorIs
    <3>3. Within(L, a, e + 1, Elements)
      BY <1>2, <2>6 DEF Within
    <3>4. Append(Seg(L, a, e), L[e + 1]) = Seg(L, a, e + 1)
      BY <1>2, <2>1, <3>3, SegAppend
    <3> QED BY <2>3, <2>6, <3>1, <3>2, <3>4
  <2> QED BY <2>5, <2>6
<1>3. Seg(L, a, a + 1) = <<L[a + 1]>>
  BY DEF Seg
<1>4. \A n \in 0 .. N : End2(n) \in Nat /\ a < End2(n) /\ End2(n) <= b
  BY <1>1
<1>5. \A n \in 1 .. N : Step(Seg(L, a, End2(n - 1))) = Seg(L, a, End2(n))
  <2> TAKE n \in 1 .. N
  <2>1. n - 1 \in 0 .. N
    BY <1>1
  <2>2. PICK e \in Nat : e = End2(n - 1) /\ a < e /\ e <= b
    BY <1>4, <2>1
  <2>3. End2(n) = IF e = b THEN b ELSE e + 1
    BY <1>1, <2>2
  <2>4. Step(Seg(L, a, e)) = Seg(L, a, IF e = b THEN b ELSE e + 1)
    BY <1>2, <2>2
  <2> HIDE DEF Step, End2
  <2> QED BY <2>2, <2>3, <2>4
<1>6. End2(0) = a + 1 /\ End2(N) = b
  BY <1>1
<1> HIDE DEF Step, End2
<1>7. W = Unfold(W)
  <2>1. \A n \in 0 .. N : W[n] = Unfold(W)[n]
    <3> TAKE n \in 0 .. N
    <3>1. CASE n = 0
      BY <1>1, <1>3, <1>6, <3>1
    <3>2. CASE n # 0
      <4>1. n \in 1 .. N /\ n - 1 \in 0 .. N
        BY <1>1, <3>2
      <4>2. W[n - 1] = Seg(L, a, End2(n - 1)) /\ W[n] = Seg(L, a, End2(n))
        BY <4>1
      <4> QED BY <1>5, <3>2, <4>1, <4>2
    <3> QED BY <3>1, <3>2
  <2> QED BY <2>1
<1>8. ASSUME NEW w, w = Unfold(w) PROVE w = W
  <2> DEFINE S == {n \in Nat : n <= N => w[n] = W[n]}
  <2>1. \A n \in 0 .. N : w[n] = IF n = 0 THEN <<L[a + 1]>> ELSE Step(w[n - 1])
    BY <1>8
  <2>2. \A n \in 0 .. N : W[n] = IF n = 0 THEN <<L[a + 1]>> ELSE Step(W[n - 1])
    BY <1>7
  <2> HIDE DEF W
  <2>3. 0 \in S
    BY <1>1, <2>1, <2>2
  <2>4. \A n \in S : n + 1 \in S
    <3> TAKE n \in S
    <3>1. CASE n + 1 <= N
      <4>1. n + 1 \in 0 .. N /\ n + 1 # 0 /\ (n + 1) - 1 = n /\ w[n] = W[n]
        BY <1>1, <3>1
      <4>2. w[n + 1] = Step(w[n]) /\ W[n + 1] = Step(W[n])
        BY <2>1, <2>2, <4>1
      <4> QED BY <4>1, <4>2
    <3>2. CASE ~(n + 1 <= N)
      BY <3>2
    <3> QED BY <3>1, <3>2
  <2>5. S = Nat
    BY <2>3, <2>4, SetInduction
  <2>6. \A n \in 0 .. N : w[n] = W[n]
    BY <1>1, <2>5
  <2>7. w = [n \in 0 .. N |-> w[n]]
    BY <1>8
  <2>8. W = [n \in 0 .. N |-> W[n]]
    BY DEF W
  <2> QED BY <2>6, <2>7, <2>8
<1>9. ChainFrom(L[a + 1], L[b]) = (CHOOSE w : w = Unfold(w))[N]
  BY DEF ChainFrom, Step
<1>10. (CHOOSE w : w = Unfold(w)) = W
  <2> HIDE DEF W, Unfold
  <2> QED BY <1>7, <1>8
<1>11. W[N] = Seg(L, a, End2(N))
  BY <1>1
<1> QED BY <1>6, <1>9, <1>10, <1>11

\* The abstract queue and batch are the two segments of the list.
NowIsSegments ==
    \A L \in Numbering, lo, mid, hi \in Nat : Base /\ Rep(L, lo, mid, hi) =>
        QueueNow = Seg(L, mid, hi) /\ BatchNow = Seg(L, lo, mid)

\* It holds of every state, by ChainValue.
LEMMA NowValue == NowIsSegments
<1> SUFFICES ASSUME NEW L \in Numbering, NEW lo \in Nat, NEW mid \in Nat, NEW hi \in Nat,
                    Base, Rep(L, lo, mid, hi)
             PROVE  QueueNow = Seg(L, mid, hi) /\ BatchNow = Seg(L, lo, mid)
  BY DEF NowIsSegments
<1> USE QueueAssumption
<1>1. lo <= mid /\ mid <= hi /\ Within(L, mid, hi, Elements) /\ Within(L, lo, mid, Elements)
  BY DEF Rep, ListRep, Within
<1>2. /\ \A i, j \in mid + 1 .. hi : L[i] = L[j] => i = j
      /\ \A i, j \in lo + 1 .. mid : L[i] = L[j] => i = j
  BY <1>1 DEF Rep, ListRep
<1>3. /\ \A i \in mid + 1 .. hi - 1 : Edge(L[i], L[i + 1])
      /\ \A i \in lo + 1 .. mid - 1 : Edge(L[i], L[i + 1])
  BY <1>1 DEF Rep, LinkRep
<1>4. mid < hi => ChainFrom(L[mid + 1], L[hi]) = Seg(L, mid, hi)
  BY <1>1, <1>2, <1>3, ChainValue
<1>5. lo < mid => ChainFrom(L[lo + 1], L[mid]) = Seg(L, lo, mid)
  BY <1>1, <1>2, <1>3, ChainValue
<1>6. Seg(L, mid, mid) = <<>>
  BY SegEmpty
<1>7. BatchNow = Seg(L, lo, mid)
  <2>1. CASE cpc \in BatchSteps
    BY <1>5, <2>1 DEF Rep, ConsumerRep, BatchNow, BatchSteps
  <2>2. CASE cpc \notin BatchSteps
    BY <1>6, <2>2 DEF Rep, ConsumerRep, BatchNow, BatchSteps
  <2> QED BY <2>1, <2>2
<1>8. QueueNow = Seg(L, mid, hi)
  <2>1. mid < hi => L[mid + 1] \in Elements /\ L[hi] \in Elements /\ L[hi] # HEAD
    BY <1>1 DEF Within
  <2>2. CASE cpc = "restorehead"
    <3>1. lo < mid /\ ctail = L[mid] /\ tail = L[hi] /\ tail # HEAD /\ (tail = ctail <=> mid = hi)
      BY <1>1, <2>2 DEF Rep, ListRep, LinkRep, ConsumerRep, BatchSteps
    <3>2. CASE mid = hi
      BY <1>6, <2>2, <3>1, <3>2 DEF QueueNow
    <3>3. CASE mid < hi
      <4>1. Edge(L[mid], L[mid + 1])
        BY <1>1, <2>2, <3>1, <3>3 DEF Rep, LinkRep
      <4>2. Successor(ctail) = L[mid + 1]
        BY <3>1, <4>1, SuccessorIs
      <4> QED BY <1>4, <2>2, <3>1, <3>3, <4>2 DEF QueueNow
    <3> QED BY <1>1, <3>2, <3>3
  <2>3. CASE cpc # "restorehead"
    <3>1. IF hi = mid THEN tail = HEAD ELSE tail = L[hi]
      BY <2>3 DEF Rep, LinkRep
    <3>2. CASE mid = hi
      BY <1>6, <3>1, <3>2 DEF QueueNow
    <3>3. CASE mid < hi
      <4>1. CASE cpc = "xchgtail"
        BY <1>4, <2>1, <3>1, <3>3, <4>1 DEF Rep, HeadRep, QueueNow
      <4>2. CASE cpc # "xchgtail"
        <5>1. Successor(HEAD) = L[mid + 1]
          BY <2>3, <3>3, <4>2, SuccessorIs DEF Rep, HeadRep
        <5> QED BY <1>4, <2>1, <2>3, <3>1, <3>3, <4>2, <5>1 DEF QueueNow
      <4> QED BY <4>1, <4>2
    <3> QED BY <1>1, <3>2, <3>3
  <2> QED BY <2>2, <2>3
<1> QED BY <1>7, <1>8

\* So also of every next state.
LEMMA NowValuePrime == NowIsSegments'
  BY NowValue, PTL

\* What the next state's queue and batch are.
LEMMA NowValueNext ==
    ASSUME NEW L \in Numbering, NEW lo \in Nat, NEW mid \in Nat, NEW hi \in Nat,
           Base', Rep(L, lo, mid, hi)'
    PROVE  QueueNow' = Seg(L, mid, hi) /\ BatchNow' = Seg(L, lo, mid)
  BY NowValuePrime DEF NowIsSegments

-----------------------------------------------------------------------------
(* Invariance and refinement. *)

Refines == [Fifo!Next]_<<QueueNow, BatchNow>>

\* A step that keeps the list is a stutter of the abstract queue.
LEMMA StutterRefines ==
    ASSUME NEW L \in Numbering, NEW lo \in Nat, NEW mid \in Nat, NEW hi \in Nat,
           Base, Rep(L, lo, mid, hi), Base', Rep(L, lo, mid, hi)'
    PROVE  QueueInv' /\ Refines
<1>1. QueueInv'
  BY DEF QueueInv
<1>2. QueueNow' = QueueNow /\ BatchNow' = BatchNow
  <2>1. QueueNow = Seg(L, mid, hi) /\ BatchNow = Seg(L, lo, mid)
    BY NowValue DEF NowIsSegments
  <2>2. QueueNow' = Seg(L, mid, hi) /\ BatchNow' = Seg(L, lo, mid)
    BY NowValueNext
  <2> QED BY <2>1, <2>2
<1> QED BY <1>1, <1>2 DEF Refines

\* Exchanging the tail appends the list in one step.
LEMMA TailRefines ==
    ASSUME NEW L \in Numbering, NEW lo \in Nat, NEW mid \in Nat, NEW hi \in Nat,
           Base, Rep(L, lo, mid, hi),
           NEW p \in Producers, NEW list \in Lists, AppendUpdateTail(p, list)
    PROVE  QueueInv' /\ Refines
<1>1. PICK L2 : L2 = [i \in Nat |-> IF i \in hi + 1 .. hi + Len(list) THEN list[i - hi] ELSE L[i]]
  OBVIOUS
<1>2. /\ Len(list) \in Nat \ {0} /\ hi + Len(list) \in Nat
      /\ L2 \in Numbering
      /\ Base' /\ Rep(L2, lo, mid, hi + Len(list))'
  BY <1>1, TailInv
<1>3. PICK h \in Nat : h = hi + Len(list) /\ Rep(L2, lo, mid, h)'
  BY <1>2
<1>4. QueueInv'
  BY <1>2, <1>3 DEF QueueInv
<1>5. QueueNow = Seg(L, mid, hi) /\ BatchNow = Seg(L, lo, mid)
  BY NowValue DEF NowIsSegments
<1>6. QueueNow' = Seg(L2, mid, h) /\ BatchNow' = Seg(L2, lo, mid)
  BY <1>2, <1>3, NowValueNext
<1>7. lo <= mid /\ mid <= hi /\ hi <= h /\ Within(L2, lo, h, Elements)
  <2>1. (\A i \in lo + 1 .. h : L2[i] \in Elements)
    BY <1>3 DEF Rep, ListRep
  <2> QED BY <1>2, <1>3, <2>1 DEF Rep, Within
<1>8. Seg(L2, lo, mid) = Seg(L, lo, mid) /\ Seg(L2, mid, hi) = Seg(L, mid, hi)
  BY <1>1, <1>7 DEF Seg
<1>9. list \in Seq(Elements) /\ list \in [1 .. Len(list) -> Elements]
  <2>1. PICK k \in 1 .. MaxList : list \in [1 .. k -> Elements]
    BY DEF Lists
  <2> QED BY <2>1
<1>10. Seg(L2, hi, h) = list
  <2>1. \A k \in 1 .. Len(list) : L2[hi + k] = list[k]
    BY <1>1, <1>2
  <2>2. h - hi = Len(list)
    BY <1>2, <1>3
  <2>3. list = [k \in 1 .. Len(list) |-> list[k]]
    BY <1>9
  <2> QED BY <2>1, <2>2, <2>3 DEF Seg
<1>11. Within(L2, mid, h, Elements)
  BY <1>7 DEF Within
<1>12. Seg(L2, mid, h) = Seg(L2, mid, hi) \o Seg(L2, hi, h)
  <2>1. mid <= hi
    BY <1>7
  <2>2. hi <= h
    BY <1>7
  <2> QED BY <1>11, <2>1, <2>2, SegConcat, Zenon
<1>13. QueueNow' = QueueNow \o list /\ BatchNow' = BatchNow
  BY <1>5, <1>6, <1>8, <1>10, <1>12
\* The elements of the list were free, those of queue and batch are not.
<1>14. ToSet(list) \cap (ToSet(QueueNow) \cup ToSet(BatchNow)) = {}
  <2>1. \A i \in lo + 1 .. hi : L[i] \in Elements /\ next[L[i]] # NOTQUEUED
    BY DEF Rep, ListRep
  <2>2. \A e \in ToSet(list) : next[e] = NOTQUEUED
    BY <1>9 DEF AppendUpdateTail, ToSet
  <2>3. \A k \in 1 .. hi - mid : next[L[mid + k]] # NOTQUEUED
    BY <1>7, <2>1
  <2>4. \A k \in 1 .. mid - lo : next[L[lo + k]] # NOTQUEUED
    BY <1>7, <2>1
  <2>5. \A e \in ToSet(QueueNow) : next[e] # NOTQUEUED
    BY <1>5, <2>3 DEF ToSet, Seg
  <2>6. \A e \in ToSet(BatchNow) : next[e] # NOTQUEUED
    BY <1>5, <2>4 DEF ToSet, Seg
  <2> QED BY <2>2, <2>5, <2>6
<1>15. list \in Fifo!Lists
  BY DEF Lists, Fifo!Lists, IsInjective, Fifo!IsInjective
<1>16. Fifo!AppendList(list)
  BY <1>13, <1>14 DEF Fifo!AppendList, ToSet, Fifo!ToSet
<1> QED BY <1>4, <1>15, <1>16 DEF Refines, Fifo!Next

\* The consumer takes everything queued.
LEMMA XchgRefines ==
    ASSUME NEW L \in Numbering, NEW lo \in Nat, NEW mid \in Nat, NEW hi \in Nat,
           Base, Rep(L, lo, mid, hi), DequeueXchgTail
    PROVE  QueueInv' /\ Refines
<1>1. Base' /\ Rep(L, lo, hi, hi)'
  BY XchgTailInv
<1>2. QueueInv'
  BY <1>1 DEF QueueInv
<1>3. QueueNow = Seg(L, mid, hi) /\ BatchNow = Seg(L, lo, mid)
  BY NowValue DEF NowIsSegments
<1>4. QueueNow' = Seg(L, hi, hi) /\ BatchNow' = Seg(L, lo, hi)
  BY <1>1, NowValueNext
<1>5. lo = mid /\ mid < hi /\ Within(L, mid, hi, Elements)
  BY DEF DequeueXchgTail, Rep, ListRep, ConsumerRep, BatchSteps, Within
<1>6. Seg(L, mid, hi) # <<>> /\ Seg(L, lo, lo) = <<>> /\ Seg(L, hi, hi) = <<>>
  BY <1>5, SegTail, SegEmpty
<1>7. Fifo!TakeAll
  BY <1>3, <1>4, <1>5, <1>6 DEF Fifo!TakeAll
<1> QED BY <1>2, <1>7 DEF Refines, Fifo!Next

\* The consumer gives the first element of its batch away.
LEMMA InvokeRefines ==
    ASSUME NEW L \in Numbering, NEW lo \in Nat, NEW mid \in Nat, NEW hi \in Nat,
           Base, Rep(L, lo, mid, hi), Invoke
    PROVE  QueueInv' /\ Refines
<1>1. PICK l \in Nat : l = lo + 1 /\ Base' /\ Rep(L, l, mid, hi)'
  BY InvokeInv
<1>2. QueueInv'
  BY <1>1 DEF QueueInv
<1>3. QueueNow = Seg(L, mid, hi) /\ BatchNow = Seg(L, lo, mid)
  BY NowValue DEF NowIsSegments
<1>4. QueueNow' = Seg(L, mid, hi) /\ BatchNow' = Seg(L, l, mid)
  BY <1>1, NowValueNext
<1>5. lo < mid /\ Within(L, lo, mid, Elements)
  BY DEF Invoke, Rep, ListRep, ConsumerRep, BatchSteps, Within
<1>6. Tail(Seg(L, lo, mid)) = Seg(L, l, mid) /\ Seg(L, lo, mid) # <<>>
  <2>1. lo < mid
    BY <1>5
  <2>2. Within(L, lo, mid, Elements)
    BY <1>5
  <2>3. Tail(Seg(L, lo, mid)) = Seg(L, lo + 1, mid) /\ Seg(L, lo, mid) # <<>>
    BY <2>1, <2>2, SegTail, Zenon
  <2> QED BY <1>1, <2>3
<1>7. Fifo!ConsumeOne
  BY <1>3, <1>4, <1>6 DEF Fifo!ConsumeOne
<1> QED BY <1>2, <1>7 DEF Refines, Fifo!Next

\* A restore puts the batch back in front of the queue.
LEMMA RestoreRefines ==
    ASSUME NEW L \in Numbering, NEW lo \in Nat, NEW mid \in Nat, NEW hi \in Nat,
           Base, Rep(L, lo, mid, hi), RestoreHead
    PROVE  QueueInv' /\ Refines
<1>1. Base' /\ Rep(L, lo, lo, hi)'
  BY RestoreHeadInv
<1>2. QueueInv'
  BY <1>1 DEF QueueInv
<1>3. QueueNow = Seg(L, mid, hi) /\ BatchNow = Seg(L, lo, mid)
  BY NowValue DEF NowIsSegments
<1>4. QueueNow' = Seg(L, lo, hi) /\ BatchNow' = Seg(L, lo, lo)
  BY <1>1, NowValueNext
<1>5. lo < mid /\ mid <= hi /\ Within(L, lo, hi, Elements) /\ Within(L, lo, mid, Elements)
  BY DEF RestoreHead, Rep, ListRep, ConsumerRep, BatchSteps, Within
<1>6. Seg(L, lo, lo) = <<>>
  BY SegEmpty
<1>7. Seg(L, lo, mid) # <<>>
  <2>1. lo < mid
    BY <1>5
  <2>2. Within(L, lo, mid, Elements)
    BY <1>5
  <2> QED BY <2>1, <2>2, SegTail, Zenon
<1>8. Seg(L, lo, hi) = Seg(L, lo, mid) \o Seg(L, mid, hi)
  <2>1. lo <= mid
    BY <1>5
  <2>2. mid <= hi
    BY <1>5
  <2>3. Within(L, lo, hi, Elements)
    BY <1>5
  <2> QED BY <2>1, <2>2, <2>3, SegConcat, Zenon
<1>9. Fifo!Restore
  BY <1>3, <1>4, <1>6, <1>7, <1>8 DEF Fifo!Restore
<1> QED BY <1>2, <1>9 DEF Refines, Fifo!Next

\* Every step keeps the invariant and is a step of the abstract queue.
LEMMA StepInv == QueueInv /\ [Next]_vars => QueueInv' /\ Refines
<1> SUFFICES ASSUME QueueInv, [Next]_vars PROVE QueueInv' /\ Refines
  OBVIOUS
<1>1. Base
  BY DEF QueueInv
<1>2. PICK L \in Numbering, lo \in Nat, mid \in Nat, hi \in Nat : Rep(L, lo, mid, hi)
  BY DEF QueueInv
<1> USE <1>1, <1>2
<1>3. ASSUME NEW p \in Producers, ProducerStep(p) PROVE QueueInv' /\ Refines
  <2>1. ASSUME NEW list \in Lists, AppendUpdateTail(p, list) PROVE QueueInv' /\ Refines
    BY <2>1, TailRefines
  <2>2. CASE AppendUpdatePrev(p)
    BY <2>2, PrevInv, StutterRefines
  <2> QED BY <1>3, <2>1, <2>2 DEF ProducerStep
<1>4. CASE DequeueLoadTail
  BY <1>4, LoadTailInv, StutterRefines
<1>5. CASE DequeueLoadHead
  BY <1>5, LoadHeadInv, StutterRefines
<1>6. CASE DequeueClearHead
  BY <1>6, ClearHeadInv, StutterRefines
<1>7. CASE DequeueXchgTail
  BY <1>7, XchgRefines
<1>8. CASE BatchNext
  BY <1>8, BatchNextInv, StutterRefines
<1>9. CASE Invoke
  BY <1>9, InvokeRefines
<1>10. CASE RestoreStart
  BY <1>10, RestoreStartInv, StutterRefines
<1>11. CASE RestoreCas
  BY <1>11, RestoreCasInv, StutterRefines
<1>12. CASE RestoreWait
  BY <1>12, RestoreWaitInv, StutterRefines
<1>13. CASE RestoreHead
  BY <1>13, RestoreRefines
<1>14. CASE UNCHANGED vars
  <2>1. Base' /\ Rep(L, lo, mid, hi)'
    BY <1>14 DEF vars, Base, TypeOK, LateLinkSafe, LinkTyped, Rep, ListRep, LinkRep, HeadRep,
                 ConsumerRep, Edge, End, Pending
  <2> QED BY <2>1, StutterRefines
<1> QED BY <1>3, <1>4, <1>5, <1>6, <1>7, <1>8, <1>9, <1>10, <1>11, <1>12, <1>13, <1>14
        DEF Next, DequeueStep, BatchStep, RestoreStep

\* In every reachable state the pointers stand for some list.
THEOREM InvariantHolds == Spec => []QueueInv
<1>1. QueueInv /\ [Next]_vars => QueueInv'
  BY StepInv
<1> QED BY InitInv, <1>1, PTL DEF Spec

\* The pointers of mpsc_queue.c stay pointers, for any number of producers.
THEOREM TypeCorrect == Spec => []TypeOK
<1>1. QueueInv => TypeOK
  BY DEF QueueInv, Base
<1> QED BY InvariantHolds, <1>1, PTL

\* A producer between the two halves of mpsc_queue_append never links through
\* an element that was given away, nor over another producer's link.
THEOREM LateLinksAreSafe == Spec => []LateLinkSafe
<1>1. QueueInv => LateLinkSafe
  BY DEF QueueInv, Base
<1> QED BY InvariantHolds, <1>1, PTL

\* _mpsc_queue_wait_for_enqueuer only ever waits for an enqueuer that exists.
THEOREM WaitsHaveEnqueuers == Spec => []WaitHasEnqueuer
<1>1. QueueInv => WaitHasEnqueuer
  <2> SUFFICES ASSUME QueueInv PROVE WaitHasEnqueuer
    OBVIOUS
  <2>1. PICK L \in Numbering, lo \in Nat, mid \in Nat, hi \in Nat : Rep(L, lo, mid, hi)
    BY DEF QueueInv
  <2>2. ASSUME cpc \in {"loadhead", "restorewait"}, next[HEAD] = NULL PROVE Pending(HEAD)
    <3>1. mid < hi /\ Edge(HEAD, L[mid + 1]) /\ L[mid + 1] \in Elements
      BY <2>1, <2>2 DEF Rep, ListRep, HeadRep, ConsumerRep
    <3> QED BY <2>2, <3>1, QueueAssumption DEF Edge, Pending
  <2>3. ASSUME cpc = "batch", cur # ctail, next[cur] = NULL PROVE Pending(cur)
    <3>1. /\ lo + 1 < mid /\ mid <= hi /\ cur = L[lo + 1]
          /\ Edge(L[lo + 1], L[lo + 2]) /\ L[lo + 2] \in Elements
      <4>1. lo < mid /\ mid <= hi /\ cur = L[lo + 1] /\ ctail = L[mid] /\ lo + 1 # mid
        BY <2>1, <2>3 DEF Rep, ConsumerRep, BatchSteps
      <4> QED BY <2>1, <2>3, <4>1 DEF Rep, ListRep, LinkRep
    <3> QED BY <2>3, <3>1, QueueAssumption DEF Edge, Pending
  <2> QED BY <2>2, <2>3 DEF WaitHasEnqueuer, Pending
<1> QED BY InvariantHolds, <1>1, PTL

\* At the start the abstract queue is empty.
LEMMA InitRefines == Init => Fifo!Init
  BY DEF Init, Fifo!Init, QueueNow, BatchNow

\* The lock-free queue implements the abstract one: no element is lost,
\* duplicated or reordered between append, dequeue and restore.
THEOREM Refinement == Spec => ImplementsFifo
<1>1. QueueInv /\ [Next]_vars => [Fifo!Next]_(Fifo!fifoVars)
  BY StepInv DEF Refines, Fifo!fifoVars
<1> QED BY InitRefines, InvariantHolds, <1>1, PTL DEF Spec, ImplementsFifo, Fifo!Spec
=============================================================================
