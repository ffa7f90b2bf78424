--------------------------- MODULE MpscRingProofs ---------------------------
(***************************************************************************)
(* Proofs about MpscRing: in every behaviour of its first lap in which no  *)
(* stale hold pulls the cursor's limit behind its position, for any number *)
(* of writers and any capacity, the reader only sees fully-written data.   *)
(***************************************************************************)
EXTENDS MpscRing, TLAPS

-----------------------------------------------------------------------------
(* The inductive invariant, as a conjunction of named parts. *)

SpaceInv ==
    /\ tail <= head
    /\ head - tail < Capacity
    /\ head < HOLD_EMPTY

\* A writer in its loop works on a copy of mr_head_tail that is older than the
\* shared word by less than a buffer; one past its compare-exchange holds its bytes.
WriterOK(w) ==
    /\ wpc[w] # "idle" =>
          /\ wsize[w] \in Sizes
          /\ whead[w] <= head
          /\ wtail[w] <= whead[w]
          /\ whead[w] - wtail[w] < Capacity
    /\ wpc[w] \in {"cas", "copy", "copyleft", "release"} =>
          /\ holds[w] = whead[w]
          /\ whead[w] + wsize[w] - wtail[w] < Capacity
    /\ Owns(w) => tail <= whead[w] /\ whead[w] + wsize[w] <= head
    /\ wpc[w] = "giveup" => whead[w] + wsize[w] - wtail[w] >= Capacity

WriterInv == \A w \in Writers : WriterOK(w)

DisjointInv ==
    \A v, w \in Writers : v # w /\ Owns(v) /\ Owns(w) =>
        \/ whead[v] + wsize[v] <= whead[w]
        \/ whead[w] + wsize[w] <= whead[v]

\* The cursor lies between tail and head, and its limit is not past any
\* reservation among the holds already scanned.
ReaderInv ==
    rpc # "idle" =>
        /\ tail <= commitPos /\ commitPos <= pos /\ pos <= limit /\ limit <= head
        /\ \A w \in Writers :
              Owns(w) /\ (rpc = "cursor" \/ w < rindex) => limit <= whead[w]

\* A writer copies a leftover only when its bytes run past the buffer's end.
CopyLeftInv ==
    \A w \in Writers :
        wpc[w] = "copyleft" => SizeContig(whead[w], wsize[w]) # wsize[w]

RingInv == TypeOK /\ SpaceInv /\ WriterInv /\ DisjointInv /\ ReaderInv /\ UnreadIntact

-----------------------------------------------------------------------------
(* Arithmetic: what % does to an offset and a few bytes after it. *)

\* An offset is its quotient and its remainder by the capacity.
LEMMA DivMod ==
    ASSUME NEW a \in Nat, NEW c \in Nat, c > 0
    PROVE  /\ a = c * (a \div c) + (a % c)
           /\ a % c \in 0 .. c - 1
           /\ a \div c \in Nat
  BY Z3

\* A quotient and a remainder are unique.
LEMMA RemainderUnique ==
    ASSUME NEW c \in Nat, c > 0, NEW p \in Int, NEW q \in Int,
           NEW r \in 0 .. c - 1, NEW s \in 0 .. c - 1,
           c * p + r = c * q + s
    PROVE  r = s
<1>1. c * (p - q) = s - r
  BY Z3
<1>2. \A n \in Int : (n >= 1 => c * n >= c) /\ (n <= -1 => c * n <= -c)
  BY Z3
<1>3. CASE p - q >= 1 BY <1>1, <1>2, <1>3
<1>4. CASE p - q <= -1 BY <1>1, <1>2, <1>4
<1>5. CASE p = q BY <1>5, Z3
<1> QED BY <1>3, <1>4, <1>5

\* Slots follow each other up to the end of the buffer ...
LEMMA ModAdd ==
    ASSUME NEW a \in Nat, NEW c \in Nat, c > 0, NEW k \in Nat, (a % c) + k < c
    PROVE  (a + k) % c = (a % c) + k
<1>1. a = c * (a \div c) + (a % c) /\ a % c \in 0 .. c - 1 /\ a \div c \in Nat
  BY DivMod
<1>2. /\ a + k = c * ((a + k) \div c) + ((a + k) % c)
      /\ (a + k) % c \in 0 .. c - 1
      /\ (a + k) \div c \in Nat
  BY DivMod
<1>3. c * (a \div c) + ((a % c) + k) = c * ((a + k) \div c) + ((a + k) % c)
  BY <1>1, <1>2, Z3
<1> QED BY <1>1, <1>2, <1>3, RemainderUnique, Z3

\* ... and then start again at slot 0.
LEMMA ModWrap ==
    ASSUME NEW a \in Nat, NEW c \in Nat, c > 0, NEW k \in 0 .. c - 1, (a % c) + k >= c
    PROVE  (a + k) % c = (a % c) + k - c
<1>1. a = c * (a \div c) + (a % c) /\ a % c \in 0 .. c - 1 /\ a \div c \in Nat
  BY DivMod
<1>2. /\ a + k = c * ((a + k) \div c) + ((a + k) % c)
      /\ (a + k) % c \in 0 .. c - 1
      /\ (a + k) \div c \in Nat
  BY DivMod
<1> DEFINE p == (a \div c) + 1
           q == (a + k) \div c
           r == (a % c) + k - c
           s == (a + k) % c
<1>3. c * p + r = c * q + s
  BY <1>1, <1>2, Z3
<1>4. p \in Int /\ q \in Int /\ r \in 0 .. c - 1 /\ s \in 0 .. c - 1
  BY <1>1, <1>2
<1> HIDE DEF p, q, r, s
<1>5. r = s
  BY <1>3, <1>4, RemainderUnique
<1> QED BY <1>5 DEF r, s

\* Two different offsets less than a buffer apart have different slots.
LEMMA SlotInjective ==
    ASSUME NEW a \in Nat, NEW b \in Nat, NEW c \in Nat, c > 0,
           a < b, b - a < c
    PROVE  a % c # b % c
<1>1. PICK k \in 1 .. c - 1 : b = a + k
  <2>1. b - a \in 1 .. c - 1 /\ b = a + (b - a)
    OBVIOUS
  <2> QED BY <2>1
<1>2. a % c \in 0 .. c - 1 /\ k \in Nat /\ k \in 0 .. c - 1
  BY DivMod
<1>3. CASE (a % c) + k < c
  <2>1. (a + k) % c = (a % c) + k
    BY <1>2, <1>3, ModAdd, Zenon
  <2> QED BY <1>1, <1>2, <2>1
<1>4. CASE (a % c) + k >= c
  <2>1. (a + k) % c = (a % c) + k - c
    BY <1>2, <1>4, ModWrap, Zenon
  <2> QED BY <1>1, <1>2, <2>1
<1> QED BY <1>2, <1>3, <1>4

\* uint32_t arithmetic stays in a uint32_t.
LEMMA U32Type ==
    ASSUME NEW x \in Int, -OffsetSpan <= x, x < 2 * OffsetSpan
    PROVE  U32(x) \in Offsets
  BY RingAssumption DEF U32, Offsets

\* The sizes given to mpsc_ring_write and mpsc_ring_cursor_advance are positive
\* and no sum with them wraps twice.
LEMMA SizeRange ==
    ASSUME NEW s \in Sizes
    PROVE  s \in Nat /\ 1 <= s /\ s <= OffsetSpan - Capacity
  BY RingAssumption

\* Where a memcpy starts and how far it goes in one piece.
LEMMA ContigRange ==
    ASSUME NEW o \in Offsets, NEW s \in Sizes \cup {0}
    PROVE  /\ s \in 0 .. (OffsetSpan - Capacity)
           /\ o % Capacity \in Slots
           /\ SizeContig(o, s) \in 0 .. s
           /\ (o % Capacity) + SizeContig(o, s) <= Capacity
           /\ SizeContig(o, s) # s => (o % Capacity) + SizeContig(o, s) = Capacity
<1>1. o % Capacity \in 0 .. Capacity - 1
  BY DivMod, RingAssumption DEF Offsets
<1>2. s \in 0 .. (OffsetSpan - Capacity)
  BY RingAssumption
<1> QED BY <1>1, <1>2, RingAssumption DEF SizeContig, Slots

-----------------------------------------------------------------------------
(* Type correctness, of the whole specification: wrapped offsets included. *)

\* mpsc_ring_init sets every variable within its type.
LEMMA InitType == Init => TypeOK
  BY RingAssumption
  DEF Init, TypeOK, Writers, Offsets, Slots, HOLD_EMPTY

\* A memcpy into the ring leaves every slot with an offset's byte or zero.
LEMMA MemcpyType ==
    ASSUME TypeOK, NEW at \in Int, NEW n \in Int, NEW first \in Offsets, at >= 0
    PROVE  Memcpy(at, n, first) \in [Slots -> Offsets \cup {ZEROED}]
<1> SUFFICES ASSUME NEW i \in Slots, at <= i, i < at + n
             PROVE  U32(first + (i - at)) \in Offsets
  BY DEF Memcpy, TypeOK
<1>1. first + (i - at) \in Int /\ -OffsetSpan <= first + (i - at)
      /\ first + (i - at) < 2 * OffsetSpan
  BY RingAssumption DEF Slots, Offsets
<1> QED BY <1>1, U32Type

\* Every step of mpsc_ring_write and of the reader keeps the types: uint32_t
\* arithmetic stays in range.
LEMMA NextType ==
    ASSUME TypeOK, [Next]_vars
    PROVE  TypeOK'
<1> USE RingAssumption DEF TypeOK, wvars, cvars
<1>1. HOLD_EMPTY \in Offsets /\ 0 \in Offsets
  BY DEF HOLD_EMPTY, Offsets
<1>2. ASSUME NEW w \in Writers, NEW size \in Sizes, WriteStart(w, size) PROVE TypeOK'
  BY <1>2 DEF WriteStart
<1>3. ASSUME NEW w \in Writers, WriteGiveUp(w) PROVE TypeOK'
  BY <1>3 DEF WriteGiveUp
<1>4. ASSUME NEW w \in Writers, WriteHold(w) PROVE TypeOK'
  BY <1>4 DEF WriteHold
<1>5. ASSUME NEW w \in Writers, WriteCas(w) PROVE TypeOK'
  <2>1. whead[w] \in Offsets /\ wsize[w] \in 0 .. (OffsetSpan - Capacity)
    BY ContigRange
  <2>2. U32(whead[w] + wsize[w]) \in Offsets
    BY <2>1, U32Type DEF Offsets
  <2> QED BY <1>5, <2>2 DEF WriteCas
<1>6. ASSUME NEW w \in Writers, WriteCasFail(w) PROVE TypeOK'
  BY <1>6 DEF WriteCasFail
<1>7. ASSUME NEW w \in Writers, WriteCopy(w) PROVE TypeOK'
  <2> DEFINE at == whead[w] % Capacity
             contig == SizeContig(whead[w], wsize[w])
  <2>1. /\ at \in Slots /\ whead[w] \in Offsets
        /\ contig \in 0 .. wsize[w] /\ wsize[w] \in 0 .. (OffsetSpan - Capacity)
    BY ContigRange
  <2>2. at \in Int /\ at >= 0 /\ contig \in Int
    BY <2>1 DEF Slots
  <2>3. buffer' = Memcpy(at, contig, whead[w])
    BY <1>7 DEF WriteCopy
  <2> HIDE DEF at, contig
  <2>4. buffer' \in [Slots -> Offsets \cup {ZEROED}]
    BY <2>1, <2>2, <2>3, MemcpyType
  <2> QED BY <1>7, <2>4 DEF WriteCopy
<1>8. ASSUME NEW w \in Writers, WriteCopyLeft(w) PROVE TypeOK'
  <2> DEFINE contig == SizeContig(whead[w], wsize[w])
             left == wsize[w] - contig
             first == U32(whead[w] + contig)
  <2>1. contig \in 0 .. wsize[w] /\ wsize[w] \in 0 .. (OffsetSpan - Capacity)
    BY ContigRange
  <2>2. buffer' = Memcpy(0, left, first)
    BY <1>8 DEF WriteCopyLeft
  <2> HIDE DEF contig
  <2>3. left \in Int /\ first \in Offsets
    BY <2>1, U32Type DEF Offsets
  <2> HIDE DEF left, first
  <2>4. buffer' \in [Slots -> Offsets \cup {ZEROED}]
    BY <2>2, <2>3, MemcpyType
  <2> QED BY <1>8, <2>4 DEF WriteCopyLeft
<1>9. ASSUME NEW w \in Writers, WriteRelease(w) PROVE TypeOK'
  BY <1>1, <1>9 DEF WriteRelease
<1>10. CASE ReadStart
  BY <1>10 DEF ReadStart, Writers
<1>11. CASE ReadScan
  BY <1>11 DEF ReadScan, Writers
<1>12. ASSUME NEW size \in Sizes, CursorAdvance(size) PROVE TypeOK'
  <2>1. U32(pos + size) \in Offsets
    BY U32Type DEF Offsets
  <2> QED BY <1>12, <2>1 DEF CursorAdvance
<1>13. CASE CursorCommit
  BY <1>13 DEF CursorCommit
<1>14. CASE ReadFinish
  BY <1>1, <1>14 DEF ReadFinish, EndRead
<1>15. CASE ReadCancel
  BY <1>1, <1>15 DEF ReadCancel, EndRead
<1>16. CASE UNCHANGED vars
  BY <1>16 DEF vars
<1> QED
  BY <1>2, <1>3, <1>4, <1>5, <1>6, <1>7, <1>8, <1>9, <1>10, <1>11, <1>12,
     <1>13, <1>14, <1>15, <1>16
  DEF Next, WriterStep, ReaderStep

\* The ring's words, holds, cursors and buffer stay in their C types in every
\* behaviour of mpsc_ring.c, also after the offsets wrap and with stale holds.
THEOREM TypeCorrect == Spec => []TypeOK
<1>1. Init => TypeOK
  BY InitType
<1>2. TypeOK /\ [Next]_vars => TypeOK'
  BY NextType
<1> QED BY <1>1, <1>2, PTL DEF Spec

-----------------------------------------------------------------------------
(* The invariant is inductive over OrderedNext. *)

\* mpsc_ring_init establishes the invariant: an empty ring, no hold, no cursor.
LEMMA InitInv == Init => RingInv
<1> SUFFICES ASSUME Init PROVE RingInv
  OBVIOUS
<1>1. TypeOK
  BY InitType
<1>2. tail .. head - 1 = {}
  BY DEF Init
<1> QED
  BY <1>1, <1>2, RingAssumption
  DEF Init, RingInv, SpaceInv, WriterInv, WriterOK, DisjointInv, ReaderInv, UnreadIntact,
      Owns, HOLD_EMPTY, Writers

\* A writer that is not copying has nothing left to copy.
LEMMA UncopiedNone ==
    ASSUME NEW w \in Writers, wpc[w] \notin {"copy", "copyleft"}
    PROVE  Uncopied(w) = {}
  BY DEF Uncopied

\* What a writer has left to copy depends on its own locals only.
LEMMA UncopiedKept ==
    ASSUME NEW w \in Writers, wpc'[w] = wpc[w], whead'[w] = whead[w], wsize'[w] = wsize[w]
    PROVE  Uncopied(w)' = Uncopied(w)
  BY DEF Uncopied, Reservation, SizeContig

\* A step that writes no byte, reserves none and finishes no copy keeps the data.
LEMMA DataKept ==
    ASSUME TypeOK, TypeOK', UnreadIntact, head' = head, tail <= tail', buffer' = buffer,
           \A w \in Writers : Uncopied(w) \subseteq Uncopied(w)'
    PROVE  UnreadIntact'
<1> SUFFICES ASSUME NEW o \in tail' .. head' - 1
             PROVE  Written(o)' \/ \E w \in Writers : o \in Uncopied(w)'
  BY DEF UnreadIntact
<1>1. o \in tail .. head - 1
  BY DEF TypeOK, Offsets
<1> QED BY <1>1 DEF UnreadIntact, Written

\* The test for room sees no wrap-around.
LEMMA LeftoverExact ==
    ASSUME TypeOK, WriterInv, NEW w \in Writers, wpc[w] # "idle"
    PROVE  Leftover(w) = whead[w] + wsize[w] - wtail[w]
<1>1. /\ whead[w] \in Offsets /\ wtail[w] \in Offsets /\ wsize[w] \in Sizes
      /\ wtail[w] <= whead[w] /\ whead[w] - wtail[w] < Capacity
  BY DEF TypeOK, WriterInv, WriterOK
<1>2. wsize[w] \in Nat /\ wsize[w] <= OffsetSpan - Capacity
  BY <1>1, SizeRange
<1> QED BY <1>1, <1>2, RingAssumption DEF Leftover, U32, Offsets

\* The invariant's facts about one writer, as plain arithmetic.
LEMMA WriterFacts ==
    ASSUME RingInv, NEW w \in Writers
    PROVE  /\ whead[w] \in Nat /\ wtail[w] \in Nat /\ head \in Nat /\ tail \in Nat
           /\ whead[w] \in Offsets /\ whead[w] < OffsetSpan
           /\ wpc[w] # "idle" =>
                /\ wsize[w] \in Sizes /\ wsize[w] \in Nat /\ 1 <= wsize[w]
                /\ wsize[w] <= OffsetSpan - Capacity
                /\ whead[w] <= head
           /\ Owns(w) => /\ holds[w] = whead[w]
                         /\ tail <= whead[w] /\ whead[w] + wsize[w] <= head
                         /\ wsize[w] < Capacity
<1>1. /\ whead[w] \in Offsets /\ wtail[w] \in Offsets /\ head \in Offsets /\ tail \in Offsets
      /\ WriterOK(w)
  BY DEF RingInv, TypeOK, WriterInv
<1>2. /\ whead[w] \in Nat /\ wtail[w] \in Nat /\ head \in Nat /\ tail \in Nat
      /\ whead[w] < OffsetSpan
  BY <1>1, RingAssumption DEF Offsets
<1>3. wpc[w] # "idle" => /\ wsize[w] \in Sizes /\ wsize[w] \in Nat /\ 1 <= wsize[w]
                         /\ wsize[w] <= OffsetSpan - Capacity
                         /\ whead[w] <= head
  BY <1>1, SizeRange DEF WriterOK
<1>4. Owns(w) => wpc[w] # "idle" /\ wpc[w] \in {"cas", "copy", "copyleft", "release"}
  BY DEF Owns
<1>5. Owns(w) => /\ holds[w] = whead[w]
                 /\ tail <= whead[w] /\ whead[w] + wsize[w] <= head
                 /\ whead[w] + wsize[w] - wtail[w] < Capacity /\ wtail[w] <= whead[w]
  BY <1>1, <1>4 DEF WriterOK
<1>6. Owns(w) => wsize[w] < Capacity
  BY <1>2, <1>3, <1>4, <1>5, RingAssumption
<1> QED BY <1>1, <1>2, <1>3, <1>5, <1>6

\* Steps of a writer that neither owns its bytes before nor after, and of which
\* the other writers, the reader and the buffer take no notice.
LEMMA LoopStep ==
    ASSUME RingInv, OrderedNext, TypeOK', NEW w \in Writers,
           \/ \E size \in Sizes : WriteStart(w, size)
           \/ WriteGiveUp(w)
           \/ WriteHold(w)
           \/ WriteCasFail(w)
    PROVE  RingInv'
<1> USE RingAssumption DEF RingInv
<1>1. /\ UNCHANGED <<head, tail, buffer, rpc, rindex, commitPos, pos, limit>>
      /\ wpc[w] \in {"idle", "check", "cas"}
      /\ wpc'[w] \in {"check", "giveup", "cas"}
      /\ \A v \in Writers \ {w} :
            /\ wpc'[v] = wpc[v] /\ whead'[v] = whead[v] /\ wtail'[v] = wtail[v]
            /\ wsize'[v] = wsize[v] /\ holds'[v] = holds[v]
  BY DEF WriteStart, WriteGiveUp, WriteHold, WriteCasFail, cvars, TypeOK
<1>2. SpaceInv'
  BY <1>1 DEF SpaceInv
<1>3. ~ Owns(w) /\ ~ Owns(w)' /\ \A v \in Writers \ {w} : Owns(v)' = Owns(v)
  BY <1>1 DEF Owns
<1>4. DisjointInv'
  BY <1>1, <1>3 DEF DisjointInv
<1>5. ReaderInv'
  BY <1>1, <1>3 DEF ReaderInv
<1>6. UnreadIntact'
  <2>1. \A v \in Writers : Uncopied(v) \subseteq Uncopied(v)'
    BY <1>1, UncopiedNone, UncopiedKept
  <2> QED BY <1>1, <2>1, DataKept DEF TypeOK, Offsets
<1>7. WriterInv'
  <2>1. ASSUME NEW v \in Writers \ {w} PROVE WriterOK(v)'
    BY <1>1, <1>3 DEF WriterInv, WriterOK
  <2>2. WriterOK(w)'
    <3>1. CASE \E size \in Sizes : WriteStart(w, size)
      <4>1. /\ wpc'[w] = "check" /\ wsize'[w] \in Sizes
            /\ whead'[w] = head /\ wtail'[w] = tail
        BY <3>1 DEF WriteStart, TypeOK
      <4> QED BY <1>1, <1>3, <4>1 DEF WriterOK, SpaceInv, TypeOK, Offsets
    <3>2. CASE WriteGiveUp(w)
      BY <3>2, <1>1, <1>3, LeftoverExact DEF WriteGiveUp, WriterOK, WriterInv
    <3>3. CASE WriteHold(w)
      <4>1. Leftover(w) = whead[w] + wsize[w] - wtail[w]
        BY <3>3, LeftoverExact DEF WriteHold
      <4> QED BY <3>3, <4>1, <1>1, <1>3 DEF WriteHold, WriterOK, WriterInv, TypeOK
    <3>4. CASE WriteCasFail(w)
      <4>1. /\ wpc'[w] = "check" /\ wsize'[w] \in Sizes
            /\ whead'[w] = head /\ wtail'[w] = tail
        BY <3>4 DEF WriteCasFail, WriterInv, WriterOK, TypeOK
      <4> QED BY <1>1, <1>3, <4>1 DEF WriterOK, SpaceInv, TypeOK, Offsets
    <3> QED BY <3>1, <3>2, <3>3, <3>4
  <2> QED BY <2>1, <2>2 DEF WriterInv
<1> QED BY <1>2, <1>4, <1>5, <1>6, <1>7

\* The compare-exchange gives the writer bytes that nobody else has.
LEMMA CasStep ==
    ASSUME RingInv, OrderedNext, TypeOK', NEW w \in Writers, WriteCas(w)
    PROVE  RingInv'
<1> USE RingAssumption DEF RingInv
<1>1. /\ UNCHANGED <<tail, holds, buffer, whead, wtail, wsize,
                     rpc, rindex, commitPos, pos, limit>>
      /\ head = whead[w] /\ tail = wtail[w]
      /\ wpc[w] = "cas" /\ wpc'[w] = "copy"
      /\ \A v \in Writers \ {w} : wpc'[v] = wpc[v]
  BY DEF WriteCas, cvars, TypeOK
<1>2. /\ head \in Offsets /\ tail \in Offsets /\ wsize[w] \in Sizes
      /\ head \in Int /\ tail \in Int
      /\ wsize[w] \in Nat /\ 1 <= wsize[w] /\ wsize[w] <= OffsetSpan - Capacity
      /\ holds[w] = head
      /\ head + wsize[w] - tail < Capacity
  <2>1. WriterOK(w)
    BY DEF WriterInv
  <2>2. head \in Offsets /\ tail \in Offsets /\ head \in Int /\ tail \in Int
    BY DEF TypeOK, Offsets
  <2>3. /\ wsize[w] \in Sizes /\ wsize[w] \in Nat /\ 1 <= wsize[w]
        /\ wsize[w] <= OffsetSpan - Capacity
    BY <1>1, WriterFacts
  <2> QED BY <1>1, <2>1, <2>2, <2>3 DEF WriterOK
<1>3. head' = head + wsize[w] /\ head' < HOLD_EMPTY
  <2>1. head' = U32(head + wsize[w]) /\ head' >= head /\ head' < HOLD_EMPTY
    BY <1>1 DEF WriteCas, OrderedNext, FirstLap
  <2> QED BY <1>2, <2>1 DEF U32, Offsets
<1>4. SpaceInv'
  BY <1>1, <1>2, <1>3 DEF SpaceInv
<1>5. ~ Owns(w) /\ Owns(w)' /\ \A v \in Writers \ {w} : Owns(v)' = Owns(v)
  BY <1>1 DEF Owns
<1>6. \A v \in Writers : /\ whead[v] \in Int /\ wtail[v] \in Int
                         /\ wpc[v] # "idle" => whead[v] <= head /\ wsize[v] \in Nat
                         /\ Owns(v) => whead[v] + wsize[v] <= head
  BY WriterFacts
<1>7. WriterInv'
  <2>1. ASSUME NEW v \in Writers \ {w} PROVE WriterOK(v)'
    <3>1. WriterOK(v)
      BY DEF WriterInv
    <3>2. wpc[v] # "idle" => whead[v] <= head'
      BY <1>2, <1>3, <1>6
    <3>3. Owns(v) => whead[v] + wsize[v] <= head'
      BY <1>2, <1>3, <1>6 DEF Owns
    <3> QED BY <1>1, <1>5, <3>1, <3>2, <3>3 DEF WriterOK
  <2>2. WriterOK(w)'
    BY <1>1, <1>2, <1>3 DEF WriterOK, SpaceInv
  <2> QED BY <2>1, <2>2 DEF WriterInv
<1>8. DisjointInv'
  BY <1>1, <1>5, <1>6 DEF DisjointInv
<1>9. ReaderInv'
  <2>1. rpc # "idle" => limit <= head'
    BY <1>2, <1>3 DEF ReaderInv, TypeOK, Offsets
  <2> QED BY <1>1, <1>5, <2>1 DEF ReaderInv
<1>10. UnreadIntact'
  <2> SUFFICES ASSUME NEW o \in tail .. head' - 1
               PROVE  Written(o)' \/ \E v \in Writers : o \in Uncopied(v)'
    BY <1>1 DEF UnreadIntact
  <2>1. CASE o < head
    <3>1. o \in tail .. head - 1
      BY <1>2, <2>1
    <3>2. CASE Written(o)
      BY <1>1, <3>2 DEF Written
    <3>3. ASSUME NEW v \in Writers, o \in Uncopied(v)
          PROVE  o \in Uncopied(v)'
      BY <1>1, <3>3, UncopiedNone, UncopiedKept
    <3> QED BY <3>1, <3>2, <3>3 DEF UnreadIntact
  <2>2. CASE o >= head
    <3>1. Uncopied(w)' = head .. head + wsize[w] - 1
      BY <1>1 DEF Uncopied, Reservation
    <3> QED BY <1>2, <1>3, <2>2, <3>1
  <2> QED BY <1>2, <2>1, <2>2
<1> QED BY <1>4, <1>7, <1>8, <1>9, <1>10

\* A memcpy inside [tail, head) that does not run past the buffer's end puts
\* each of its offsets' bytes in place and leaves the other live ones alone.
LEMMA MemcpyData ==
    ASSUME TypeOK, SpaceInv, NEW first \in Nat, NEW n \in Nat,
           tail <= first, first + n <= head,
           (first % Capacity) + n <= Capacity,
           NEW o \in tail .. head - 1
    PROVE  Memcpy(first % Capacity, n, first)[o % Capacity] =
               IF first <= o /\ o < first + n THEN o ELSE buffer[o % Capacity]
<1> USE RingAssumption
<1> DEFINE at == first % Capacity
           i  == o % Capacity
<1>1. /\ o \in Nat /\ head \in Nat /\ tail \in Nat /\ head < OffsetSpan
      /\ tail <= o /\ o < head /\ head - tail < Capacity /\ Capacity \in Nat /\ Capacity > 0
  BY DEF TypeOK, SpaceInv, Offsets
<1>2. i \in Slots /\ at \in Slots
  BY <1>1, DivMod DEF Slots
<1>3. Memcpy(at, n, first)[i] =
          IF at <= i /\ i < at + n THEN U32(first + (i - at)) ELSE buffer[i]
  BY <1>2 DEF Memcpy
<1>4. CASE first <= o /\ o < first + n
  <2>1. PICK k \in Nat : o = first + k /\ k < n
    <3>1. o - first \in Nat /\ o = first + (o - first) /\ o - first < n
      BY <1>1, <1>4
    <3> QED BY <3>1
  <2>2. (first % Capacity) + k < Capacity
    BY <1>2, <2>1 DEF Slots
  <2>3. i = at + k
    BY <1>1, <2>1, <2>2, ModAdd
  <2> HIDE DEF i, at
  <2>4. U32(first + (i - at)) = o
    BY <1>1, <1>2, <2>1, <2>3 DEF U32, Slots
  <2>5. at <= i /\ i < at + n
    BY <1>2, <2>1, <2>3 DEF Slots
  <2> QED BY <1>3, <1>4, <2>4, <2>5 DEF i, at
<1>5. CASE ~(first <= o /\ o < first + n)
  <2>1. ~(at <= i /\ i < at + n)
    <3> SUFFICES ASSUME at <= i, i < at + n PROVE FALSE
      OBVIOUS
    <3>1. PICK k \in Nat : i = at + k /\ k < n
      <4>1. i - at \in Nat /\ i = at + (i - at) /\ i - at < n
        BY <1>2 DEF Slots
      <4> QED BY <4>1
    <3>2. (first % Capacity) + k < Capacity
      BY <1>2, <3>1 DEF Slots
    <3>3. (first + k) % Capacity = i
      BY <1>1, <3>1, <3>2, ModAdd
    <3>4. o < first + k \/ first + k < o
      BY <1>1, <1>5, <3>1
    <3>5. first + k \in Nat /\ o - (first + k) < Capacity /\ (first + k) - o < Capacity
      BY <1>1, <3>1
    <3> QED BY <1>1, <3>3, <3>4, <3>5, SlotInjective
  <2> QED BY <1>3, <1>5, <2>1
<1> QED BY <1>4, <1>5

\* Steps in which a writer keeps its reservation: everything but the data.
LEMMA OwnerStep ==
    ASSUME RingInv, NEW w \in Writers,
           UNCHANGED <<head, tail, holds, whead, wtail, wsize,
                       rpc, rindex, commitPos, pos, limit>>,
           Owns(w), Owns(w)',
           \A v \in Writers \ {w} : wpc'[v] = wpc[v]
    PROVE  SpaceInv' /\ WriterInv' /\ DisjointInv' /\ ReaderInv'
<1> USE DEF RingInv
<1>1. \A v \in Writers : Owns(v)' = Owns(v)
  BY DEF Owns
<1>2. SpaceInv' /\ DisjointInv' /\ ReaderInv'
  BY <1>1 DEF SpaceInv, DisjointInv, ReaderInv
<1>3. ASSUME NEW v \in Writers PROVE WriterOK(v)'
  BY <1>1 DEF WriterInv, WriterOK, Owns
<1> QED BY <1>2, <1>3 DEF WriterInv

\* The first memcpy of _mpsc_ring_copy fills the reservation up to the end of the
\* buffer and touches no other live byte.
LEMMA CopyStep ==
    ASSUME RingInv, TypeOK', NEW w \in Writers, WriteCopy(w)
    PROVE  RingInv'
<1> USE RingAssumption
<1> DEFINE a == whead[w]
           n == SizeContig(whead[w], wsize[w])
<1>1. /\ UNCHANGED <<head, tail, holds, whead, wtail, wsize,
                     rpc, rindex, commitPos, pos, limit>>
      /\ wpc[w] = "copy" /\ wpc'[w] = IF n # wsize[w] THEN "copyleft" ELSE "release"
      /\ \A v \in Writers \ {w} : wpc'[v] = wpc[v]
      /\ buffer' = Memcpy(a % Capacity, n, a)
  BY DEF WriteCopy, cvars, RingInv, TypeOK
<1>2. Owns(w) /\ Owns(w)'
  BY <1>1 DEF Owns
<1>3. /\ a \in Nat /\ wsize[w] \in Nat /\ tail <= a /\ a + wsize[w] <= head
      /\ wsize[w] \in Sizes \cup {0} /\ a \in Offsets
  BY <1>1, <1>2, WriterFacts
<1>4. n \in 0 .. wsize[w] /\ (a % Capacity) + n <= Capacity
  BY <1>3, ContigRange
<1>5. UnreadIntact'
  <2> SUFFICES ASSUME NEW o \in tail .. head - 1
               PROVE  Written(o)' \/ \E v \in Writers : o \in Uncopied(v)'
    BY <1>1 DEF UnreadIntact
  <2> HIDE DEF a, n
  <2>0. n \in Nat /\ a + n <= head /\ head \in Nat /\ tail \in Nat /\ o \in Nat
    BY <1>3, <1>4, WriterFacts
  <2>1. buffer'[o % Capacity] = IF a <= o /\ o < a + n THEN o ELSE buffer[o % Capacity]
    BY <1>1, <1>3, <1>4, <2>0, MemcpyData DEF RingInv
  <2>2. CASE a <= o /\ o < a + n
    BY <2>1, <2>2 DEF Written
  <2>3. CASE ~(a <= o /\ o < a + n)
    <3>1. CASE Written(o)
      BY <2>1, <2>3, <3>1 DEF Written
    <3>2. CASE o \in Uncopied(w)
      <4>1. a <= o /\ o <= a + wsize[w] - 1
        BY <1>1, <3>2 DEF Uncopied, Reservation, a
      <4>2. n # wsize[w] /\ a + n <= o
        BY <1>3, <1>4, <2>0, <2>3, <4>1
      <4>3. Uncopied(w)' = a + n .. a + wsize[w] - 1
        BY <1>1, <4>2 DEF Uncopied, SizeContig, a, n
      <4> QED BY <1>3, <2>0, <4>1, <4>2, <4>3
    <3>3. ASSUME NEW v \in Writers \ {w}, o \in Uncopied(v)
          PROVE  o \in Uncopied(v)'
      BY <1>1, <3>3, UncopiedKept
    <3> QED BY <3>1, <3>2, <3>3 DEF RingInv, UnreadIntact
  <2> QED BY <2>2, <2>3
<1> QED BY <1>1, <1>2, <1>5, OwnerStep DEF RingInv

\* The second memcpy of _mpsc_ring_copy puts the leftover at the buffer's start,
\* where no other live byte is.
LEMMA CopyLeftStep ==
    ASSUME RingInv, TypeOK', NEW w \in Writers, WriteCopyLeft(w),
           SizeContig(whead[w], wsize[w]) # wsize[w]
    PROVE  RingInv'
<1> USE RingAssumption
<1> DEFINE n == SizeContig(whead[w], wsize[w])
           first == whead[w] + n
           left == wsize[w] - n
<1>1. /\ UNCHANGED <<head, tail, holds, whead, wtail, wsize,
                     rpc, rindex, commitPos, pos, limit>>
      /\ wpc[w] = "copyleft" /\ wpc'[w] = "release"
      /\ \A v \in Writers \ {w} : wpc'[v] = wpc[v]
      /\ buffer' = Memcpy(0, left, U32(first))
  BY DEF WriteCopyLeft, cvars, RingInv, TypeOK
<1>2. Owns(w) /\ Owns(w)'
  BY <1>1 DEF Owns
<1>3. /\ whead[w] \in Nat /\ wsize[w] \in Nat /\ tail <= whead[w]
      /\ whead[w] + wsize[w] <= head /\ wsize[w] < Capacity
      /\ wsize[w] \in Sizes \cup {0} /\ whead[w] \in Offsets
  BY <1>1, <1>2, WriterFacts
<1>4. /\ n \in 0 .. wsize[w] /\ (whead[w] % Capacity) + n = Capacity
      /\ whead[w] % Capacity \in Slots
  BY <1>3, ContigRange
<1>5. n \in 0 .. Capacity - 1
  BY <1>3, <1>4
<1>6. first % Capacity = 0
  <2> HIDE DEF n
  <2>1. (whead[w] % Capacity) + n >= Capacity /\ Capacity \in Nat /\ Capacity > 0
    BY <1>4, <1>5 DEF Slots
  <2>2. (whead[w] + n) % Capacity = (whead[w] % Capacity) + n - Capacity
    BY <1>3, <1>5, <2>1, ModWrap, Zenon
  <2> QED BY <1>4, <1>5, <2>2 DEF Slots
<1>7. /\ first \in Nat /\ left \in Nat /\ tail <= first /\ first + left <= head
      /\ left <= Capacity /\ first + left = whead[w] + wsize[w]
      /\ head \in Nat /\ tail \in Nat /\ head < OffsetSpan
  BY <1>3, <1>4, WriterFacts DEF RingInv, TypeOK, Offsets
<1>8. Uncopied(w) = first .. whead[w] + wsize[w] - 1
  BY <1>1 DEF Uncopied
<1> HIDE DEF first, left, n
<1>9. U32(first) = first
  BY <1>7 DEF U32
<1>10. UnreadIntact'
  <2> SUFFICES ASSUME NEW o \in tail .. head - 1
               PROVE  Written(o)' \/ \E v \in Writers : o \in Uncopied(v)'
    BY <1>1 DEF UnreadIntact
  <2>1. buffer'[o % Capacity] =
            IF first <= o /\ o < first + left THEN o ELSE buffer[o % Capacity]
    <3>1. (first % Capacity) + left <= Capacity
      BY <1>6, <1>7
    <3>2. buffer' = Memcpy(first % Capacity, left, first)
      BY <1>1, <1>6, <1>9
    <3>3. SpaceInv /\ TypeOK
      BY DEF RingInv
    <3>4. Memcpy(first % Capacity, left, first)[o % Capacity] =
              IF first <= o /\ o < first + left THEN o ELSE buffer[o % Capacity]
      BY <1>7, <3>1, <3>3, MemcpyData
    <3> QED BY <3>2, <3>4
  <2>2. CASE first <= o /\ o < first + left
    BY <2>1, <2>2 DEF Written
  <2>3. CASE ~(first <= o /\ o < first + left)
    <3>1. CASE Written(o)
      BY <2>1, <2>3, <3>1 DEF Written
    <3>2. o \notin Uncopied(w)
      BY <1>3, <1>7, <1>8, <2>3
    <3>3. ASSUME NEW v \in Writers \ {w}, o \in Uncopied(v)
          PROVE  o \in Uncopied(v)'
      BY <1>1, <3>3, UncopiedKept
    <3> QED BY <3>1, <3>2, <3>3 DEF RingInv, UnreadIntact
  <2> QED BY <2>2, <2>3
<1> QED BY <1>1, <1>2, <1>10, OwnerStep DEF RingInv

\* Dropping the hold at the end of mpsc_ring_write ends a reservation whose
\* bytes are all in.
LEMMA ReleaseStep ==
    ASSUME RingInv, TypeOK', NEW w \in Writers, WriteRelease(w)
    PROVE  RingInv'
<1> USE DEF RingInv
<1>1. /\ UNCHANGED <<head, tail, buffer, rpc, rindex, commitPos, pos, limit>>
      /\ wpc[w] \in {"giveup", "release"} /\ wpc'[w] = "idle"
      /\ \A v \in Writers \ {w} :
            /\ wpc'[v] = wpc[v] /\ whead'[v] = whead[v] /\ wtail'[v] = wtail[v]
            /\ wsize'[v] = wsize[v] /\ holds'[v] = holds[v]
  BY DEF WriteRelease, cvars, TypeOK
<1>2. ~ Owns(w)' /\ \A v \in Writers \ {w} : Owns(v)' = Owns(v)
  BY <1>1 DEF Owns
<1>3. SpaceInv' /\ DisjointInv' /\ ReaderInv'
  BY <1>1, <1>2 DEF SpaceInv, DisjointInv, ReaderInv
<1>4. WriterInv'
  <2>1. ASSUME NEW v \in Writers \ {w} PROVE WriterOK(v)'
    BY <1>1, <1>2 DEF WriterInv, WriterOK
  <2>2. WriterOK(w)'
    BY <1>1, <1>2 DEF WriterOK
  <2> QED BY <2>1, <2>2 DEF WriterInv
<1>5. UnreadIntact'
  <2>1. \A v \in Writers : Uncopied(v) \subseteq Uncopied(v)'
    BY <1>1, UncopiedNone, UncopiedKept
  <2> QED BY <1>1, <2>1, DataKept DEF TypeOK, Offsets
<1> QED BY <1>3, <1>4, <1>5

\* The reader's steps leave the writers alone; only mpsc_ring_read_finish moves
\* tail, and not past its limit.
LEMMA ReaderStepInv ==
    ASSUME RingInv, OrderedNext, TypeOK', ReaderStep
    PROVE  RingInv'
<1> USE RingAssumption DEF RingInv
<1>1. UNCHANGED <<head, holds, buffer, wpc, whead, wtail, wsize>>
  BY DEF ReaderStep, ReadStart, ReadScan, CursorAdvance, CursorCommit, ReadFinish,
         ReadCancel, EndRead, wvars
<1>2. \A v \in Writers : Owns(v)' = Owns(v)
  BY <1>1 DEF Owns
<1>3. /\ tail \in Nat /\ head \in Nat /\ pos \in Nat /\ commitPos \in Nat /\ limit \in Nat
      /\ head < OffsetSpan /\ rindex \in Nat
  BY DEF TypeOK, SpaceInv, Offsets, Writers
<1>4. /\ tail <= tail' /\ tail' <= head /\ tail' \in Nat
      /\ \A v \in Writers : Owns(v) => tail' <= whead[v]
  <2>1. CASE ReadFinish
    <3>1. tail' = commitPos /\ rpc = "cursor"
      BY <2>1 DEF ReadFinish, EndRead
    <3>2. /\ tail <= commitPos /\ commitPos <= limit /\ limit <= head
          /\ \A v \in Writers : Owns(v) => limit <= whead[v]
      BY <1>3, <3>1 DEF ReaderInv
    <3>3. \A v \in Writers : whead[v] \in Nat
      BY WriterFacts
    <3> QED BY <1>3, <3>1, <3>2, <3>3
  <2>2. CASE tail' = tail
    <3>1. \A v \in Writers : Owns(v) => tail <= whead[v]
      BY WriterFacts
    <3> QED BY <1>3, <2>2, <3>1 DEF SpaceInv
  <2> QED BY <2>1, <2>2 DEF ReaderStep, ReadStart, ReadScan, CursorAdvance,
                            CursorCommit, ReadCancel
<1>5. SpaceInv'
  <2>1. head - tail < Capacity /\ head < HOLD_EMPTY /\ head' = head
    BY <1>1 DEF SpaceInv
  <2>2. \A t \in Nat : tail <= t => head - t < Capacity
    BY <1>3, <2>1
  <2>3. head - tail' < Capacity
    BY <1>4, <2>2
  <2> QED BY <1>4, <2>1, <2>3 DEF SpaceInv, HOLD_EMPTY
<1>6. WriterInv'
  <2>1. ASSUME NEW v \in Writers PROVE WriterOK(v)'
    BY <1>1, <1>2, <1>4 DEF WriterInv, WriterOK
  <2> QED BY <2>1 DEF WriterInv
<1>7. DisjointInv'
  BY <1>1, <1>2 DEF DisjointInv
<1>8. UnreadIntact'
  <2>1. \A v \in Writers : Uncopied(v) \subseteq Uncopied(v)'
    BY <1>1, UncopiedKept
  <2> QED BY <1>1, <1>4, <2>1, DataKept
<1>9. ReaderInv'
  <2>1. CASE ReadStart
    <3>1. \A v \in Writers : v >= 0
      BY DEF Writers
    <3> QED BY <1>1, <1>3, <2>1, <3>1 DEF ReadStart, ReaderInv, SpaceInv, Writers
  <2>2. CASE ReadScan
    <3>1. /\ rpc = "scan" /\ rpc' # "idle" /\ tail' = tail /\ commitPos' = commitPos
          /\ pos' = pos /\ limit' <= limit
      BY <1>3, <2>2 DEF ReadScan, TypeOK, Offsets
    <3>2. pos' <= limit'
      BY <3>1 DEF OrderedNext, CursorOrdered
    <3>3. limit' \in Nat
      BY DEF TypeOK, Offsets
    <3>4. ASSUME NEW v \in Writers, Owns(v), rpc' = "cursor" \/ v < rindex'
          PROVE  limit' <= whead[v]
      <4>0. /\ whead[v] \in Nat /\ holds[v] = whead[v] /\ whead[v] < HOLD_EMPTY
        BY <1>3, <3>4, WriterFacts DEF Owns, SpaceInv, HOLD_EMPTY
      <4>1. CASE v < rindex
        BY <1>3, <3>1, <3>3, <3>4, <4>0, <4>1 DEF ReaderInv
      <4>2. CASE v = rindex
        BY <1>3, <2>2, <4>0, <4>2 DEF ReadScan, HOLD_EMPTY
      <4>3. v <= rindex
        BY <1>3, <2>2, <3>4 DEF ReadScan, Writers
      <4> QED BY <1>3, <4>1, <4>2, <4>3 DEF Writers
    <3> QED BY <1>1, <1>2, <1>3, <3>1, <3>2, <3>3, <3>4 DEF ReaderInv
  <2>3. CASE \E size \in Sizes : CursorAdvance(size)
    <3>1. PICK size \in Sizes : CursorAdvance(size)
      BY <2>3
    <3>2. size \in Nat
      BY SizeRange
    <3>3. /\ tail <= commitPos /\ commitPos <= pos /\ pos <= limit /\ limit <= head
      BY <3>1 DEF ReaderInv, CursorAdvance
    <3>4. pos' = pos + size /\ pos' <= limit
      BY <1>3, <3>1, <3>2, <3>3 DEF CursorAdvance, U32
    <3> QED BY <1>1, <1>2, <1>3, <3>1, <3>2, <3>3, <3>4 DEF CursorAdvance, ReaderInv
  <2>4. CASE CursorCommit
    BY <1>1, <1>2, <1>3, <2>4 DEF CursorCommit, ReaderInv
  <2>5. CASE ReadFinish \/ ReadCancel
    BY <2>5 DEF ReadFinish, ReadCancel, EndRead, ReaderInv
  <2> QED BY <2>1, <2>2, <2>3, <2>4, <2>5 DEF ReaderStep
<1> QED BY <1>5, <1>6, <1>7, <1>8, <1>9

\* Only _mpsc_ring_copy leads to the second memcpy, and only with a leftover.
LEMMA CopyLeftKept ==
    ASSUME TypeOK, CopyLeftInv, [Next]_vars
    PROVE  CopyLeftInv'
<1> SUFFICES ASSUME NEW v \in Writers, wpc'[v] = "copyleft"
             PROVE  SizeContig(whead'[v], wsize'[v]) # wsize'[v]
  BY DEF CopyLeftInv, SizeContig
<1> USE DEF TypeOK, CopyLeftInv, wvars, cvars
<1>1. ASSUME NEW w \in Writers, WriteCopy(w)
      PROVE  SizeContig(whead'[v], wsize'[v]) # wsize'[v]
  BY <1>1 DEF WriteCopy
<1>2. CASE wpc'[v] = wpc[v] /\ whead'[v] = whead[v] /\ wsize'[v] = wsize[v]
  BY <1>2
<1>3. ASSUME NEW w \in Writers, WriterStep(w), ~ WriteCopy(w)
      PROVE  wpc'[v] = wpc[v] /\ whead'[v] = whead[v] /\ wsize'[v] = wsize[v]
  BY <1>3 DEF WriterStep, WriteStart, WriteGiveUp, WriteHold, WriteCas, WriteCasFail,
              WriteCopyLeft, WriteRelease
<1>4. CASE ReaderStep
  BY <1>2, <1>4 DEF ReaderStep, ReadStart, ReadScan, CursorAdvance, CursorCommit,
                    ReadFinish, ReadCancel, EndRead
<1>5. CASE UNCHANGED vars
  BY <1>2, <1>5 DEF vars
<1> QED BY <1>1, <1>2, <1>3, <1>4, <1>5 DEF Next

\* Every step of a writer or of the reader that leaves the cursor ordered keeps
\* the invariant.
LEMMA RingInductive ==
    ASSUME RingInv, CopyLeftInv, [OrderedNext]_vars
    PROVE  RingInv' /\ CopyLeftInv'
<1>1. [Next]_vars /\ TypeOK
  BY DEF OrderedNext, RingInv
<1>2. TypeOK' /\ CopyLeftInv'
  BY <1>1, NextType, CopyLeftKept
<1>3. ASSUME UNCHANGED vars PROVE RingInv'
  <2>1. \A w \in Writers : Owns(w)' = Owns(w) /\ Uncopied(w)' = Uncopied(w)
    BY <1>3, UncopiedKept DEF vars, Owns
  <2>2. SpaceInv' /\ DisjointInv' /\ ReaderInv'
    BY <1>3, <2>1 DEF vars, RingInv, SpaceInv, DisjointInv, ReaderInv
  <2>3. WriterInv'
    BY <1>3, <2>1 DEF vars, RingInv, WriterInv, WriterOK
  <2>4. UnreadIntact'
    BY <1>3, <2>1 DEF vars, RingInv, UnreadIntact, Written
  <2> QED BY <1>2, <2>2, <2>3, <2>4 DEF RingInv
<1>4. ASSUME OrderedNext PROVE RingInv'
  <2>1. ASSUME NEW w \in Writers, WriterStep(w) PROVE RingInv'
    <3>1. CASE WriteCas(w)
      BY <1>2, <1>4, <3>1, CasStep
    <3>2. CASE WriteCopy(w)
      BY <1>2, <3>2, CopyStep
    <3>3. CASE WriteCopyLeft(w)
      BY <1>2, <3>3, CopyLeftStep DEF CopyLeftInv, WriteCopyLeft
    <3>4. CASE WriteRelease(w)
      BY <1>2, <3>4, ReleaseStep
    <3>5. CASE \/ \E size \in Sizes : WriteStart(w, size)
               \/ WriteGiveUp(w)
               \/ WriteHold(w)
               \/ WriteCasFail(w)
      BY <1>2, <1>4, <3>5, LoopStep
    <3> QED BY <2>1, <3>1, <3>2, <3>3, <3>4, <3>5 DEF WriterStep
  <2>2. CASE ReaderStep
    BY <1>2, <1>4, <2>2, ReaderStepInv
  <2> QED BY <1>4, <2>1, <2>2 DEF OrderedNext, Next
<1> QED BY <1>2, <1>3, <1>4

\* The invariant says what the runs check.
LEMMA RingConsequences ==
    ASSUME RingInv
    PROVE  CursorWindowWritten /\ ReservationsExclusive /\ UnreadIntact
<1> USE RingAssumption
<1>1. UnreadIntact
  BY DEF RingInv
<1>2. ReservationsExclusive
  <2>1. tail <= head /\ head - tail < Capacity
    BY DEF RingInv, SpaceInv
  <2>2. ASSUME NEW w \in Writers, Owns(w)
        PROVE  /\ holds[w] = whead[w]
               /\ Reservation(w) \subseteq tail .. head - 1
    <3>1. /\ whead[w] \in Nat /\ wsize[w] \in Nat /\ head \in Nat /\ tail \in Nat
          /\ holds[w] = whead[w] /\ tail <= whead[w] /\ whead[w] + wsize[w] <= head
      BY <2>2, WriterFacts DEF Owns
    <3> QED BY <3>1 DEF Reservation
  <2>3. ASSUME NEW w \in Writers, NEW v \in Writers \ {w}, Owns(v), Owns(w)
        PROVE  Reservation(v) \cap Reservation(w) = {}
    <3>1. /\ whead[w] \in Nat /\ wsize[w] \in Nat /\ whead[v] \in Nat /\ wsize[v] \in Nat
      BY <2>3, WriterFacts DEF Owns
    <3>2. whead[v] + wsize[v] <= whead[w] \/ whead[w] + wsize[w] <= whead[v]
      BY <2>3 DEF RingInv, DisjointInv
    <3> QED BY <3>1, <3>2 DEF Reservation
  <2> QED BY <2>1, <2>2, <2>3 DEF ReservationsExclusive
<1>3. CursorWindowWritten
  <2> SUFFICES ASSUME rpc = "cursor", NEW k \in 0 .. U32(limit - pos) - 1
               PROVE  Written(U32(pos + k))
    BY DEF CursorWindowWritten
  <2>1. /\ tail \in Nat /\ pos \in Nat /\ limit \in Nat /\ head \in Nat
        /\ tail <= commitPos /\ commitPos <= pos /\ pos <= limit /\ limit <= head
        /\ head < OffsetSpan /\ commitPos \in Nat
    BY DEF RingInv, TypeOK, ReaderInv, Offsets
  <2>2. U32(limit - pos) = limit - pos
    BY <2>1 DEF U32
  <2>3. k \in Nat /\ pos + k < limit /\ U32(pos + k) = pos + k
    BY <2>1, <2>2 DEF U32
  <2>4. pos + k \in tail .. head - 1
    BY <2>1, <2>3
  <2>5. \A w \in Writers : pos + k \notin Uncopied(w)
    <3> SUFFICES ASSUME NEW w \in Writers, pos + k \in Uncopied(w) PROVE FALSE
      OBVIOUS
    <3>1. Owns(w)
      BY UncopiedNone DEF Owns
    <3>2. limit <= whead[w] /\ whead[w] \in Nat /\ wsize[w] \in Sizes \cup {0}
          /\ whead[w] \in Offsets
      BY <3>1, WriterFacts DEF RingInv, ReaderInv, Owns
    <3>3. SizeContig(whead[w], wsize[w]) \in 0 .. wsize[w] /\ wsize[w] \in Nat
      BY <3>2, ContigRange
    <3>4. whead[w] <= pos + k
      BY <3>1, <3>2, <3>3 DEF Uncopied, Reservation, Owns
    <3> QED BY <2>1, <2>3, <3>2, <3>4
  <2> QED BY <1>1, <2>3, <2>4, <2>5 DEF UnreadIntact
<1> QED BY <1>1, <1>2, <1>3

\* The invariant holds throughout every ordered behaviour of the ring.
LEMMA RingAlways == OrderedSpec => [](RingInv /\ CopyLeftInv)
<1>1. Init => RingInv /\ CopyLeftInv
  BY InitInv DEF Init, CopyLeftInv
<1>2. RingInv /\ CopyLeftInv /\ [OrderedNext]_vars => RingInv' /\ CopyLeftInv'
  BY RingInductive
<1> QED BY <1>1, <1>2, PTL DEF OrderedSpec

\* mpsc_ring.c, "the reader only sees fully-written data", for any number of
\* writers and any capacity, as long as no stale hold disorders the cursor.
THEOREM ReaderSeesWrittenData == OrderedSpec => []CursorWindowWritten
<1>1. RingInv => CursorWindowWritten
  BY RingConsequences
<1> QED BY <1>1, RingAlways, PTL

\* "No other writer can interfere with their view into the region": what
\* mpsc_ring_write reserves is its alone and is not consumed before it is copied.
THEOREM WritersExclusive == OrderedSpec => []ReservationsExclusive
<1>1. RingInv => ReservationsExclusive
  BY RingConsequences
<1> QED BY <1>1, RingAlways, PTL

\* No byte mpsc_ring_write accepted is lost or overwritten before it is consumed.
THEOREM NothingLost == OrderedSpec => []UnreadIntact
<1>1. RingInv => UnreadIntact
  BY RingConsequences
<1> QED BY <1>1, RingAlways, PTL

-----------------------------------------------------------------------------
(* One writer: the hold is never older than tail *)

SoloInv ==
    /\ \A w \in Writers :
          /\ wpc[w] = "idle" => holds[w] = HOLD_EMPTY
          /\ wpc[w] \in {"check", "cas", "giveup"} =>
                whead[w] = head /\ holds[w] \in {HOLD_EMPTY, head}
    /\ rpc = "scan" => pos = tail

\* With one writer nobody else moves head while mpsc_ring_write is in its loop,
\* so its hold is always the present head or covers its own reservation.
LEMMA SoloWriter ==
    ASSUME WriterCount = 1, RingInv, SoloInv, NEW w \in Writers, WriterStep(w)
    PROVE  SoloInv'
<1>1. \A v \in Writers : v = w
  BY DEF Writers
<1>2. UNCHANGED <<tail, pos, rpc>>
  BY DEF WriterStep, WriteStart, WriteGiveUp, WriteHold, WriteCas, WriteCasFail, WriteCopy,
         WriteCopyLeft, WriteRelease, cvars
<1>3. /\ wpc'[w] = "idle" => holds'[w] = HOLD_EMPTY
      /\ wpc'[w] \in {"check", "cas", "giveup"} =>
            whead'[w] = head' /\ holds'[w] \in {HOLD_EMPTY, head'}
  BY DEF WriterStep, WriteStart, WriteGiveUp, WriteHold, WriteCas, WriteCasFail, WriteCopy,
         WriteCopyLeft, WriteRelease, SoloInv, RingInv, TypeOK
<1> QED BY <1>1, <1>2, <1>3 DEF SoloInv

\* The reader then meets no hold behind the cursor of mpsc_ring_read_start.
LEMMA SoloReader ==
    ASSUME RingInv, SoloInv, ReaderStep
    PROVE  SoloInv' /\ CursorOrdered'
<1> USE RingAssumption
<1>1. UNCHANGED <<head, holds, wpc, whead>>
  BY DEF ReaderStep, ReadStart, ReadScan, CursorAdvance, CursorCommit, ReadFinish,
         ReadCancel, EndRead, wvars
<1>2. /\ tail \in Nat /\ head \in Nat /\ pos \in Nat /\ commitPos \in Nat /\ limit \in Nat
      /\ head < OffsetSpan /\ rindex \in Writers /\ tail <= head
      /\ rpc # "idle" => tail <= pos /\ pos <= limit /\ limit <= head
  BY DEF RingInv, TypeOK, SpaceInv, ReaderInv, Offsets
<1>3. \A v \in Writers : holds[v] \in Nat /\ (holds[v] # HOLD_EMPTY => tail <= holds[v])
  <2> SUFFICES ASSUME NEW v \in Writers, holds[v] # HOLD_EMPTY PROVE tail <= holds[v]
    BY DEF RingInv, TypeOK, Offsets
  <2>1. CASE Owns(v)
    BY <2>1, WriterFacts DEF Owns
  <2>2. CASE ~ Owns(v)
    BY <2>2, <1>2 DEF Owns, SoloInv, RingInv, TypeOK
  <2> QED BY <2>1, <2>2
<1>4. SoloInv'
  BY <1>1 DEF SoloInv, ReaderStep, ReadStart, ReadScan, CursorAdvance, CursorCommit,
              ReadFinish, ReadCancel, EndRead
<1>5. CursorOrdered'
  <2>1. CASE ReadStart
    BY <2>1, <1>2 DEF ReadStart, CursorOrdered
  <2>2. CASE ReadScan
    BY <2>2, <1>2, <1>3 DEF ReadScan, CursorOrdered, SoloInv
  <2>3. ASSUME NEW size \in Sizes, CursorAdvance(size) PROVE CursorOrdered'
    <3>1. size \in Nat
      BY SizeRange
    <3> QED BY <2>3, <3>1, <1>2 DEF CursorAdvance, CursorOrdered, U32
  <2>4. CASE CursorCommit
    BY <2>4, <1>2 DEF CursorCommit, CursorOrdered
  <2>5. CASE ReadFinish \/ ReadCancel
    BY <2>5 DEF ReadFinish, ReadCancel, EndRead, CursorOrdered
  <2> QED BY <2>1, <2>2, <2>3, <2>4, <2>5 DEF ReaderStep
<1> QED BY <1>4, <1>5

\* With one writer every step of the first lap keeps the cursor ordered.
LEMMA SoloStep ==
    ASSUME WriterCount = 1, RingInv, SoloInv, [Next /\ FirstLap]_vars
    PROVE  SoloInv' /\ [OrderedNext]_vars
<1>1. CASE UNCHANGED vars
  BY <1>1 DEF vars, SoloInv
<1>2. ASSUME NEW w \in Writers, WriterStep(w), Next, FirstLap PROVE SoloInv' /\ OrderedNext
  <2>1. UNCHANGED <<rpc, pos, limit>>
    BY <1>2 DEF WriterStep, WriteStart, WriteGiveUp, WriteHold, WriteCas, WriteCasFail,
                WriteCopy, WriteCopyLeft, WriteRelease, cvars
  <2>2. CursorOrdered'
    BY <2>1, RingAssumption DEF RingInv, ReaderInv, TypeOK, Offsets, CursorOrdered
  <2> QED BY <1>2, <2>2, SoloWriter DEF OrderedNext
<1>3. ASSUME ReaderStep, Next, FirstLap PROVE SoloInv' /\ OrderedNext
  BY <1>3, SoloReader DEF OrderedNext
<1> QED BY <1>1, <1>2, <1>3 DEF Next

\* A ring with one writer (mpsc_ring_init with writer_count 1) never lets a hold
\* disorder the reader's cursor: on the first lap all of its behaviours are
\* ordered ones, and the data mpsc_ring_cursor_advance copies out is fully written.
THEOREM SingleWriterOrdered ==
    ASSUME WriterCount = 1
    PROVE  FirstLapSpec => []CursorWindowWritten
<1> DEFINE I == RingInv /\ CopyLeftInv /\ SoloInv
<1>1. Init => I
  BY InitInv DEF Init, CopyLeftInv, SoloInv
<1>2. I /\ [Next /\ FirstLap]_vars => I'
  BY SoloStep, RingInductive
<1>3. I => CursorWindowWritten
  BY RingConsequences
<1> QED BY <1>1, <1>2, <1>3, PTL DEF FirstLapSpec

=============================================================================
