------------------------------ MODULE MpscRing ------------------------------
(***************************************************************************)
(* The multi-producer, single-consumer byte ring of osfmk/kern/mpsc_ring.c.*)
(*                                                                         *)
(* Writers are CPUs, each with an entry in mr_writer_holds; the reader is  *)
(* whoever holds the client's read lock.  One action is one access to      *)
(* shared memory: the 64-bit word mr_head_tail, a hold, or one memcpy into *)
(* the buffer.  Memory is sequentially consistent.                         *)
(*                                                                         *)
(* A byte's value is abstracted to the ring offset it was written for, so  *)
(* slot o % Capacity holds the byte of offset o exactly when it contains o.*)
(***************************************************************************)
EXTENDS Integers

CONSTANTS
    WriterCount,  \* mr_writer_count
    Capacity,     \* mr_capacity
    OffsetSpan,   \* number of values of an offset: 2^32 in the code
    Sizes         \* the sizes callers write and read

ASSUME RingAssumption ==
    /\ WriterCount \in Nat \ {0}
    /\ Capacity \in Nat \ {0}
    /\ OffsetSpan \in Nat
    /\ OffsetSpan > 2 * Capacity
    /\ OffsetSpan % Capacity = 0
    /\ Sizes \subseteq 1 .. (OffsetSpan - Capacity)

Writers == 0 .. WriterCount - 1
Offsets == 0 .. OffsetSpan - 1
Slots   == 0 .. Capacity - 1

\* Mutant of HOLD_EMPTY: ~0 kept as an int.
HoldEmptyInt == -1

\* #define HOLD_EMPTY (~0), stored in a uint32_t
HOLD_EMPTY == OffsetSpan - 1

\* What kalloc_data_tag(Z_ZERO) leaves in a slot: no offset's byte.
ZEROED == -1

\* uint32_t arithmetic on a sum or difference of two or three offsets.
U32(x) == IF x >= OffsetSpan THEN x - OffsetSpan
          ELSE IF x < 0 THEN x + OffsetSpan ELSE x

VARIABLES
    head, tail,   \* mrht_head, mrht_tail: the halves of mr_head_tail
    holds,        \* mr_writer_holds
    buffer,       \* mr_buffer
    wpc, whead, wtail, wsize,       \* each writer's step, its copy of mr_head_tail, its size
    rpc, rindex, commitPos, pos, limit  \* the reader's step, its scan index, its cursor

wvars == <<wpc, whead, wtail, wsize>>
cvars == <<commitPos, pos, limit>>
vars  == <<head, tail, holds, buffer, wpc, whead, wtail, wsize,
           rpc, rindex, commitPos, pos, limit>>

-----------------------------------------------------------------------------
\* mpsc_ring_init
Init ==
    /\ head = 0 /\ tail = 0
    /\ holds = [w \in Writers |-> HOLD_EMPTY]
    /\ buffer = [i \in Slots |-> ZEROED]
    /\ wpc = [w \in Writers |-> "idle"]
    /\ whead = [w \in Writers |-> 0]
    /\ wtail = [w \in Writers |-> 0]
    /\ wsize = [w \in Writers |-> 0]
    /\ rpc = "idle" /\ rindex = 0
    /\ commitPos = 0 /\ pos = 0 /\ limit = 0

-----------------------------------------------------------------------------
(* mpsc_ring_write *)

\* The load that os_atomic_rmw_loop starts with (it repeats the one before it).
WriteStart(w, size) ==
    /\ wpc[w] = "idle"
    /\ wsize' = [wsize EXCEPT ![w] = size]
    /\ whead' = [whead EXCEPT ![w] = head]
    /\ wtail' = [wtail EXCEPT ![w] = tail]
    /\ wpc' = [wpc EXCEPT ![w] = "check"]
    /\ UNCHANGED <<head, tail, holds, buffer, rpc, rindex, cvars>>

Leftover(w) == U32(whead[w] + wsize[w] - wtail[w])

\* Not enough room in the copy of mr_head_tail: leave the loop.
WriteGiveUp(w) ==
    /\ wpc[w] = "check"
    /\ Leftover(w) >= Capacity
    /\ wpc' = [wpc EXCEPT ![w] = "giveup"]
    /\ UNCHANGED <<head, tail, holds, buffer, whead, wtail, wsize, rpc, rindex, cvars>>

\* Mutant of WriteHold: no hold is taken.
WriteHoldMissing(w) ==
    /\ wpc[w] = "check"
    /\ Leftover(w) < Capacity
    /\ wpc' = [wpc EXCEPT ![w] = "cas"]
    /\ UNCHANGED <<head, tail, holds, buffer, whead, wtail, wsize, rpc, rindex, cvars>>

\* Room: reserve the start of the space with a hold.
WriteHold(w) ==
    /\ wpc[w] = "check"
    /\ Leftover(w) < Capacity
    /\ holds' = [holds EXCEPT ![w] = whead[w]]
    /\ wpc' = [wpc EXCEPT ![w] = "cas"]
    /\ UNCHANGED <<head, tail, buffer, whead, wtail, wsize, rpc, rindex, cvars>>

\* Mutant of WriteCas: a plain store.
WriteCasUnchecked(w) ==
    /\ wpc[w] = "cas"
    /\ head' = U32(whead[w] + wsize[w])
    /\ wpc' = [wpc EXCEPT ![w] = "copy"]
    /\ UNCHANGED <<tail, holds, buffer, whead, wtail, wsize, rpc, rindex, cvars>>

\* The compare-exchange moves head over the reserved bytes.
WriteCas(w) ==
    /\ wpc[w] = "cas"
    /\ head = whead[w] /\ tail = wtail[w]
    /\ head' = U32(whead[w] + wsize[w])
    /\ wpc' = [wpc EXCEPT ![w] = "copy"]
    /\ UNCHANGED <<tail, holds, buffer, whead, wtail, wsize, rpc, rindex, cvars>>

\* It fails, spuriously perhaps (it is the weak form), and reloads.
WriteCasFail(w) ==
    /\ wpc[w] = "cas"
    /\ whead' = [whead EXCEPT ![w] = head]
    /\ wtail' = [wtail EXCEPT ![w] = tail]
    /\ wpc' = [wpc EXCEPT ![w] = "check"]
    /\ UNCHANGED <<head, tail, holds, buffer, wsize, rpc, rindex, cvars>>

\* memcpy of n bytes, the first being offset `first`'s, to slot `at` and on.
Memcpy(at, n, first) ==
    [i \in Slots |-> IF at <= i /\ i < at + n THEN U32(first + (i - at)) ELSE buffer[i]]

\* Mutant of SizeContig: the offset's place in the buffer is forgotten.
SizeContigFlat(offset, size) == IF Capacity < size THEN Capacity ELSE size

SizeContig(offset, size) ==
    LET leftContig == Capacity - (offset % Capacity)
    IN  IF leftContig < size THEN leftContig ELSE size

\* _mpsc_ring_copy: the bytes up to the end of the buffer ...
WriteCopy(w) ==
    LET contig == SizeContig(whead[w], wsize[w]) IN
    /\ wpc[w] = "copy"
    /\ buffer' = Memcpy(whead[w] % Capacity, contig, whead[w])
    /\ wpc' = [wpc EXCEPT ![w] = IF contig # wsize[w] THEN "copyleft" ELSE "release"]
    /\ UNCHANGED <<head, tail, holds, whead, wtail, wsize, rpc, rindex, cvars>>

\* ... and the leftover at its start.
WriteCopyLeft(w) ==
    LET contig == SizeContig(whead[w], wsize[w]) IN
    /\ wpc[w] = "copyleft"
    /\ buffer' = Memcpy(0, wsize[w] - contig, U32(whead[w] + contig))
    /\ wpc' = [wpc EXCEPT ![w] = "release"]
    /\ UNCHANGED <<head, tail, holds, whead, wtail, wsize, rpc, rindex, cvars>>

\* out: drop the hold and return the space seen, of which the ring makes no further
\* use; the writer's locals are dead.
WriteRelease(w) ==
    /\ wpc[w] \in {"giveup", "release"}
    /\ holds' = [holds EXCEPT ![w] = HOLD_EMPTY]
    /\ wpc' = [wpc EXCEPT ![w] = "idle"]
    /\ whead' = [whead EXCEPT ![w] = 0]
    /\ wtail' = [wtail EXCEPT ![w] = 0]
    /\ wsize' = [wsize EXCEPT ![w] = 0]
    /\ UNCHANGED <<head, tail, buffer, rpc, rindex, cvars>>

-----------------------------------------------------------------------------
(* The single reader *)

\* mpsc_ring_read_start: the load of mr_head_tail ...
ReadStart ==
    /\ rpc = "idle"
    /\ commitPos' = tail /\ pos' = tail /\ limit' = head
    /\ rindex' = 0
    /\ rpc' = "scan"
    /\ UNCHANGED <<head, tail, holds, buffer, wvars>>

\* ... and one turn of its loop over the holds; the last yields the cursor.
ReadScan ==
    LET hold == holds[rindex] IN
    /\ rpc = "scan"
    /\ limit' = IF hold # HOLD_EMPTY /\ hold < limit THEN hold ELSE limit
    /\ rindex' = IF rindex + 1 = WriterCount THEN 0 ELSE rindex + 1
    /\ rpc' = IF rindex + 1 = WriterCount THEN "cursor" ELSE "scan"
    /\ UNCHANGED <<head, tail, holds, buffer, wvars, commitPos, pos>>

\* mpsc_ring_cursor_advance; a refusal changes nothing.
CursorAdvance(size) ==
    /\ rpc = "cursor"
    /\ size <= U32(limit - pos)
    /\ pos' = U32(pos + size)
    /\ UNCHANGED <<head, tail, holds, buffer, wvars, rpc, rindex, commitPos, limit>>

\* mpsc_ring_cursor_commit
CursorCommit ==
    /\ rpc = "cursor"
    /\ commitPos' = pos
    /\ UNCHANGED <<head, tail, holds, buffer, wvars, rpc, rindex, pos, limit>>

EndRead ==
    /\ rpc = "cursor"
    /\ rpc' = "idle"
    /\ commitPos' = 0 /\ pos' = 0 /\ limit' = 0
    /\ UNCHANGED <<head, holds, buffer, wvars, rindex>>

\* mpsc_ring_read_finish
ReadFinish == EndRead /\ tail' = commitPos

\* mpsc_ring_read_cancel
ReadCancel == EndRead /\ UNCHANGED tail

-----------------------------------------------------------------------------
WriterStep(w) ==
    \/ \E size \in Sizes : WriteStart(w, size)
    \/ WriteGiveUp(w)
    \/ WriteHold(w)
    \/ WriteCas(w)
    \/ WriteCasFail(w)
    \/ WriteCopy(w)
    \/ WriteCopyLeft(w)
    \/ WriteRelease(w)

ReaderStep ==
    \/ ReadStart
    \/ ReadScan
    \/ \E size \in Sizes : CursorAdvance(size)
    \/ CursorCommit
    \/ ReadFinish
    \/ ReadCancel

Next == (\E w \in Writers : WriterStep(w)) \/ ReaderStep

Spec == Init /\ [][Next]_vars

\* The ring's first lap of offsets: head is short of HOLD_EMPTY and never wraps.
FirstLap == head' >= head /\ head' < HOLD_EMPTY

FirstLapSpec == Init /\ [][Next /\ FirstLap]_vars

\* No hold older than tail has pulled the cursor's limit behind its position.
CursorOrdered == rpc # "idle" => limit >= pos

\* Behaviours in which the reader never meets such a hold.
OrderedNext == Next /\ FirstLap /\ CursorOrdered'

OrderedSpec == Init /\ [][OrderedNext]_vars

-----------------------------------------------------------------------------
(* Properties *)

\* Every variable of the ring, of a writer and of the reader stays in its C type.
TypeOK ==
    /\ head \in Offsets /\ tail \in Offsets
    /\ holds \in [Writers -> Offsets]
    /\ buffer \in [Slots -> Offsets \cup {ZEROED}]
    /\ wpc \in [Writers -> {"idle", "check", "giveup", "cas", "copy", "copyleft", "release"}]
    /\ whead \in [Writers -> Offsets]
    /\ wtail \in [Writers -> Offsets]
    /\ wsize \in [Writers -> Sizes \cup {0}]
    /\ rpc \in {"idle", "scan", "cursor"}
    /\ rindex \in Writers
    /\ commitPos \in Offsets /\ pos \in Offsets /\ limit \in Offsets

Written(o) == buffer[o % Capacity] = o

\* mpsc_ring.c: "the reader only sees fully-written data".  Every byte that
\* mpsc_ring_cursor_advance would copy out for the present cursor has been
\* copied in for that offset, and nothing has overwritten it since.
CursorWindowWritten ==
    rpc = "cursor" =>
        \A k \in 0 .. U32(limit - pos) - 1 : Written(U32(pos + k))

\* A writer whose compare-exchange has succeeded owns [whead, whead + wsize).
Owns(w) == wpc[w] \in {"copy", "copyleft", "release"}
Reservation(w) == whead[w] .. whead[w] + wsize[w] - 1

\* "No other writer can interfere with their view into the region": the
\* reservations in progress are disjoint, still covered by their holds, in front
\* of what the reader has consumed, and all the live bytes fit the buffer.
ReservationsExclusive ==
    /\ tail <= head /\ head - tail < Capacity
    /\ \A w \in Writers : Owns(w) =>
        /\ holds[w] = whead[w]
        /\ Reservation(w) \subseteq tail .. head - 1
        /\ \A v \in Writers \ {w} :
              Owns(v) => Reservation(v) \cap Reservation(w) = {}

\* The offsets whose bytes writer w has reserved and not yet copied in.
Uncopied(w) ==
    CASE wpc[w] = "copy" -> Reservation(w)
      [] wpc[w] = "copyleft" ->
            whead[w] + SizeContig(whead[w], wsize[w]) .. whead[w] + wsize[w] - 1
      [] OTHER -> {}

\* No write is lost or overwritten before the reader has consumed it: every
\* byte between tail and head is in the buffer or still being copied by its owner.
UnreadIntact ==
    \A o \in tail .. head - 1 : Written(o) \/ \E w \in Writers : o \in Uncopied(w)
=============================================================================
