----------------------------- MODULE MpscQueue -----------------------------
(***************************************************************************)
(* The lock-free multi-producer, single-consumer queue of                  *)
(* osfmk/kern/mpsc_queue.c, one action per access to shared memory.        *)
(*                                                                         *)
(* An enqueue exchanges the tail and only then links the element before    *)
(* it: in between, the list is broken, and the consumer waits for the link.*)
(***************************************************************************)
EXTENDS Naturals, Sequences, SequencesExt, FiniteSets

CONSTANTS
    Producers,
    Elements,
    MaxList,      \* longest list given to mpsc_queue_append_list
    HEAD,         \* the address of q->mpqh_head
    NULL,
    NOTQUEUED     \* MPSC_QUEUE_NOTQUEUED_MARKER

ASSUME QueueAssumption ==
    /\ HEAD \notin Elements \cup {NULL, NOTQUEUED}
    /\ NULL \notin Elements \cup {NOTQUEUED}
    /\ NOTQUEUED \notin Elements
    /\ IsFiniteSet(Elements)
    /\ MaxList \in Nat \ {0}

VARIABLES
    next,         \* mpqc_next of every chain, the queue head's included
    tail,         \* mpqh_tail
    ppc, pprev, pfirst,          \* a producer's step, its token, its first element
    cpc, chead, ctail, cur, tmp  \* the consumer's step, its batch, its loop variables

pvars == <<ppc, pprev, pfirst>>
cvars == <<cpc, chead, ctail, cur, tmp>>
vars  == <<next, tail, ppc, pprev, pfirst, cpc, chead, ctail, cur, tmp>>

Chains == Elements \cup {HEAD}

Lists == { s \in UNION { [1 .. n -> Elements] : n \in 1 .. MaxList } : IsInjective(s) }

\* mpsc_queue_init; no element is queued anywhere.
Init ==
    /\ next = [c \in Chains |-> IF c = HEAD THEN NULL ELSE NOTQUEUED]
    /\ tail = HEAD
    /\ ppc = [p \in Producers |-> "idle"]
    /\ pprev = [p \in Producers |-> NULL]
    /\ pfirst = [p \in Producers |-> NULL]
    /\ cpc = "idle" /\ chead = NULL /\ ctail = NULL /\ cur = NULL /\ tmp = NULL

-----------------------------------------------------------------------------
(* mpsc_queue_append_list, and mpsc_queue_append for a list of one *)

\* __mpsc_queue_append_update_tail, on a list formed beforehand.
AppendUpdateTail(p, list) ==
    /\ ppc[p] = "idle"
    /\ \A i \in 1 .. Len(list) : next[list[i]] = NOTQUEUED
    /\ next' = [c \in Chains |->
                  IF \E i \in 1 .. Len(list) : list[i] = c
                  THEN LET i == CHOOSE i \in 1 .. Len(list) : list[i] = c
                       IN  IF i = Len(list) THEN NULL ELSE list[i + 1]
                  ELSE next[c]]
    /\ tail' = list[Len(list)]
    /\ pprev' = [pprev EXCEPT ![p] = tail]
    /\ pfirst' = [pfirst EXCEPT ![p] = list[1]]
    /\ ppc' = [ppc EXCEPT ![p] = "link"]
    /\ UNCHANGED cvars

\* Mutant of AppendUpdatePrev: nothing is linked behind an empty queue's head.
AppendUpdatePrevNotFirst(p) ==
    /\ ppc[p] = "link"
    /\ next' = IF pprev[p] = HEAD THEN next ELSE [next EXCEPT ![pprev[p]] = pfirst[p]]
    /\ ppc' = [ppc EXCEPT ![p] = "idle"]
    /\ pprev' = [pprev EXCEPT ![p] = NULL]
    /\ pfirst' = [pfirst EXCEPT ![p] = NULL]
    /\ UNCHANGED <<tail, cvars>>

\* __mpsc_queue_append_update_prev
AppendUpdatePrev(p) ==
    /\ ppc[p] = "link"
    /\ next' = [next EXCEPT ![pprev[p]] = pfirst[p]]
    /\ ppc' = [ppc EXCEPT ![p] = "idle"]
    /\ pprev' = [pprev EXCEPT ![p] = NULL]
    /\ pfirst' = [pfirst EXCEPT ![p] = NULL]
    /\ UNCHANGED <<tail, cvars>>

-----------------------------------------------------------------------------
(* mpsc_queue_dequeue_batch *)

\* Mutant of DequeueLoadTail: the queue may be empty.
DequeueUnchecked ==
    /\ cpc = "idle"
    /\ cpc' = "loadhead"
    /\ UNCHANGED <<next, tail, pvars, chead, ctail, cur, tmp>>

\* The tail says whether there is anything; an empty queue returns NULL.
DequeueLoadTail ==
    /\ cpc = "idle"
    /\ tail # HEAD
    /\ cpc' = "loadhead"
    /\ UNCHANGED <<next, tail, pvars, chead, ctail, cur, tmp>>

\* Load the first element, spinning in _mpsc_queue_wait_for_enqueuer while NULL.
DequeueLoadHead ==
    /\ cpc = "loadhead"
    /\ next[HEAD] # NULL
    /\ chead' = next[HEAD]
    /\ cpc' = "clearhead"
    /\ UNCHANGED <<next, tail, pvars, ctail, cur, tmp>>

DequeueClearHead ==
    /\ cpc = "clearhead"
    /\ next' = [next EXCEPT ![HEAD] = NULL]
    /\ cpc' = "xchgtail"
    /\ UNCHANGED <<tail, pvars, chead, ctail, cur, tmp>>

DequeueXchgTail ==
    /\ cpc = "xchgtail"
    /\ ctail' = tail
    /\ tail' = HEAD
    /\ cur' = chead
    /\ cpc' = "batch"
    /\ UNCHANGED <<next, pvars, chead, tmp>>

-----------------------------------------------------------------------------
(* mpsc_queue_batch_foreach_safe *)

\* Mutant of BatchNext: it does not wait for the enqueuer.
BatchNextNoWait ==
    /\ cpc = "batch"
    /\ tmp' = IF cur = ctail THEN NULL ELSE next[cur]
    /\ cpc' = "invoke"
    /\ UNCHANGED <<next, tail, pvars, chead, ctail, cur>>

\* mpsc_queue_batch_next, waiting for the enqueuer of the following element.
BatchNext ==
    /\ cpc = "batch"
    /\ cur # ctail => next[cur] # NULL
    /\ tmp' = IF cur = ctail THEN NULL ELSE next[cur]
    /\ cpc' = "invoke"
    /\ UNCHANGED <<next, tail, pvars, chead, ctail, cur>>

\* Mutant of Invoke: the link is read again after the element was given away.
InvokeUnsafe ==
    /\ cpc = "invoke"
    /\ next' = [next EXCEPT ![cur] = NOTQUEUED]
    /\ IF tmp = NULL
       THEN cpc' = "idle" /\ chead' = NULL /\ ctail' = NULL /\ cur' = NULL
       ELSE cpc' = "batch" /\ cur' = next'[cur] /\ UNCHANGED <<chead, ctail>>
    /\ tmp' = NULL
    /\ UNCHANGED <<tail, pvars>>

\* The loop's body gives the element away: it may be queued again at once.
Invoke ==
    /\ cpc = "invoke"
    /\ next' = [next EXCEPT ![cur] = NOTQUEUED]
    /\ IF tmp = NULL
       THEN cpc' = "idle" /\ chead' = NULL /\ ctail' = NULL /\ cur' = NULL
       ELSE cpc' = "batch" /\ cur' = tmp /\ UNCHANGED <<chead, ctail>>
    /\ tmp' = NULL
    /\ UNCHANGED <<tail, pvars>>

-----------------------------------------------------------------------------
(* mpsc_queue_restore_batch(q, cur, ctail) *)

\* The elements from a to b along the links, pending ones of producers included.
Successor(c) ==
    IF \E p \in Producers : ppc[p] = "link" /\ pprev[p] = c
    THEN pfirst[CHOOSE p \in Producers : ppc[p] = "link" /\ pprev[p] = c]
    ELSE next[c]

ChainFrom(a, b) ==
    LET walk[n \in 0 .. Cardinality(Elements)] ==
            IF n = 0 THEN <<a>>
            ELSE LET s == walk[n - 1] IN
                 IF Last(s) \in {b, NULL, NOTQUEUED} THEN s
                 ELSE Append(s, Successor(Last(s)))
    IN  walk[Cardinality(Elements)]

\* "It is the responsibility of the caller to ensure the linkages from first to
\* last are properly set up": every link of the batch has been made.
RestoreStart ==
    /\ cpc = "batch"
    /\ \A p \in Producers :
          ppc[p] = "link" => pprev[p] \notin ToSet(ChainFrom(cur, ctail)) \ {ctail}
    /\ next' = [next EXCEPT ![ctail] = next[HEAD]]
    /\ cpc' = IF next[HEAD] = NULL THEN "restorecas" ELSE "restorehead"
    /\ UNCHANGED <<tail, pvars, chead, ctail, cur, tmp>>

\* Mutant of RestoreCas: a plain store.
RestoreStore ==
    /\ cpc = "restorecas"
    /\ tail' = ctail
    /\ cpc' = "restorehead"
    /\ UNCHANGED <<next, pvars, chead, ctail, cur, tmp>>

\* The compare-exchange of an empty queue's tail.
RestoreCas ==
    /\ cpc = "restorecas"
    /\ IF tail = HEAD
       THEN tail' = ctail /\ cpc' = "restorehead"
       ELSE UNCHANGED tail /\ cpc' = "restorewait"
    /\ UNCHANGED <<next, pvars, chead, ctail, cur, tmp>>

\* Mutant of RestoreWait: it waits on the wrong chain.
RestoreWaitTail ==
    /\ cpc = "restorewait"
    /\ next[ctail] # NULL
    /\ cpc' = "restorehead"
    /\ UNCHANGED <<next, tail, pvars, chead, ctail, cur, tmp>>

\* It lost against an enqueuer: wait for its link and put it behind the batch.
RestoreWait ==
    /\ cpc = "restorewait"
    /\ next[HEAD] # NULL
    /\ next' = [next EXCEPT ![ctail] = next[HEAD]]
    /\ cpc' = "restorehead"
    /\ UNCHANGED <<tail, pvars, chead, ctail, cur, tmp>>

RestoreHead ==
    /\ cpc = "restorehead"
    /\ next' = [next EXCEPT ![HEAD] = cur]
    /\ cpc' = "idle"
    /\ chead' = NULL /\ ctail' = NULL /\ cur' = NULL
    /\ UNCHANGED <<tail, pvars, tmp>>

-----------------------------------------------------------------------------
ProducerStep(p) ==
    \/ \E list \in Lists : AppendUpdateTail(p, list)
    \/ AppendUpdatePrev(p)

DequeueStep == DequeueLoadTail \/ DequeueLoadHead \/ DequeueClearHead \/ DequeueXchgTail
BatchStep   == BatchNext \/ Invoke
RestoreStep == RestoreStart \/ RestoreCas \/ RestoreWait \/ RestoreHead

Next == (\E p \in Producers : ProducerStep(p)) \/ DequeueStep \/ BatchStep \/ RestoreStep

\* Enqueuers run with preemption disabled until the link is made, and the
\* consumer is a scheduled thread that finishes the call it has started.
Fairness ==
    /\ \A p \in Producers : WF_vars(AppendUpdatePrev(p))
    /\ WF_vars(DequeueStep)
    /\ WF_vars(RestoreCas \/ RestoreWait \/ RestoreHead)
    /\ WF_vars(BatchStep)

Spec == Init /\ [][Next]_vars /\ Fairness

-----------------------------------------------------------------------------
(* Properties *)

\* Pointers stay pointers: to a chain, NULL or the not-queued marker.
TypeOK ==
    /\ next \in [Chains -> Elements \cup {NULL, NOTQUEUED}]
    /\ tail \in Chains
    /\ ppc \in [Producers -> {"idle", "link"}]
    /\ pprev \in [Producers -> Chains \cup {NULL}]
    /\ pfirst \in [Producers -> Elements \cup {NULL}]
    /\ cpc \in {"idle", "loadhead", "clearhead", "xchgtail", "batch", "invoke",
                "restorecas", "restorewait", "restorehead"}
    /\ chead \in Elements \cup {NULL}
    /\ ctail \in Elements \cup {NULL}
    /\ cur \in Elements \cup {NULL}
    /\ tmp \in Elements \cup {NULL}

\* A producer that has taken its place and not linked it yet writes only to a
\* chain that still waits for that link: never to an element the consumer has
\* given away (which its owner may have freed), nor over another's link.
LateLinkSafe ==
    \A p \in Producers : ppc[p] = "link" =>
        /\ next[pprev[p]] = NULL
        /\ \A r \in Producers \ {p} : ppc[r] = "link" => pprev[r] # pprev[p]

\* _mpsc_queue_wait_for_enqueuer spins only while some enqueuer is between its
\* two halves, about to store to the very word being waited on.
WaitHasEnqueuer ==
    LET LinkPending(c) == \E p \in Producers : ppc[p] = "link" /\ pprev[p] = c IN
    /\ cpc \in {"loadhead", "restorewait"} /\ next[HEAD] = NULL => LinkPending(HEAD)
    /\ cpc = "batch" /\ cur # ctail /\ next[cur] = NULL => LinkPending(cur)

\* Where the queue proper starts: at what the consumer has picked up and is
\* about to take, or behind a batch being restored, or at the head.
QueueNow ==
    IF tail = HEAD THEN <<>>
    ELSE IF cpc = "xchgtail" THEN ChainFrom(chead, tail)
    ELSE IF cpc = "restorehead"
         THEN IF tail = ctail THEN <<>> ELSE ChainFrom(Successor(ctail), tail)
    ELSE ChainFrom(Successor(HEAD), tail)

BatchNow ==
    IF cpc \in {"batch", "invoke", "restorecas", "restorewait", "restorehead"}
    THEN ChainFrom(cur, ctail) ELSE <<>>

Fifo == INSTANCE MpscFifo WITH queue <- QueueNow, batch <- BatchNow

\* The pointer operations implement the abstract queue: no element is lost,
\* duplicated or reordered, through the broken-list window, dequeue and restore.
ImplementsFifo == Fifo!Spec

\* A dequeue of a non-empty queue ends with a batch although enqueuers break
\* the list under it; a restore ends too.
DequeueEnds == cpc = "loadhead" ~> cpc = "batch"
RestoreEnds == cpc = "restorecas" ~> cpc = "idle"
=============================================================================
