----------------------------- MODULE EpochSync -----------------------------
(***************************************************************************)
(* Epoch synchronization (osfmk/kern/epoch_sync.c): threads block on an id *)
(* whose memory the kernel cannot read, and an epoch tells a wait that its *)
(* wake has already happened.  A backing object per id lives in a hash     *)
(* table while somebody waits on it.                                       *)
(*                                                                         *)
(* All ids fall into one bucket and share one counter, the case with most  *)
(* interference.  A section under es_lock is one step, except where its    *)
(* owner still holds the bucket lock.  Priority inheritance is left out.   *)
(***************************************************************************)
EXTENDS Naturals, FiniteSets, FiniteSetsExt

CONSTANTS
    Threads,
    Ids,
    Objects,      \* addresses kalloc may return: a set of integers
    MaxEpoch,     \* bound: the clients' wakes on one id
    INVALID,      \* ES_INVALID_ID
    None

ASSUME EpochAssumption ==
    /\ INVALID \notin Ids
    /\ None \notin Threads \cup Objects \cup Ids
    /\ MaxEpoch \in Nat
    /\ IsFiniteSet(Threads)
    /\ Objects \subseteq Nat /\ IsFiniteSet(Objects)
    /\ Cardinality(Objects) >= 2 * Cardinality(Threads)

VARIABLES
    obj,          \* the backing objects
    bucket,       \* the owner of htb_lock
    counter,      \* the server's epoch counter
    call,         \* what each thread is doing inside esync_wait or esync_wake
    epochs,       \* the clients' epoch of every id
    seen,         \* the epoch and id a client has read or made for its next call
    handled,      \* the last epoch of every id whose wake left nobody to wake
    failed        \* an assertion failed

vars == <<obj, bucket, counter, call, epochs, seen, handled, failed>>

\* Memory that is not allocated.
Unused == [id |-> INVALID, refs |-> 0, linked |-> FALSE, lock |-> None, live |-> FALSE]

Idle == [pc |-> "idle", id |-> INVALID, epoch |-> 0, mode |-> "WAIT", who |-> None,
         sync |-> None, new |-> None]

Init ==
    /\ obj = [o \in Objects |-> Unused]
    /\ bucket = None
    /\ counter = 0
    /\ call = [t \in Threads |-> Idle]
    /\ epochs = [i \in Ids |-> 0]
    /\ seen = [t \in Threads |-> None]
    /\ handled = [i \in Ids |-> 0]
    /\ failed = FALSE

-----------------------------------------------------------------------------
(* Entering a call *)

\* esync_alloc.
EsyncAlloc(id) == [id |-> id, refs |-> 1, linked |-> FALSE, lock |-> None, live |-> TRUE]

\* esync_wait up to ht_put: esync_alloc gives the call an object of its own.
EsyncWait(t, id, epoch) ==
    LET new == Min({ o \in Objects : ~obj[o].live })
    IN  /\ obj' = [obj EXCEPT ![new] = EsyncAlloc(id)]
        /\ call' = [call EXCEPT ![t] = [Idle EXCEPT !.pc = "bucket", !.id = id,
                                                    !.epoch = epoch, !.new = new]]
        /\ UNCHANGED <<bucket, counter, handled, failed>>

\* Mutant of UpdateEpoch: the counter is compared but never moved.
UpdateEpochNot(epoch) == counter

\* esync_update_epoch.
UpdateEpoch(epoch) == IF counter > epoch THEN counter ELSE epoch

\* esync_wake up to ht_get: the epoch is always updated, before the lookup.
EsyncWake(t, id, epoch, mode, who) ==
    /\ counter' = UpdateEpoch(epoch)
    /\ call' = [call EXCEPT ![t] = [Idle EXCEPT !.pc = "bucket", !.id = id,
                                    !.epoch = epoch, !.mode = mode, !.who = who]]
    /\ UNCHANGED <<obj, bucket, handled, failed>>

-----------------------------------------------------------------------------
(* ht_put and ht_get *)

LockBucket(t) ==
    /\ call[t].pc = "bucket" /\ bucket = None
    /\ bucket' = t
    /\ call' = [call EXCEPT ![t].pc = "probe"]
    /\ UNCHANGED <<obj, counter, epochs, seen, handled, failed>>

Matching(t) == { o \in Objects : obj[o].linked /\ obj[o].id = call[t].id }

\* An element whose es_id matches, read without its lock.
ProbeMatch(t) ==
    /\ call[t].pc = "probe"
    /\ \E o \in Matching(t) : call' = [call EXCEPT ![t].pc = "elem", ![t].sync = o]
    /\ UNCHANGED <<obj, bucket, counter, epochs, seen, handled, failed>>

\* No element: a wait inserts its own object, locked ...
ProbeInsert(t) ==
    LET o == call[t].new IN
    /\ call[t].pc = "probe" /\ call[t].mode = "WAIT" /\ Matching(t) = {}
    /\ obj' = [obj EXCEPT ![o].linked = TRUE, ![o].lock = t]
    /\ bucket' = None
    /\ call' = [call EXCEPT ![t].pc = "locked", ![t].sync = o, ![t].new = None]
    /\ UNCHANGED <<counter, epochs, seen, handled, failed>>

\* ... and a wake returns KERN_NOT_WAITING.
ProbeNone(t) ==
    /\ call[t].pc = "probe" /\ call[t].mode # "WAIT" /\ Matching(t) = {}
    /\ bucket' = None
    /\ call' = [call EXCEPT ![t] = Idle]
    /\ handled' = [handled EXCEPT ![call[t].id] = Max({@, call[t].epoch})]
    /\ UNCHANGED <<obj, counter, epochs, seen, failed>>

\* Mutant of LockElem: the id is not looked at again under the lock.
LockElemUnchecked(t) ==
    LET o == call[t].sync IN
    /\ call[t].pc = "elem" /\ obj[o].lock = None
    /\ obj' = [obj EXCEPT ![o].lock = t]
    /\ bucket' = None
    /\ call' = [call EXCEPT ![t].pc = "locked"]
    /\ UNCHANGED <<counter, epochs, seen, handled, failed>>

\* The id is looked at again under es_lock; when it has gone, the search goes on.
LockElem(t) ==
    LET o == call[t].sync IN
    /\ call[t].pc = "elem" /\ obj[o].lock = None
    /\ IF obj[o].id = call[t].id
       THEN /\ obj' = [obj EXCEPT ![o].lock = t]
            /\ bucket' = None
            /\ call' = [call EXCEPT ![t].pc = "locked"]
       ELSE /\ call' = [call EXCEPT ![t].pc = "probe", ![t].sync = None]
            /\ UNCHANGED <<obj, bucket>>
    /\ UNCHANGED <<counter, epochs, seen, handled, failed>>

-----------------------------------------------------------------------------
(* The sections under es_lock *)

\* os_ref_release_last and esync_free of the object the call did not need.
FreeNew(objs, t) ==
    [o \in Objects |-> IF o = call[t].new THEN Unused ELSE objs[o]]

\* Mutant of Put: the object keeps its id until it is out of the table.
PutKeepsId(t, o, refs) ==
    IF refs = 2
    THEN /\ obj' = [obj EXCEPT ![o].refs = refs, ![o].lock = None]
         /\ call' = [call EXCEPT ![t].pc = "remove"]
         /\ UNCHANGED failed
    ELSE /\ obj' = FreeNew([obj EXCEPT ![o].refs = refs - 1, ![o].lock = None], t)
         /\ call' = [call EXCEPT ![t] = Idle]
         /\ failed' = (failed \/ refs < 3)

\* esync_put, with refs references: the last user but the table hides the object
\* before it drops the lock; another user just leaves.
Put(t, o, refs) ==
    IF refs = 2
    THEN /\ obj' = [obj EXCEPT ![o].id = INVALID, ![o].refs = refs, ![o].lock = None]
         /\ call' = [call EXCEPT ![t].pc = "remove"]
         /\ UNCHANGED failed
    ELSE /\ obj' = FreeNew([obj EXCEPT ![o].refs = refs - 1, ![o].lock = None], t)
         /\ call' = [call EXCEPT ![t] = Idle]
         /\ failed' = (failed \/ refs < 3)

\* esync_wait with the object: a stale epoch leaves at once ...
WaitStale(t) ==
    LET o == call[t].sync IN
    /\ call[t].pc = "locked" /\ call[t].mode = "WAIT" /\ counter > call[t].epoch
    /\ Put(t, o, obj[o].refs + 1)
    /\ UNCHANGED <<bucket, counter, epochs, seen, handled>>

\* ... and a fresh one blocks.
WaitBlock(t) ==
    LET o == call[t].sync IN
    /\ call[t].pc = "locked" /\ call[t].mode = "WAIT" /\ counter <= call[t].epoch
    /\ counter' = UpdateEpoch(call[t].epoch)
    /\ obj' = [obj EXCEPT ![o].refs = @ + 1, ![o].lock = None]
    /\ call' = [call EXCEPT ![t].pc = "blocked"]
    /\ UNCHANGED <<bucket, epochs, seen, handled, failed>>

\* The thread blocked in esync_wait comes back for the lock.
WaitReturn(t) ==
    LET o == call[t].sync IN
    /\ call[t].pc = "woken" /\ obj[o].lock = None
    /\ Put(t, o, obj[o].refs)
    /\ UNCHANGED <<bucket, counter, epochs, seen, handled>>

\* An interruptible wait ends without a wake.
Interrupt(t) ==
    /\ call[t].pc = "blocked"
    /\ call' = [call EXCEPT ![t].pc = "woken"]
    /\ UNCHANGED <<obj, bucket, counter, epochs, seen, handled, failed>>

BlockedOn(o) == { u \in Threads : call[u].pc = "blocked" /\ call[u].sync = o }

\* The sets of threads a wake of this mode may wake.
WakeChoices(mode, who, waiting) ==
    CASE mode = "ALL"    -> {waiting}
      [] mode = "THREAD" -> {waiting \cap {who}}
      [] OTHER           -> IF waiting = {} THEN {{}} ELSE { {u} : u \in waiting }

\* esync_wake with the object.  It takes a reference and, when it was alone with
\* the table, it is the one to remove the object.
Wake(t) ==
    LET o == call[t].sync
        waiting == BlockedOn(o)
        refs == obj[o].refs + 1
    IN  /\ call[t].pc = "locked" /\ call[t].mode # "WAIT"
        /\ \E woken \in WakeChoices(call[t].mode, call[t].who, waiting) :
             /\ call' = [u \in Threads |->
                           IF u = t THEN IF refs = 2 THEN [call[t] EXCEPT !.pc = "remove"] ELSE Idle
                           ELSE IF u \in woken THEN [call[u] EXCEPT !.pc = "woken"]
                           ELSE call[u]]
             /\ handled' = IF woken = waiting
                           THEN [handled EXCEPT ![call[t].id] = Max({@, call[t].epoch})]
                           ELSE handled
        /\ obj' = [obj EXCEPT ![o].id = IF refs = 2 THEN INVALID ELSE @,
                              ![o].refs = IF refs = 2 THEN 2 ELSE refs - 1,
                              ![o].lock = None]
        /\ failed' = (failed \/ refs < 2)
        /\ UNCHANGED <<bucket, counter, epochs, seen>>

\* The end of esync_put for the last user: ht_remove, the two references, the free.
Remove(t) ==
    LET o == call[t].sync IN
    /\ call[t].pc = "remove" /\ bucket = None
    /\ failed' = (failed \/ obj[o].refs # 2 \/ ~obj[o].linked \/ obj[o].lock # None)
    /\ obj' = FreeNew([obj EXCEPT ![o] = Unused], t)
    /\ call' = [call EXCEPT ![t] = Idle]
    /\ UNCHANGED <<bucket, counter, epochs, seen, handled>>

Inside(t) ==
    \/ LockBucket(t) \/ ProbeMatch(t) \/ ProbeInsert(t) \/ ProbeNone(t) \/ LockElem(t)
    \/ WaitStale(t) \/ WaitBlock(t) \/ WaitReturn(t) \/ Wake(t) \/ Remove(t)

-----------------------------------------------------------------------------
(* Any client that keeps the rules of epoch_sync.h: it reads the epoch before it
   decides to wait, and increments the epoch before it wakes. *)

ReadEpoch(t, id) ==
    /\ call[t] = Idle /\ seen[t] = None
    /\ seen' = [seen EXCEPT ![t] = [op |-> "wait", id |-> id, epoch |-> epochs[id]]]
    /\ UNCHANGED <<obj, bucket, counter, call, epochs, handled, failed>>

NextEpoch(t, id) ==
    /\ call[t] = Idle /\ seen[t] = None /\ epochs[id] < MaxEpoch
    /\ epochs' = [epochs EXCEPT ![id] = @ + 1]
    /\ seen' = [seen EXCEPT ![t] = [op |-> "wake", id |-> id, epoch |-> epochs[id] + 1]]
    /\ UNCHANGED <<obj, bucket, counter, call, handled, failed>>

CallWait(t) ==
    /\ call[t] = Idle /\ seen[t] # None /\ seen[t].op = "wait"
    /\ EsyncWait(t, seen[t].id, seen[t].epoch)
    /\ seen' = [seen EXCEPT ![t] = None]
    /\ UNCHANGED epochs

CallWake(t, mode, who) ==
    /\ call[t] = Idle /\ seen[t] # None /\ seen[t].op = "wake"
    /\ EsyncWake(t, seen[t].id, seen[t].epoch, mode, who)
    /\ seen' = [seen EXCEPT ![t] = None]
    /\ UNCHANGED epochs

Client(t) ==
    \/ \E id \in Ids : ReadEpoch(t, id) \/ NextEpoch(t, id)
    \/ CallWait(t)
    \/ \E mode \in {"ONE", "ALL", "ONE_WITH_OWNER"} : CallWake(t, mode, None)
    \/ \E who \in Threads : CallWake(t, "THREAD", who)

Next == \E t \in Threads : Inside(t) \/ Interrupt(t) \/ Client(t)

Spec == Init /\ [][Next]_vars

-----------------------------------------------------------------------------
(* Properties *)

Calls == [pc : {"idle", "bucket", "probe", "elem", "locked", "blocked", "woken", "remove"},
          id : Ids \cup {INVALID}, epoch : Nat,
          mode : {"WAIT", "ONE", "ALL", "ONE_WITH_OWNER", "THREAD"},
          who : Threads \cup {None}, sync : Objects \cup {None}, new : Objects \cup {None}]

\* Every variable keeps its type.
TypeOK ==
    /\ obj \in [Objects -> [id : Ids \cup {INVALID}, refs : Nat, linked : BOOLEAN,
                            lock : Threads \cup {None}, live : BOOLEAN]]
    /\ bucket \in Threads \cup {None}
    /\ counter \in Nat
    /\ call \in [Threads -> Calls]
    /\ epochs \in [Ids -> 0 .. MaxEpoch]
    /\ seen \in [Threads -> {None} \cup [op : {"wait", "wake"}, id : Ids, epoch : 0 .. MaxEpoch]]
    /\ handled \in [Ids -> Nat]
    /\ failed \in BOOLEAN

\* The threads with a reference on o.
Users(o) == { t \in Threads : call[t].sync = o /\ call[t].pc \in {"blocked", "woken", "remove"} }

\* The life of the objects: nobody uses memory that was freed; an object in the
\* table is referenced once for the table and once by every user; an id has one
\* object that lookups can match; nothing is leaked; and no assertion fails.
ObjectsSafe ==
    /\ ~failed
    /\ \A t \in Threads : \A o \in {call[t].sync, call[t].new} \ {None} : obj[o].live
    /\ \A o \in Objects :
         /\ obj[o].linked => obj[o].refs = 1 + Cardinality(Users(o))
         /\ obj[o].live => obj[o].linked \/ \E t \in Threads : call[t].new = o
    /\ \A o, p \in Objects :
         obj[o].linked /\ obj[p].linked /\ obj[o].id = obj[p].id /\ obj[o].id # INVALID => o = p

\* No missed wake: once a wake has found everybody it had to wake, or nobody, no
\* thread stays or becomes blocked with an epoch that wake had already passed.
NoMissedWake ==
    \A t \in Threads : call[t].pc = "blocked" => call[t].epoch >= handled[call[t].id]
=============================================================================
