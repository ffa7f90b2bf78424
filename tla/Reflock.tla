------------------------------ MODULE Reflock ------------------------------
(***************************************************************************)
(* kern_apfs_reflock (osfmk/kern/kern_apfs_reflock.c): a reference count   *)
(* and a sleeping lock that share one 64-bit word.  While a thread owns    *)
(* the lock the count is halted: every other try fails and may wait.       *)
(*                                                                         *)
(* Each os_atomic_rmw_loop is one step: it retries until its exchange      *)
(* succeeds and keeps nothing of the failed rounds.  The caller's side of  *)
(* the contract in kern_apfs_reflock.h is in the guards, marked "caller".  *)
(* A panic or a failed assertion sets panicked.                            *)
(***************************************************************************)
EXTENDS Naturals, FiniteSets

CONSTANTS
    Threads,
    Handles,      \* the references callers may hold, one name for each
    MaxWaiters,   \* KERN_APFS_REFLOCK_MAXWAITERS
    MaxRefcount,  \* KERN_APFS_REFLOCK_MAXREFCOUNT
    None          \* the ctid 0

ASSUME ReflockAssumption ==
    /\ IsFiniteSet(Threads) /\ IsFiniteSet(Handles)
    /\ None \notin Threads
    /\ MaxWaiters \in Nat /\ Cardinality(Threads) <= MaxWaiters
    /\ MaxRefcount \in Nat /\ Cardinality(Handles) <= MaxRefcount

VARIABLES
    word,         \* the fields of struct kern_apfs_reflock
    life,         \* of the memory: "none", "live", "destroyed" or "freed"
    pc,           \* a thread's step inside the calls that take several
    observed,     \* what a waiter saw when it decided to sleep, until it has slept
    atLock,       \* the refcount the owner was told when it locked
    held,         \* the references callers hold
    panicked

vars == <<word, life, pc, observed, atLock, held, panicked>>

Words == [owner : Threads \cup {None}, waiters : Nat, delayedFree : BOOLEAN,
          wake : BOOLEAN, allocated : BOOLEAN, allowForce : BOOLEAN, count : Nat]

\* kern_apfs_reflock_init, and kern_apfs_reflock_alloc_init for the allocated one.
Fresh(alloc) == [owner |-> None, waiters |-> 0, delayedFree |-> FALSE, wake |-> FALSE,
                 allocated |-> alloc, allowForce |-> FALSE, count |-> 0]

\* KERN_APFS_SLEEP_DEBOUNCE_MASK: every field but the two counters.
Debounced(w) == <<w.owner, w.delayedFree, w.wake, w.allocated, w.allowForce>>

Init ==
    /\ word = Fresh(FALSE) /\ life = "none"
    /\ pc = [t \in Threads |-> "idle"]
    /\ observed = [t \in Threads |-> Debounced(Fresh(FALSE))]
    /\ atLock = 0 /\ held = {} /\ panicked = FALSE

Create(alloc) ==
    /\ life # "live"
    /\ word' = Fresh(alloc) /\ life' = "live" /\ held' = {} /\ atLock' = 0
    /\ UNCHANGED <<pc, observed, panicked>>

-----------------------------------------------------------------------------
(* The tries: get a reference, put one, take the lock *)

\* caller: a call other than a wait starts on a live object nobody asked to free.
\* kern_apfs_reflock_check_valid then finds nothing to panic about.
MayCall(t) == pc[t] = "idle" /\ life = "live" /\ ~word.delayedFree

\* Mutant of Halted: FORCE is honoured whether or not the owner allowed it.
HaltedUnlessForced(flags) == word.owner # None /\ "FORCE" \notin flags

\* "Check if refcount modifications are halted by a thread that is holding the lock."
Halted(flags) == word.owner # None /\ ~("FORCE" \in flags /\ word.allowForce)

\* Mutant of FailedTry: the try does not count its caller among the waiters.
FailedTryUncounted(t, flags) ==
    /\ pc' = IF "WILL_WAIT" \in flags THEN [pc EXCEPT ![t] = "mustWait"] ELSE pc
    /\ UNCHANGED <<word, held, atLock>>

\* caller: a caller that said it will wait does so next.
FailedTry(t, flags) ==
    /\ pc' = IF "WILL_WAIT" \in flags THEN [pc EXCEPT ![t] = "mustWait"] ELSE pc
    /\ word' = IF "WILL_WAIT" \in flags /\ word.allocated
               THEN [word EXCEPT !.waiters = @ + 1] ELSE word
    /\ UNCHANGED <<held, atLock>>

\* "too many waiters": what a failed try panics about.
TooManyWaiters(flags) == "WILL_WAIT" \in flags /\ word.allocated /\ word.waiters = MaxWaiters

\* caller: the owner itself never waits.
WillNotDeadlock(t, flags) == "WILL_WAIT" \in flags => word.owner # t

GetFlags == { f \in SUBSET {"WILL_WAIT", "FORCE", "LOCK_IF_FIRST"} :
                ~({"FORCE", "LOCK_IF_FIRST"} \subseteq f) }

\* kern_apfs_reflock_try_get_ref; a success gives its caller the reference h.
TryGetRef(t, h, flags) ==
    /\ MayCall(t) /\ h \notin held /\ WillNotDeadlock(t, flags)
    /\ IF Halted(flags)
       THEN FailedTry(t, flags)
       ELSE LET locked == "LOCK_IF_FIRST" \in flags /\ word.count = 0
            IN  /\ word' = [word EXCEPT !.count = @ + 1,
                                        !.owner = IF locked THEN t ELSE @,
                                        !.allowForce = IF locked THEN FALSE ELSE @]
                /\ atLock' = IF locked THEN 1 ELSE atLock
                /\ held' = held \cup {h}
                /\ UNCHANGED pc
    /\ panicked' = (panicked \/ IF Halted(flags) THEN TooManyWaiters(flags)
                                ELSE word.count = MaxRefcount)
    /\ UNCHANGED <<life, observed>>

PutFlags == { f \in SUBSET {"WILL_WAIT", "FORCE", "LOCK_IF_LAST"} :
                ~({"FORCE", "LOCK_IF_LAST"} \subseteq f) }

\* kern_apfs_reflock_try_put_ref.
TryPutRef(t, h, flags) ==
    /\ MayCall(t) /\ h \in held /\ WillNotDeadlock(t, flags)
    /\ IF Halted(flags)
       THEN FailedTry(t, flags)
       ELSE LET locked == "LOCK_IF_LAST" \in flags /\ word.count = 1
            IN  /\ word' = [word EXCEPT !.count = @ - 1,
                                        !.owner = IF locked THEN t ELSE @,
                                        !.allowForce = IF locked THEN FALSE ELSE @]
                /\ atLock' = IF locked THEN 0 ELSE atLock
                /\ held' = held \ {h}
                /\ UNCHANGED pc
    /\ panicked' = (panicked \/ word.count = 0 \/ (Halted(flags) /\ TooManyWaiters(flags)))
    /\ UNCHANGED <<life, observed>>

\* kern_apfs_reflock_try_lock.  caller: locking is not recursive.
TryLock(t, flags) ==
    /\ MayCall(t) /\ word.owner # t
    /\ IF word.owner # None
       THEN FailedTry(t, flags)
       ELSE /\ word' = [word EXCEPT !.owner = t, !.allowForce = ("ALLOW_FORCE" \in flags)]
            /\ atLock' = word.count
            /\ UNCHANGED <<pc, held>>
    /\ panicked' = (panicked \/ (word.owner # None /\ TooManyWaiters(flags)))
    /\ UNCHANGED <<life, observed>>

-----------------------------------------------------------------------------
(* kern_apfs_reflock_wait_for_unlock *)

Returned(t) == [pc EXCEPT ![t] = "idle"]

\* After a decrement of the waiters: the last one frees what a free left to it.
Leave(t, w) ==
    /\ word' = w
    /\ pc' = [pc EXCEPT ![t] = IF w.delayedFree /\ w.waiters = 0 THEN "freeing" ELSE "idle"]

\* The first loop: say that somebody waits, or leave when the lock is free.
AnnounceWait(t) ==
    /\ pc[t] = "mustWait"
    /\ IF word.owner # None
       THEN /\ word' = [word EXCEPT !.wake = TRUE]
            /\ observed' = [observed EXCEPT ![t] = Debounced(word')]
            /\ pc' = [pc EXCEPT ![t] = "sleepCheck"]
       ELSE /\ IF word.allocated
               THEN Leave(t, [word EXCEPT !.waiters = @ - 1])
               ELSE pc' = Returned(t) /\ UNCHANGED word
            /\ UNCHANGED observed
    /\ panicked' = (panicked \/ (word.allocated /\ word.waiters = 0) \/ word.owner = t)
    /\ UNCHANGED <<life, atLock, held>>

\* Mutant of CondSleep: the thread sleeps without looking at the word again.
CondSleepBlind(t) ==
    /\ pc[t] = "sleepCheck"
    /\ pc' = [pc EXCEPT ![t] = "asleep"]
    /\ observed' = [observed EXCEPT ![t] = Debounced(Fresh(FALSE))]
    /\ UNCHANGED <<word, life, atLock, held, panicked>>

\* cond_sleep_with_inheritor64_mask: the word is compared and the wait asserted
\* under the turnstile's bucket lock.
CondSleep(t) ==
    /\ pc[t] = "sleepCheck"
    /\ pc' = [pc EXCEPT ![t] = IF Debounced(word) = observed[t] THEN "asleep" ELSE "leaving"]
    /\ observed' = [observed EXCEPT ![t] = Debounced(Fresh(FALSE))]
    /\ UNCHANGED <<word, life, atLock, held, panicked>>

\* The deadline passes, or the thread is aborted.
WaitEnds(t) ==
    /\ pc[t] = "asleep"
    /\ pc' = [pc EXCEPT ![t] = "leaving"]
    /\ UNCHANGED <<word, life, observed, atLock, held, panicked>>

\* "remove ourselves from the waiters", on an allocated object (a bit that never
\* changes while the object lives).
LeaveWait(t) ==
    /\ pc[t] = "leaving"
    /\ IF word.allocated
       THEN /\ Leave(t, [word EXCEPT !.waiters = @ - 1])
            /\ panicked' = (panicked \/ word.waiters = 0)
       ELSE pc' = Returned(t) /\ UNCHANGED <<word, panicked>>
    /\ UNCHANGED <<life, observed, atLock, held>>

-----------------------------------------------------------------------------
(* Unlock, free and destroy *)

\* Mutant of Unlock: whether anybody waits is read from the waiters, not from wake.
UnlockByCount(t) ==
    /\ MayCall(t) /\ word.owner = t
    /\ word' = [word EXCEPT !.owner = None, !.allowForce = FALSE, !.wake = FALSE]
    /\ atLock' = 0
    /\ pc' = [pc EXCEPT ![t] = IF word.waiters > 0 THEN "wakeAll" ELSE "idle"]
    /\ UNCHANGED <<life, observed, held, panicked>>

\* kern_apfs_reflock_unlock, up to the wakeup.
Unlock(t) ==
    /\ MayCall(t) /\ word.owner = t
    /\ word' = [word EXCEPT !.owner = None, !.allowForce = FALSE, !.wake = FALSE]
    /\ atLock' = 0
    /\ pc' = [pc EXCEPT ![t] = IF word.wake THEN "wakeAll" ELSE "idle"]
    /\ UNCHANGED <<life, observed, held, panicked>>

\* cond_wakeup_all_with_inheritor, under the turnstile's bucket lock; it needs
\* the object's address only.
WakeAll(t) ==
    /\ pc[t] = "wakeAll"
    /\ pc' = [u \in Threads |-> IF u = t THEN "idle"
                                ELSE IF pc[u] = "asleep" THEN "leaving" ELSE pc[u]]
    /\ UNCHANGED <<word, life, observed, atLock, held, panicked>>

\* Mutant of Free: the free never leaves the object to the last waiter.
FreeAtOnce(t) ==
    /\ MayCall(t) /\ word.allocated /\ word.owner = None
    /\ \A u \in Threads : pc[u] # "wakeAll"
    /\ word' = [word EXCEPT !.delayedFree = TRUE]
    /\ pc' = [pc EXCEPT ![t] = "freeing"]
    /\ panicked' = (panicked \/ word.wake \/ word.allowForce)
    /\ UNCHANGED <<life, observed, atLock, held>>

\* kern_apfs_reflock_free.  caller: the lock is not held and every call except a
\* wait has returned.
Free(t) ==
    /\ MayCall(t) /\ word.allocated /\ word.owner = None
    /\ \A u \in Threads : pc[u] # "wakeAll"
    /\ word' = [word EXCEPT !.delayedFree = TRUE]
    /\ pc' = [pc EXCEPT ![t] = IF word.waiters = 0 THEN "freeing" ELSE "idle"]
    /\ panicked' = (panicked \/ word.wake \/ word.allowForce)
    /\ UNCHANGED <<life, observed, atLock, held>>

\* kern_apfs_reflock_free_internal.
FreeInternal(t) ==
    /\ pc[t] = "freeing"
    /\ panicked' = (panicked \/ word # [Fresh(TRUE) EXCEPT !.delayedFree = TRUE,
                                                           !.count = word.count])
    /\ life' = "freed"
    /\ pc' = Returned(t)
    /\ UNCHANGED <<word, observed, atLock, held>>

\* kern_apfs_reflock_destroy.  caller: the object was not allocated, the lock is
\* not held and every call, waits too, has returned.
Destroy(t) ==
    /\ MayCall(t) /\ ~word.allocated /\ word.owner = None
    /\ \A u \in Threads : pc[u] = "idle"
    /\ panicked' = (panicked \/ word.wake \/ word.allowForce \/ word.waiters # 0)
    /\ life' = "destroyed"
    /\ UNCHANGED <<word, pc, observed, atLock, held>>

-----------------------------------------------------------------------------
Thread(t) ==
    \/ \E h \in Handles, f \in GetFlags : TryGetRef(t, h, f)
    \/ \E h \in Handles, f \in PutFlags : TryPutRef(t, h, f)
    \/ \E f \in SUBSET {"WILL_WAIT", "ALLOW_FORCE"} : TryLock(t, f)
    \/ AnnounceWait(t) \/ CondSleep(t) \/ WaitEnds(t) \/ LeaveWait(t)
    \/ Unlock(t) \/ WakeAll(t)
    \/ Free(t) \/ FreeInternal(t) \/ Destroy(t)

Next == \/ \E alloc \in BOOLEAN : Create(alloc)
        \/ \E t \in Threads : Thread(t)

\* A thread inside a call keeps running; an owner unlocks, as the header demands.
Fairness == \A t \in Threads :
              WF_vars(\/ AnnounceWait(t) \/ CondSleep(t) \/ LeaveWait(t)
                      \/ Unlock(t) \/ WakeAll(t) \/ FreeInternal(t))

Spec == Init /\ [][Next]_vars /\ Fairness

-----------------------------------------------------------------------------
(* Properties *)

Counted == { t \in Threads : pc[t] \in {"mustWait", "sleepCheck", "asleep", "leaving"} }

\* Every variable keeps its type.
TypeOK ==
    /\ word \in Words
    /\ life \in {"none", "live", "destroyed", "freed"}
    /\ pc \in [Threads -> {"idle", "mustWait", "sleepCheck", "asleep", "leaving",
                           "wakeAll", "freeing"}]
    /\ observed \in [Threads -> (Threads \cup {None}) \X BOOLEAN \X BOOLEAN \X BOOLEAN \X BOOLEAN]
    /\ atLock \in Nat /\ held \subseteq Handles /\ panicked \in BOOLEAN

\* No call the contract allows reaches a panic or a failed assertion: no try
\* over-releases or overflows a counter, no waiter finds itself uncounted, and the
\* object that free_internal gets is quiet whoever ends up calling it.
NoPanic == ~panicked

\* No lost wakeup: a sleeper is covered by an owner that will see the wake bit, or
\* by an unlock that has seen it and has not yet woken the sleepers.
NoLostWakeup ==
    (\E t \in Threads : pc[t] = "asleep") =>
        \/ word.owner # None /\ word.wake
        \/ \E u \in Threads : pc[u] = "wakeAll"

\* The memory outlives every waiter: while a thread is anywhere in a wait the
\* object is live, and one thread at most is about to free it.
NoUseAfterFree ==
    /\ Counted # {} => life = "live"
    /\ \A t, u \in Threads : pc[t] = "freeing" /\ pc[u] = "freeing" =>
          t = u /\ life = "live" /\ Counted = {}

\* The two counters are exact: the references given out, and the threads between
\* the try that announced a wait and the end of that wait.
CountersExact ==
    life = "live" =>
        /\ word.count = Cardinality(held)
        /\ word.allocated => word.waiters = Cardinality(Counted)

\* The refcount the owner was told stays true until it unlocks, unless it allowed
\* FORCE: an initializer (0 -> 1) or a cleaner (1 -> 0) runs undisturbed.
RefcountHalted ==
    life = "live" /\ word.owner # None /\ ~word.allowForce => word.count = atLock

\* A wait always returns, and an object handed to its last waiter is freed.
WaitReturns ==
    /\ \A t \in Threads : (t \in Counted) ~> (t \notin Counted)
    /\ word.delayedFree ~> (life = "freed")
=============================================================================
