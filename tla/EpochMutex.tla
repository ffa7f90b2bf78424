----------------------------- MODULE EpochMutex -----------------------------
(***************************************************************************)
(* The mutex of epoch_sync.c's own test (test_lock, test_unlock), composed *)
(* with EpochSync: the lock word is the client's, the blocking is          *)
(* esync_wait's and esync_wake's.  seen[t] holds a thread's local epoch.   *)
(***************************************************************************)
EXTENDS EpochSync

CONSTANTS
    mutex,        \* the id of the lock
    Rounds        \* bound: how often each thread locks (10 times in the test)

ASSUME MutexAssumption == mutex \in Ids /\ Rounds \in [Threads -> Nat \ {0}]

VARIABLES
    lock,         \* test_mutex: its owner and WAITER_BIT
    waiterCount,  \* test_waiter_count
    at,           \* a thread's step in test_lock or test_unlock
    old, new,     \* its locals
    rounds        \* the rounds it still has to do

mvars == <<lock, waiterCount, at, old, new, rounds>>

Free == [owner |-> None, waiter |-> FALSE]
Own(t, bit) == [owner |-> t, waiter |-> bit]

MutexInit ==
    /\ Init
    /\ lock = Free /\ waiterCount = 0
    /\ at = [t \in Threads |-> "try"]
    /\ old = [t \in Threads |-> Free]
    /\ new = [t \in Threads |-> Own(t, FALSE)]
    /\ rounds = Rounds

NotInside(t) == call[t] = Idle

Goto(t, step) == at' = [at EXCEPT ![t] = step]

-----------------------------------------------------------------------------
(* test_lock *)

\* Mutant of TryLock: the lock is taken with the thread's ctid alone.
TryLockNoBit(t) ==
    /\ at[t] = "try"
    /\ IF lock = Free
       THEN lock' = Own(t, FALSE) /\ Goto(t, "critical") /\ UNCHANGED old
       ELSE old' = [old EXCEPT ![t] = lock] /\ Goto(t, "epoch") /\ UNCHANGED lock
    /\ UNCHANGED <<vars, waiterCount, new, rounds>>

\* "Try to grab the lock."
TryLock(t) ==
    /\ at[t] = "try"
    /\ IF lock = Free
       THEN lock' = new[t] /\ Goto(t, "critical") /\ UNCHANGED old
       ELSE old' = [old EXCEPT ![t] = lock] /\ Goto(t, "epoch") /\ UNCHANGED lock
    /\ UNCHANGED <<vars, waiterCount, new, rounds>>

\* The epoch is loaded before the waiter bit is set.
LoadEpoch(t) ==
    /\ at[t] = "epoch"
    /\ seen' = [seen EXCEPT ![t] = [op |-> "wait", id |-> mutex, epoch |-> epochs[mutex]]]
    /\ Goto(t, "bit")
    /\ UNCHANGED <<obj, bucket, counter, call, epochs, handled, failed,
                   lock, waiterCount, old, new, rounds>>

\* "Failed to grab the lock, add a waiter bit and wait."
SetWaiterBit(t) ==
    /\ at[t] = "bit"
    /\ IF lock = old[t]
       THEN /\ lock' = [lock EXCEPT !.waiter = TRUE]
            /\ Goto(t, "count") /\ UNCHANGED old
       ELSE /\ old' = [old EXCEPT ![t] = lock]
            /\ Goto(t, IF lock # Free THEN "epoch" ELSE "try")
            /\ UNCHANGED lock
    /\ UNCHANGED <<vars, waiterCount, new, rounds>>

CountWaiter(t) ==
    /\ at[t] = "count"
    /\ waiterCount' = waiterCount + 1
    /\ Goto(t, "wait")
    /\ UNCHANGED <<vars, lock, old, new, rounds>>

LockWait(t) ==
    /\ at[t] = "wait"
    /\ EsyncWait(t, mutex, seen[t].epoch)
    /\ seen' = [seen EXCEPT ![t] = None]
    /\ Goto(t, "waited")
    /\ UNCHANGED <<epochs, lock, waiterCount, old, new, rounds>>

\* Mutant of Uncount: the woken thread forgets the waiters it leaves behind.
UncountAlone(t) ==
    /\ at[t] = "waited" /\ NotInside(t)
    /\ waiterCount' = waiterCount - 1
    /\ new' = [new EXCEPT ![t] = Own(t, FALSE)]
    /\ Goto(t, "try")
    /\ UNCHANGED <<vars, lock, old, rounds>>

\* "When acquiring the lock, if there are waiters make sure to set the waiters bit."
Uncount(t) ==
    /\ at[t] = "waited" /\ NotInside(t)
    /\ waiterCount' = waiterCount - 1
    /\ new' = [new EXCEPT ![t] = Own(t, waiterCount # 1)]
    /\ Goto(t, "try")
    /\ UNCHANGED <<vars, lock, old, rounds>>

-----------------------------------------------------------------------------
(* test_unlock *)

\* The lock is dropped first ...
DropLock(t) ==
    /\ at[t] = "critical"
    /\ old' = [old EXCEPT ![t] = lock]
    /\ lock' = Free
    /\ failed' = (failed \/ lock.owner # t)
    /\ Goto(t, "advance")
    /\ UNCHANGED <<obj, bucket, counter, call, epochs, seen, handled, waiterCount, new, rounds>>

\* Back in test_lock_unlock: the next test_lock starts with fresh locals.
NextRound(t) ==
    /\ rounds' = [rounds EXCEPT ![t] = @ - 1]
    /\ old' = [old EXCEPT ![t] = Free]
    /\ new' = [new EXCEPT ![t] = Own(t, FALSE)]
    /\ Goto(t, IF rounds[t] = 1 THEN "done" ELSE "try")

\* ... then the epoch advances ...
Advance(t) ==
    /\ at[t] = "advance"
    /\ epochs' = [epochs EXCEPT ![mutex] = @ + 1]
    /\ IF old[t].waiter
       THEN /\ seen' = [seen EXCEPT ![t] = [op |-> "wake", id |-> mutex, epoch |-> epochs[mutex] + 1]]
            /\ Goto(t, "wake") /\ UNCHANGED <<old, new, rounds>>
       ELSE NextRound(t) /\ UNCHANGED seen
    /\ UNCHANGED <<obj, bucket, counter, call, handled, failed, lock, waiterCount>>

\* ... and, if the word had the bit, a waiter is woken after a delay: other
\* unlocks may have advanced the epoch by then.
UnlockWake(t) ==
    /\ at[t] = "wake"
    /\ EsyncWake(t, mutex, seen[t].epoch, "ONE", None)
    /\ seen' = [seen EXCEPT ![t] = None]
    /\ Goto(t, "waking")
    /\ UNCHANGED <<epochs, lock, waiterCount, old, new, rounds>>

Woke(t) ==
    /\ at[t] = "waking" /\ NotInside(t)
    /\ NextRound(t)
    /\ UNCHANGED <<vars, lock, waiterCount>>

-----------------------------------------------------------------------------
\* The test waits uninterruptibly.
Step(t) ==
    \/ TryLock(t) \/ LoadEpoch(t) \/ SetWaiterBit(t) \/ CountWaiter(t) \/ LockWait(t)
    \/ Uncount(t) \/ DropLock(t) \/ Advance(t) \/ UnlockWake(t) \/ Woke(t)
    \/ Inside(t) /\ UNCHANGED mvars

Done == (\A t \in Threads : at[t] = "done") /\ UNCHANGED <<vars, mvars>>

MutexNext == Done \/ \E t \in Threads : Step(t)

MutexSpec ==
    /\ MutexInit /\ [][MutexNext]_<<vars, mvars>>
    /\ \A t \in Threads : WF_<<vars, mvars>>(Step(t))

-----------------------------------------------------------------------------
\* Nobody is forgotten: while a thread is blocked, the waiter bit is in the lock
\* word, or an unlock that saw it has not finished its wake, or a thread that came
\* back from its wait is about to count the others or to put the bit back.
WakePending ==
    (\E t \in Threads : call[t].pc = "blocked") =>
        \/ lock.waiter
        \/ \E t \in Threads :
             \/ at[t] = "advance" /\ old[t].waiter
             \/ at[t] = "wake"
             \/ at[t] = "waking" /\ call[t] # Idle
             \/ at[t] = "waited" /\ call[t].pc # "blocked"
             \/ at[t] \in {"try", "epoch", "bit"} /\ new[t].waiter

\* esync_test ends: every thread gets the lock as often as it asks for it.
AllFinish == <>(\A t \in Threads : at[t] = "done")
=============================================================================
