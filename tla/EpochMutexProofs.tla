-------------------------- MODULE EpochMutexProofs --------------------------
(***************************************************************************)
(* Proofs about EpochMutex, for any number of threads and rounds: the lock *)
(* excludes, and no waiter of the mutex is forgotten.                      *)
(***************************************************************************)
EXTENDS EpochMutex, EpochSyncProofs

-----------------------------------------------------------------------------
(* The inductive invariant *)

Words == [owner : Threads \cup {None}, waiter : BOOLEAN]
Places == {"try", "epoch", "bit", "count", "wait", "waited", "critical", "advance", "wake", "waking", "done"}
Loaded == [op : {"wait", "wake"}, id : {mutex}, epoch : Nat]
Entering == {"bucket", "probe", "elem", "locked"}

MutexType ==
    /\ lock \in Words
    /\ at \in [Threads -> Places]
    /\ old \in [Threads -> Words]
    /\ new \in [Threads -> Words]
    /\ epochs \in [Ids -> Nat]
    /\ seen \in [Threads -> {None} \cup Loaded]

\* What a thread knows at its place in test_lock and test_unlock.
ThreadOK(t) ==
    /\ at[t] \notin {"waited", "waking"} => call[t] = Idle
    /\ at[t] = "waited" /\ call[t].pc # "idle" =>
          call[t].mode = "WAIT" /\ call[t].id = mutex /\ call[t].epoch <= epochs[mutex]
    /\ at[t] = "waking" /\ call[t].pc # "idle" =>
          /\ call[t].mode = "ONE" /\ call[t].id = mutex
          /\ call[t].pc \in Entering \cup {"remove"}
    /\ at[t] \in {"bit", "count", "wait", "wake"} => seen[t] \in Loaded /\ seen[t].epoch <= epochs[mutex]
    /\ at[t] = "critical" => lock.owner = t
    /\ new[t].owner = t

\* The waiters that test_waiter_count counts.
Waiters == { t \in Threads : at[t] \in {"wait", "waited"} }

CountOK == waiterCount = Cardinality(Waiters)

\* The bit is in the word, or in the copy of an unlock that has yet to wake.
Signalled == lock.waiter \/ \E u \in Threads : at[u] = "advance" /\ old[u].waiter

\* The server's counter, and the epochs that unlocks are about to raise it to.
Coming == {counter} \cup { seen[u].epoch : u \in { v \in Threads : at[v] = "wake" } }

\* A thread that set the bit and has not blocked: the bit is still there, or its epoch
\* is stale for the counter or for the wake of an unlock.
NotStale(t) ==
    /\ at[t] \in {"count", "wait"} => Signalled \/ \E c \in Coming : c > seen[t].epoch
    /\ at[t] = "waited" /\ call[t].pc \in Entering =>
          Signalled \/ \E c \in Coming : c > call[t].epoch

\* A thread that will see to the waiters.
OnItsWay(t) ==
    \/ at[t] = "wake"
    \/ at[t] = "waking" /\ call[t].pc \in Entering
    \/ at[t] = "waited" /\ call[t].pc # "blocked"
    \/ at[t] \in {"try", "epoch", "bit"} /\ new[t].waiter

SomebodyComes ==
    (\E t \in Threads : call[t].pc = "blocked") =>
        Signalled \/ \E t \in Threads : OnItsWay(t)

MutexInv ==
    /\ KernelInv /\ MutexType
    /\ \A t \in Threads : ThreadOK(t) /\ NotStale(t)
    /\ CountOK /\ SomebodyComes

-----------------------------------------------------------------------------
(* What a step inside esync_wait or esync_wake does to the calls *)

\* The calls of the others: some that were blocked may have been woken.
OthersSame(t) ==
    \A u \in Threads : u # t =>
        \/ call'[u] = call[u]
        \/ /\ call[u].pc = "blocked" /\ call'[u].pc = "woken"
           /\ call'[u].id = call[u].id /\ call'[u].epoch = call[u].epoch /\ call'[u].mode = call[u].mode

\* The call of the thread itself.
OwnStep(t) ==
    /\ call[t].pc # "idle"
    /\ \/ call'[t] = Idle
       \/ /\ call'[t].pc # "idle"
          /\ call'[t].id = call[t].id /\ call'[t].epoch = call[t].epoch /\ call'[t].mode = call[t].mode
    /\ call'[t].pc \in Entering => call[t].pc \in Entering
    /\ call'[t].pc = "blocked" => call[t].pc \in Entering /\ counter <= call[t].epoch
    /\ call'[t].pc \in {"blocked", "woken"} => call[t].mode = "WAIT"

\* A wake that has done its work left nobody blocked on its id, or woke somebody.
WakeDone(t) ==
    call[t].mode = "ONE" /\ call[t].pc \in Entering /\ call'[t].pc \notin Entering =>
        \/ \A u \in Threads : call'[u].pc = "blocked" => call'[u].id # call[t].id
        \/ \E u \in Threads : u # t /\ call[u].pc = "blocked" /\ call'[u].pc = "woken"

Effect(t) ==
    /\ OthersSame(t) /\ OwnStep(t) /\ WakeDone(t)
    /\ counter' \in Nat /\ counter' >= counter
    /\ UNCHANGED <<epochs, seen>>

\* The lookup's steps.
LEMMA LookupEffect ==
    ASSUME KernelInv, NEW t \in Threads,
           LockBucket(t) \/ ProbeMatch(t) \/ ProbeInsert(t) \/ LockElem(t)
    PROVE  Effect(t)
<1>k. call \in [Threads -> Calls] /\ counter \in Nat
  BY DEF KernelInv, KernelType
<1>1. CASE LockBucket(t)
  BY <1>1, <1>k DEF LockBucket, Calls, Effect, OthersSame, OwnStep, WakeDone, Entering
<1>2. CASE ProbeMatch(t)
  <2>1. PICK o : call' = [call EXCEPT ![t].pc = "elem", ![t].sync = o]
    BY <1>2 DEF ProbeMatch
  <2>2. call[t].pc = "probe" /\ UNCHANGED <<counter, epochs, seen>>
    BY <1>2 DEF ProbeMatch
  <2>3. /\ \A u \in Threads : u # t => call'[u] = call[u]
        /\ call'[t].pc = "elem" /\ call'[t].id = call[t].id /\ call'[t].epoch = call[t].epoch
        /\ call'[t].mode = call[t].mode
    BY <1>k, <2>1 DEF Calls
  <2> QED BY <1>k, <2>2, <2>3 DEF Effect, OthersSame, OwnStep, WakeDone, Entering
<1>3. CASE ProbeInsert(t)
  BY <1>3, <1>k DEF ProbeInsert, Calls, Effect, OthersSame, OwnStep, WakeDone, Entering
<1>4. CASE LockElem(t)
  <2>1. \/ call' = [call EXCEPT ![t].pc = "locked"]
        \/ call' = [call EXCEPT ![t].pc = "probe", ![t].sync = None]
    BY <1>4 DEF LockElem
  <2>2. call[t].pc = "elem" /\ UNCHANGED <<counter, epochs, seen>>
    BY <1>4 DEF LockElem
  <2> QED BY <1>k, <2>1, <2>2 DEF Calls, Effect, OthersSame, OwnStep, WakeDone, Entering
<1> QED BY <1>1, <1>2, <1>3, <1>4

\* The steps of a wait with its object, and the removal.
LEMMA WaitEffect ==
    ASSUME KernelInv, NEW t \in Threads,
           WaitStale(t) \/ WaitBlock(t) \/ WaitReturn(t) \/ Remove(t)
    PROVE  Effect(t)
<1>k. call \in [Threads -> Calls] /\ counter \in Nat
  BY DEF KernelInv, KernelType
<1>p. ASSUME NEW n, NEW r, Put(t, n, r) PROVE call' = [call EXCEPT ![t].pc = "remove"] \/ call' = [call EXCEPT ![t] = Idle]
  BY <1>p DEF Put
<1>1. CASE WaitStale(t)
  <2>1. call[t].pc = "locked" /\ call[t].mode = "WAIT" /\ UNCHANGED <<counter, epochs, seen>>
    BY <1>1 DEF WaitStale
  <2>2. call' = [call EXCEPT ![t].pc = "remove"] \/ call' = [call EXCEPT ![t] = Idle]
    BY <1>1, <1>p DEF WaitStale
  <2> QED BY <1>k, <2>1, <2>2 DEF Calls, Idle, Effect, OthersSame, OwnStep, WakeDone, Entering
<1>2. CASE WaitBlock(t)
  BY <1>2, <1>k DEF WaitBlock, UpdateEpoch, Calls, Effect, OthersSame, OwnStep, WakeDone, Entering
<1>3. CASE WaitReturn(t)
  <2>1. call[t].pc = "woken" /\ UNCHANGED <<counter, epochs, seen>>
    BY <1>3 DEF WaitReturn
  <2>2. call' = [call EXCEPT ![t].pc = "remove"] \/ call' = [call EXCEPT ![t] = Idle]
    BY <1>3, <1>p DEF WaitReturn
  <2> QED BY <1>k, <2>1, <2>2 DEF Calls, Idle, Effect, OthersSame, OwnStep, WakeDone, Entering
<1>4. CASE Remove(t)
  <2>1. call[t].pc = "remove" /\ UNCHANGED <<counter, epochs, seen>> /\ call' = [call EXCEPT ![t] = Idle]
    BY <1>4 DEF Remove
  <2> QED BY <1>k, <2>1 DEF Calls, Idle, Effect, OthersSame, OwnStep, WakeDone, Entering
<1> QED BY <1>1, <1>2, <1>3, <1>4

\* A wake that finds no object: nobody is blocked on its id.
LEMMA ProbeNoneEffect == ASSUME KernelInv, NEW t \in Threads, ProbeNone(t) PROVE Effect(t)
<1>k. call \in [Threads -> Calls] /\ counter \in Nat
  BY DEF KernelInv, KernelType
<1>1. /\ call[t].pc = "probe" /\ UNCHANGED <<counter, epochs, seen>>
      /\ call' = [call EXCEPT ![t] = Idle]
      /\ \A o \in Objects : obj[o].linked => obj[o].id # call[t].id
  BY DEF ProbeNone, Matching
<1>2. \A u \in Threads : call'[u].pc = "blocked" => call'[u].id # call[t].id
  <2> TAKE u \in Threads
  <2> HAVE call'[u].pc = "blocked"
  <2>1. call'[u] = call[u] /\ call[u].pc = "blocked"
    BY <1>1, <1>k DEF Idle
  <2>2. call[u].sync \in Objects /\ obj[call[u].sync].linked /\ obj[call[u].sync].id = call[u].id
    BY <2>1 DEF KernelInv, SyncOK, ObjectSteps
  <2> QED BY <1>1, <2>1, <2>2
<1> QED BY <1>1, <1>2, <1>k DEF Calls, Idle, Effect, OthersSame, OwnStep, WakeDone, Entering

\* A wake with its object wakes one of those that are blocked on its id, if any.
LEMMA WakeEffect == ASSUME KernelInv, NEW t \in Threads, Wake(t) PROVE Effect(t)
<1>k. call \in [Threads -> Calls] /\ counter \in Nat
  BY DEF KernelInv, KernelType
<1>n. PICK n : n = call[t].sync
  OBVIOUS
<1>1. call[t].pc = "locked" /\ call[t].mode # "WAIT" /\ UNCHANGED <<counter, epochs, seen>>
  BY DEF Wake
<1>0. n \in Objects /\ obj[n].linked /\ obj[n].id = call[t].id /\ call[t].id \in Ids /\ call[t].id # INVALID
  BY <1>1, <1>n, EpochAssumption DEF KernelInv, SyncOK, ObjectSteps, CallOK
<1>w. PICK w \in WakeChoices(call[t].mode, call[t].who, BlockedOn(n)) :
        \E c : /\ c = Idle \/ c = [call[t] EXCEPT !.pc = "remove"]
               /\ call' = [u \in Threads |-> IF u = t THEN c
                             ELSE IF u \in w THEN [call[u] EXCEPT !.pc = "woken"] ELSE call[u]]
  BY <1>n DEF Wake
<1>c. PICK c : /\ c = Idle \/ c = [call[t] EXCEPT !.pc = "remove"]
               /\ call' = [u \in Threads |-> IF u = t THEN c
                             ELSE IF u \in w THEN [call[u] EXCEPT !.pc = "woken"] ELSE call[u]]
  BY <1>w
<1>b. w \subseteq BlockedOn(n)
  BY WakesWaiters
<1>2. OthersSame(t)
  BY <1>k, <1>b, <1>c DEF OthersSame, BlockedOn, Calls
<1>3. OwnStep(t)
  BY <1>k, <1>1, <1>c DEF OwnStep, Calls, Idle, Entering
<1>4. WakeDone(t)
  <2> SUFFICES ASSUME call[t].mode = "ONE"
               PROVE  \/ \A u \in Threads : call'[u].pc = "blocked" => call'[u].id # call[t].id
                      \/ \E u \in Threads : u # t /\ call[u].pc = "blocked" /\ call'[u].pc = "woken"
    BY DEF WakeDone
  <2>1. CASE w = {}
    <3>1. BlockedOn(n) = {}
      BY <2>1 DEF WakeChoices
    <3> SUFFICES ASSUME NEW u \in Threads, call'[u].pc = "blocked" PROVE call'[u].id # call[t].id
      OBVIOUS
    <3>2. u # t /\ call'[u] = call[u] /\ call[u].pc = "blocked"
      BY <1>c, <1>k, <2>1 DEF Idle, Calls
    <3>3. call[u].sync \in Objects /\ obj[call[u].sync].linked /\ obj[call[u].sync].id = call[u].id
      BY <3>2 DEF KernelInv, SyncOK, ObjectSteps
    <3>4. call[u].sync # n
      BY <3>1, <3>2 DEF BlockedOn
    <3> QED BY <1>0, <3>2, <3>3, <3>4 DEF KernelInv, OneObjectPerId
  <2>2. CASE w # {}
    <3>1. PICK u \in w : TRUE
      BY <2>2
    <3>2. u \in Threads /\ u # t /\ call[u].pc = "blocked"
      BY <1>1, <1>b, <3>1 DEF BlockedOn
    <3>3. call'[u].pc = "woken"
      BY <1>c, <1>k, <3>1, <3>2 DEF Calls
    <3> QED BY <3>2, <3>3
  <2> QED BY <2>1, <2>2
<1> QED BY <1>1, <1>2, <1>3, <1>4, <1>k DEF Effect

\* Every step inside a call.
LEMMA InsideEffect == ASSUME KernelInv, NEW t \in Threads, Inside(t) PROVE Effect(t)
  BY LookupEffect, WaitEffect, ProbeNoneEffect, WakeEffect DEF Inside

-----------------------------------------------------------------------------
(* The steps of the mutex *)

\* A step inside a call: a wake that leaves has woken somebody, or nobody is blocked;
\* a wait that blocks has not been signalled to yet.
LEMMA InsideMutexInv ==
    ASSUME MutexInv, NEW t \in Threads, Inside(t), UNCHANGED mvars PROVE MutexInv'
<1> USE EpochAssumption, MutexAssumption
<1>0. KernelInv /\ MutexType /\ CountOK /\ SomebodyComes /\ \A u \in Threads : ThreadOK(u) /\ NotStale(u)
  BY DEF MutexInv
<1>1. KernelInv'
  BY <1>0, InsideInv
<1>2. OthersSame(t) /\ OwnStep(t) /\ WakeDone(t) /\ counter' \in Nat /\ counter' >= counter
      /\ counter \in Nat /\ UNCHANGED <<epochs, seen>>
  BY <1>0, InsideEffect DEF Effect, KernelInv, KernelType
<1>3. lock' = lock /\ waiterCount' = waiterCount /\ at' = at /\ old' = old /\ new' = new
  BY DEF mvars
<1>4. MutexType'
  BY <1>0, <1>2, <1>3 DEF MutexType
<1>5. at[t] \in {"waited", "waking"}
  BY <1>0, <1>2 DEF ThreadOK, OwnStep, Idle
<1>6. \A u \in Threads : ThreadOK(u)'
  <2> TAKE u \in Threads
  <2>0. ThreadOK(u)
    BY <1>0
  <2>1. CASE u = t
    <3>1. call'[t].pc # "idle" => /\ call'[t].id = call[t].id /\ call'[t].epoch = call[t].epoch
                                  /\ call'[t].mode = call[t].mode /\ call[t].pc # "idle"
      BY <1>2 DEF OwnStep, Idle
    <3>2. at[t] = "waking" /\ call'[t].pc # "idle" => call'[t].pc \in Entering \cup {"remove"}
      <4>1. at[t] = "waking" => call[t].mode = "ONE"
        BY <1>2, <2>0, <2>1 DEF ThreadOK, OwnStep
      <4>2. call'[t] \in Calls
        BY <1>1 DEF KernelInv, KernelType
      <4> QED BY <1>2, <4>1, <4>2 DEF OwnStep, Entering, Calls
    <3> QED BY <1>2, <1>3, <1>5, <2>0, <2>1, <3>1, <3>2 DEF ThreadOK
  <2>2. CASE u # t
    <3>1. CASE call'[u] = call[u]
      BY <1>2, <1>3, <2>0, <3>1 DEF ThreadOK
    <3>2. CASE /\ call[u].pc = "blocked" /\ call'[u].pc = "woken"
               /\ call'[u].id = call[u].id /\ call'[u].epoch = call[u].epoch /\ call'[u].mode = call[u].mode
      <4>1. at[u] = "waited"
        BY <2>0, <3>2 DEF ThreadOK, Idle, Entering
      <4> QED BY <1>2, <1>3, <2>0, <3>2, <4>1 DEF ThreadOK
    <3> QED BY <1>2, <2>2, <3>1, <3>2 DEF OthersSame
  <2> QED BY <2>1, <2>2
<1>s. Signalled' <=> Signalled
  BY <1>3 DEF Signalled
<1>c. ASSUME NEW e \in Nat, NEW c \in Coming, c > e PROVE \E d \in Coming' : d > e
  <2>1. CASE c = counter
    <3>1. counter' \in Coming' /\ counter' > e
      BY <1>2, <1>c, <2>1 DEF Coming
    <3> QED BY <3>1
  <2>2. CASE c # counter
    <3>1. c \in Coming'
      BY <1>2, <1>3, <2>2 DEF Coming
    <3> QED BY <1>c, <3>1
  <2> QED BY <2>1, <2>2
<1>7. \A u \in Threads : NotStale(u)'
  <2> TAKE u \in Threads
  <2>0. NotStale(u) /\ call[u].epoch \in Nat
    BY <1>0 DEF KernelInv, KernelType, Calls
  <2>1. call'[u].pc \in Entering => call[u].pc \in Entering /\ call'[u].epoch = call[u].epoch
    BY <1>2 DEF OthersSame, OwnStep, Entering, Idle
  <2>2. at[u] \in {"count", "wait"} => seen[u].epoch \in Nat
    BY <1>0 DEF ThreadOK, Loaded
  <2> QED BY <1>2, <1>3, <1>c, <1>s, <2>0, <2>1, <2>2 DEF NotStale
<1>8. CountOK'
  BY <1>0, <1>3 DEF CountOK, Waiters
<1>9. SomebodyComes'
  <2> SUFFICES ASSUME NEW b \in Threads, call'[b].pc = "blocked", ~Signalled,
                      \A u \in Threads : at[u] # "wake"
               PROVE  \E u \in Threads : OnItsWay(u)'
    BY <1>3, <1>s DEF SomebodyComes, OnItsWay
  <2>c. Coming = {counter}
    BY DEF Coming
  <2>1. b # t
    <3> SUFFICES ASSUME b = t PROVE FALSE
      OBVIOUS
    <3>1. call[t].pc \in Entering /\ counter <= call[t].epoch /\ call[t].mode = "WAIT"
      BY <1>2 DEF OwnStep
    <3>2. at[t] = "waited" /\ call[t].epoch \in Nat
      BY <1>0, <1>5, <3>1 DEF ThreadOK, KernelInv, KernelType, Calls, Entering
    <3> QED BY <1>0, <1>2, <2>c, <3>1, <3>2 DEF NotStale
  <2>2. call[b].pc = "blocked" /\ call'[b] = call[b]
    BY <1>2, <2>1 DEF OthersSame
  <2>3. PICK v \in Threads : OnItsWay(v)
    BY <1>0, <2>2 DEF SomebodyComes
  <2>4. CASE v # t /\ call'[v] = call[v]
    BY <1>3, <2>3, <2>4 DEF OnItsWay
  <2>5. CASE v # t /\ call[v].pc = "blocked" /\ call'[v].pc = "woken"
    BY <1>3, <2>3, <2>5 DEF OnItsWay, Entering
  <2>6. CASE v = t
    <3>1. CASE at[t] = "waited"
      <4>1. call'[t].pc # "blocked"
        <5> SUFFICES ASSUME call'[t].pc = "blocked" PROVE FALSE
          OBVIOUS
        <5>1. call[t].pc \in Entering /\ counter <= call[t].epoch
          BY <1>2 DEF OwnStep
        <5>2. call[t].epoch \in Nat
          BY <1>0 DEF KernelInv, KernelType, Calls
        <5> QED BY <1>0, <1>2, <2>c, <3>1, <5>1, <5>2 DEF NotStale
      <4> QED BY <1>3, <3>1, <4>1 DEF OnItsWay
    <3>2. CASE at[t] = "waking"
      <4>1. call[t].pc \in Entering /\ call[t].mode = "ONE" /\ call[t].id = mutex
        BY <1>0, <2>3, <2>6, <3>2 DEF OnItsWay, ThreadOK, Entering
      <4>2. CASE call'[t].pc \in Entering
        BY <1>3, <3>2, <4>2 DEF OnItsWay
      <4>3. CASE call'[t].pc \notin Entering
        <5>1. call'[b].id = mutex
          BY <1>0, <2>2 DEF ThreadOK, Idle, Entering
        <5>2. PICK u \in Threads : u # t /\ call[u].pc = "blocked" /\ call'[u].pc = "woken"
          BY <1>2, <4>1, <4>3, <5>1 DEF WakeDone
        <5>3. at[u] = "waited"
          BY <1>0, <5>2 DEF ThreadOK, Idle, Entering
        <5> QED BY <1>3, <5>2, <5>3 DEF OnItsWay
      <4> QED BY <4>2, <4>3
    <3> QED BY <1>5, <3>1, <3>2
  <2> QED BY <1>2, <2>4, <2>5, <2>6 DEF OthersSame
<1> QED BY <1>1, <1>4, <1>6, <1>7, <1>8, <1>9 DEF MutexInv

\* Taking the lock writes the bit back when the thread has counted other waiters.
LEMMA TryLockInv == ASSUME MutexInv, NEW t \in Threads, TryLock(t) PROVE MutexInv'
<1> USE EpochAssumption, MutexAssumption
<1>0. KernelInv /\ MutexType /\ CountOK /\ SomebodyComes /\ \A u \in Threads : ThreadOK(u) /\ NotStale(u)
  BY DEF MutexInv
<1>1. /\ obj' = obj /\ bucket' = bucket /\ counter' = counter /\ call' = call /\ epochs' = epochs
      /\ seen' = seen /\ handled' = handled /\ failed' = failed
      /\ waiterCount' = waiterCount /\ new' = new /\ at[t] = "try"
  BY DEF TryLock, vars
<1>2. KernelInv'
  BY <1>0, <1>1, KernelKept
<1>A. CASE lock = Free
  <2>1. lock' = new[t] /\ at' = [at EXCEPT ![t] = "critical"] /\ old' = old
    BY <1>A DEF TryLock, Goto
  <2>2. at'[t] = "critical" /\ \A u \in Threads : u # t => at'[u] = at[u]
    BY <1>0, <2>1 DEF MutexType
  <2>3. lock.owner = None /\ ~lock.waiter
    BY <1>A DEF Free
  <2>4. MutexType'
    BY <1>0, <1>1, <2>1 DEF MutexType, Places
  <2>5. \A u \in Threads : ThreadOK(u)'
    <3> TAKE u \in Threads
    <3>1. ThreadOK(u) /\ (u # t => at[u] # "critical")
      BY <1>0, <2>3 DEF ThreadOK
    <3> QED BY <1>1, <2>1, <2>2, <3>1 DEF ThreadOK
  <2>6. (Signalled => Signalled') /\ Coming \subseteq Coming'
    BY <1>1, <2>1, <2>2, <2>3 DEF Signalled, Coming
  <2>7. \A u \in Threads : NotStale(u)'
    <3> TAKE u \in Threads
    <3>1. NotStale(u)
      BY <1>0
    <3> QED BY <1>1, <2>2, <2>6, <3>1 DEF NotStale
  <2>8. CountOK'
    <3>1. Waiters' = Waiters
      BY <1>1, <2>2 DEF Waiters
    <3> QED BY <1>0, <1>1, <3>1 DEF CountOK
  <2>9. SomebodyComes'
    <3>1. \A u \in Threads : u # t /\ OnItsWay(u) => OnItsWay(u)'
      BY <1>1, <2>2 DEF OnItsWay
    <3>2. OnItsWay(t) => Signalled'
      BY <1>1, <2>1 DEF OnItsWay, Signalled
    <3> QED BY <1>0, <1>1, <2>6, <3>1, <3>2 DEF SomebodyComes
  <2> QED BY <1>2, <2>4, <2>5, <2>7, <2>8, <2>9 DEF MutexInv
<1>B. CASE lock # Free
  <2>1. lock' = lock /\ at' = [at EXCEPT ![t] = "epoch"] /\ old' = [old EXCEPT ![t] = lock]
    BY <1>B DEF TryLock, Goto
  <2>2. at'[t] = "epoch" /\ \A u \in Threads : u # t => at'[u] = at[u] /\ old'[u] = old[u]
    BY <1>0, <2>1 DEF MutexType
  <2>4. MutexType'
    BY <1>0, <1>1, <2>1 DEF MutexType, Places
  <2>5. \A u \in Threads : ThreadOK(u)'
    <3> TAKE u \in Threads
    <3>1. ThreadOK(u)
      BY <1>0
    <3> QED BY <1>1, <2>1, <2>2, <3>1 DEF ThreadOK
  <2>6. (Signalled => Signalled') /\ Coming \subseteq Coming'
    BY <1>1, <2>1, <2>2 DEF Signalled, Coming
  <2>7. \A u \in Threads : NotStale(u)'
    <3> TAKE u \in Threads
    <3>1. NotStale(u)
      BY <1>0
    <3> QED BY <1>1, <2>2, <2>6, <3>1 DEF NotStale
  <2>8. CountOK'
    <3>1. Waiters' = Waiters
      BY <1>1, <2>2 DEF Waiters
    <3> QED BY <1>0, <1>1, <3>1 DEF CountOK
  <2>9. SomebodyComes'
    <3>1. \A u \in Threads : OnItsWay(u) => OnItsWay(u)'
      BY <1>1, <2>2 DEF OnItsWay
    <3> QED BY <1>0, <1>1, <2>6, <3>1 DEF SomebodyComes
  <2> QED BY <1>2, <2>4, <2>5, <2>7, <2>8, <2>9 DEF MutexInv
<1> QED BY <1>A, <1>B

\* The epoch that is loaded has not been passed.
LEMMA LoadEpochInv == ASSUME MutexInv, NEW t \in Threads, LoadEpoch(t) PROVE MutexInv'
<1> USE EpochAssumption, MutexAssumption
<1>0. KernelInv /\ MutexType /\ CountOK /\ SomebodyComes /\ \A u \in Threads : ThreadOK(u) /\ NotStale(u)
  BY DEF MutexInv
<1>1. /\ obj' = obj /\ bucket' = bucket /\ counter' = counter /\ call' = call /\ epochs' = epochs
      /\ handled' = handled /\ failed' = failed /\ lock' = lock /\ old' = old
      /\ waiterCount' = waiterCount /\ new' = new /\ at[t] = "epoch"
  BY DEF LoadEpoch
<1>2. KernelInv'
  BY <1>0, <1>1, KernelKept
<1>r. PICK r \in Loaded : r.epoch = epochs[mutex] /\ seen' = [seen EXCEPT ![t] = r]
  BY <1>0 DEF LoadEpoch, Loaded, MutexType
<1>3. /\ at'[t] = "bit" /\ \A u \in Threads : u # t => at'[u] = at[u] /\ seen'[u] = seen[u]
      /\ seen'[t] = r
  BY <1>0, <1>r DEF MutexType, LoadEpoch, Goto
<1>4. MutexType'
  BY <1>0, <1>1, <1>r DEF MutexType, Places, LoadEpoch, Goto
<1>5. \A u \in Threads : ThreadOK(u)'
  <2> TAKE u \in Threads
  <2>1. ThreadOK(u) /\ epochs[mutex] \in Nat
    BY <1>0 DEF MutexType
  <2>2. CASE u = t
    BY <1>1, <1>3, <1>r, <2>1, <2>2 DEF ThreadOK
  <2>3. CASE u # t
    BY <1>1, <1>3, <2>1, <2>3 DEF ThreadOK
  <2> QED BY <2>2, <2>3
<1>6. (Signalled => Signalled') /\ Coming \subseteq Coming'
  BY <1>1, <1>3 DEF Signalled, Coming
<1>7. \A u \in Threads : NotStale(u)'
  <2> TAKE u \in Threads
  <2>1. NotStale(u)
    BY <1>0
  <2> QED BY <1>1, <1>3, <1>6, <2>1 DEF NotStale
<1>8. CountOK'
  <2>1. Waiters' = Waiters
    BY <1>1, <1>3 DEF Waiters
  <2> QED BY <1>0, <1>1, <2>1 DEF CountOK
<1>9. SomebodyComes'
  <2>1. \A u \in Threads : OnItsWay(u) => OnItsWay(u)'
    BY <1>1, <1>3 DEF OnItsWay
  <2> QED BY <1>0, <1>1, <1>6, <2>1 DEF SomebodyComes
<1> QED BY <1>2, <1>4, <1>5, <1>7, <1>8, <1>9 DEF MutexInv

\* Setting the bit signals to the owner; failing to set it goes back.
LEMMA SetWaiterBitInv == ASSUME MutexInv, NEW t \in Threads, SetWaiterBit(t) PROVE MutexInv'
<1> USE EpochAssumption, MutexAssumption
<1>0. KernelInv /\ MutexType /\ CountOK /\ SomebodyComes /\ \A u \in Threads : ThreadOK(u) /\ NotStale(u)
  BY DEF MutexInv
<1>1. /\ obj' = obj /\ bucket' = bucket /\ counter' = counter /\ call' = call /\ epochs' = epochs
      /\ seen' = seen /\ handled' = handled /\ failed' = failed
      /\ waiterCount' = waiterCount /\ new' = new /\ at[t] = "bit"
  BY DEF SetWaiterBit, vars
<1>2. KernelInv'
  BY <1>0, <1>1, KernelKept
<1>A. CASE lock = old[t]
  <2>1. lock' = [lock EXCEPT !.waiter = TRUE] /\ at' = [at EXCEPT ![t] = "count"] /\ old' = old
    BY <1>A DEF SetWaiterBit, Goto
  <2>2. at'[t] = "count" /\ \A u \in Threads : u # t => at'[u] = at[u]
    BY <1>0, <2>1 DEF MutexType
  <2>3. lock' \in Words /\ lock'.waiter /\ lock'.owner = lock.owner
    BY <1>0, <2>1 DEF MutexType, Words
  <2>4. MutexType'
    BY <1>0, <1>1, <2>1, <2>3 DEF MutexType, Places
  <2>5. \A u \in Threads : ThreadOK(u)'
    <3> TAKE u \in Threads
    <3>1. ThreadOK(u)
      BY <1>0
    <3> QED BY <1>1, <2>2, <2>3, <3>1 DEF ThreadOK
  <2>6. Signalled'
    BY <2>3 DEF Signalled
  <2>7. \A u \in Threads : NotStale(u)'
    BY <2>6 DEF NotStale
  <2>8. CountOK'
    <3>1. Waiters' = Waiters
      BY <1>1, <2>2 DEF Waiters
    <3> QED BY <1>0, <1>1, <3>1 DEF CountOK
  <2>9. SomebodyComes'
    BY <2>6 DEF SomebodyComes
  <2> QED BY <1>2, <2>4, <2>5, <2>7, <2>8, <2>9 DEF MutexInv
<1>B. CASE lock # old[t]
  <2>a. PICK a \in {"epoch", "try"} : at' = [at EXCEPT ![t] = a]
    BY <1>B DEF SetWaiterBit, Goto
  <2>1. lock' = lock /\ old' = [old EXCEPT ![t] = lock]
    BY <1>B DEF SetWaiterBit
  <2>2. at'[t] = a /\ \A u \in Threads : u # t => at'[u] = at[u] /\ old'[u] = old[u]
    BY <1>0, <2>1, <2>a DEF MutexType
  <2>4. MutexType'
    BY <1>0, <1>1, <2>1, <2>a DEF MutexType, Places
  <2>5. \A u \in Threads : ThreadOK(u)'
    <3> TAKE u \in Threads
    <3>1. ThreadOK(u)
      BY <1>0
    <3> QED BY <1>1, <2>1, <2>2, <2>a, <3>1 DEF ThreadOK
  <2>6. (Signalled => Signalled') /\ Coming \subseteq Coming'
    BY <1>1, <2>1, <2>2 DEF Signalled, Coming
  <2>7. \A u \in Threads : NotStale(u)'
    <3> TAKE u \in Threads
    <3>1. NotStale(u)
      BY <1>0
    <3> QED BY <1>1, <2>2, <2>6, <2>a, <3>1 DEF NotStale
  <2>8. CountOK'
    <3>1. Waiters' = Waiters
      BY <1>1, <2>2, <2>a DEF Waiters
    <3> QED BY <1>0, <1>1, <3>1 DEF CountOK
  <2>9. SomebodyComes'
    <3>1. \A u \in Threads : OnItsWay(u) => OnItsWay(u)'
      BY <1>1, <2>2, <2>a DEF OnItsWay
    <3> QED BY <1>0, <1>1, <2>6, <3>1 DEF SomebodyComes
  <2> QED BY <1>2, <2>4, <2>5, <2>7, <2>8, <2>9 DEF MutexInv
<1> QED BY <1>A, <1>B

\* The waiters can be counted.
LEMMA WaitersFinite == IsFiniteSet(Waiters) /\ Cardinality(Waiters) \in Nat
<1>1. Waiters \subseteq Threads
  BY DEF Waiters
<1> QED BY <1>1, EpochAssumption, FS_Subset, FS_CardinalityType

\* A waiter is counted before it waits.
LEMMA CountWaiterInv == ASSUME MutexInv, NEW t \in Threads, CountWaiter(t) PROVE MutexInv'
<1> USE EpochAssumption, MutexAssumption
<1>0. KernelInv /\ MutexType /\ CountOK /\ SomebodyComes /\ \A u \in Threads : ThreadOK(u) /\ NotStale(u)
  BY DEF MutexInv
<1>1. /\ obj' = obj /\ bucket' = bucket /\ counter' = counter /\ call' = call /\ epochs' = epochs
      /\ seen' = seen /\ handled' = handled /\ failed' = failed /\ lock' = lock /\ old' = old
      /\ waiterCount' = waiterCount + 1 /\ new' = new /\ at[t] = "count"
      /\ at' = [at EXCEPT ![t] = "wait"]
  BY DEF CountWaiter, vars, Goto
<1>2. KernelInv'
  BY <1>0, <1>1, KernelKept
<1>3. at'[t] = "wait" /\ \A u \in Threads : u # t => at'[u] = at[u]
  BY <1>0, <1>1 DEF MutexType
<1>4. MutexType'
  BY <1>0, <1>1 DEF MutexType, Places
<1>5. \A u \in Threads : ThreadOK(u)'
  <2> TAKE u \in Threads
  <2>1. ThreadOK(u)
    BY <1>0
  <2> QED BY <1>1, <1>3, <2>1 DEF ThreadOK
<1>6. (Signalled => Signalled') /\ Coming \subseteq Coming'
  BY <1>1, <1>3 DEF Signalled, Coming
<1>7. \A u \in Threads : NotStale(u)'
  <2> TAKE u \in Threads
  <2>1. NotStale(u)
    BY <1>0
  <2> QED BY <1>1, <1>3, <1>6, <2>1 DEF NotStale
<1>8. CountOK'
  <2>1. Waiters' = Waiters \cup {t} /\ t \notin Waiters
    BY <1>1, <1>3 DEF Waiters
  <2>2. Cardinality(Waiters') = Cardinality(Waiters) + 1
    BY <2>1, WaitersFinite, FS_AddElement
  <2> QED BY <1>0, <1>1, <2>2 DEF CountOK
<1>9. SomebodyComes'
  <2>1. \A u \in Threads : OnItsWay(u) => OnItsWay(u)'
    BY <1>1, <1>3 DEF OnItsWay
  <2> QED BY <1>0, <1>1, <1>6, <2>1 DEF SomebodyComes
<1> QED BY <1>2, <1>4, <1>5, <1>7, <1>8, <1>9 DEF MutexInv

\* test_lock enters esync_wait.
LEMMA LockWaitInv == ASSUME MutexInv, NEW t \in Threads, LockWait(t) PROVE MutexInv'
<1> USE EpochAssumption, MutexAssumption
<1>0. KernelInv /\ MutexType /\ CountOK /\ SomebodyComes /\ \A u \in Threads : ThreadOK(u) /\ NotStale(u)
  BY DEF MutexInv
<1>1. /\ counter' = counter /\ epochs' = epochs /\ lock' = lock /\ old' = old
      /\ waiterCount' = waiterCount /\ new' = new /\ at[t] = "wait"
      /\ at' = [at EXCEPT ![t] = "waited"] /\ seen' = [seen EXCEPT ![t] = None]
      /\ EsyncWait(t, mutex, seen[t].epoch)
  BY DEF LockWait, Goto, EsyncWait
<1>i. call[t] = Idle /\ seen[t].epoch \in Nat /\ seen[t].epoch <= epochs[mutex]
  BY <1>0, <1>1 DEF ThreadOK, Loaded
<1>2. KernelInv'
  BY <1>0, <1>1, <1>i, EsyncWaitInv
<1>3. /\ at'[t] = "waited"
      /\ \A u \in Threads : u # t => at'[u] = at[u] /\ seen'[u] = seen[u] /\ call'[u] = call[u]
  BY <1>0, <1>1 DEF MutexType, EsyncWait, KernelInv, KernelType
<1>c. /\ call'[t].pc = "bucket" /\ call'[t].id = mutex /\ call'[t].mode = "WAIT"
      /\ call'[t].epoch = seen[t].epoch
  BY <1>0, <1>1 DEF EsyncWait, KernelInv, KernelType, Idle
<1>4. MutexType'
  BY <1>0, <1>1 DEF MutexType, Places
<1>5. \A u \in Threads : ThreadOK(u)'
  <2> TAKE u \in Threads
  <2>1. ThreadOK(u)
    BY <1>0
  <2>2. CASE u = t
    BY <1>1, <1>3, <1>c, <1>i, <2>1, <2>2 DEF ThreadOK
  <2>3. CASE u # t
    BY <1>1, <1>3, <2>1, <2>3 DEF ThreadOK
  <2> QED BY <2>2, <2>3
<1>6. (Signalled => Signalled') /\ Coming \subseteq Coming'
  BY <1>1, <1>3 DEF Signalled, Coming
<1>7. \A u \in Threads : NotStale(u)'
  <2> TAKE u \in Threads
  <2>1. NotStale(u)
    BY <1>0
  <2>2. CASE u = t
    BY <1>1, <1>3, <1>c, <1>6, <2>1, <2>2 DEF NotStale
  <2>3. CASE u # t
    BY <1>1, <1>3, <1>6, <2>1, <2>3 DEF NotStale
  <2> QED BY <2>2, <2>3
<1>8. CountOK'
  <2>1. Waiters' = Waiters
    BY <1>1, <1>3 DEF Waiters
  <2> QED BY <1>0, <1>1, <2>1 DEF CountOK
<1>9. SomebodyComes'
  <2>1. OnItsWay(t)'
    BY <1>3, <1>c DEF OnItsWay
  <2> QED BY <2>1 DEF SomebodyComes
<1> QED BY <1>2, <1>4, <1>5, <1>7, <1>8, <1>9 DEF MutexInv

\* A thread back from its wait takes the others' bit with it: whoever is blocked is
\* still counted.
LEMMA UncountInv == ASSUME MutexInv, NEW t \in Threads, Uncount(t) PROVE MutexInv'
<1> USE EpochAssumption, MutexAssumption
<1>0. KernelInv /\ MutexType /\ CountOK /\ SomebodyComes /\ \A u \in Threads : ThreadOK(u) /\ NotStale(u)
  BY DEF MutexInv
<1>1. /\ obj' = obj /\ bucket' = bucket /\ counter' = counter /\ call' = call /\ epochs' = epochs
      /\ seen' = seen /\ handled' = handled /\ failed' = failed /\ lock' = lock /\ old' = old
      /\ waiterCount' = waiterCount - 1 /\ at[t] = "waited" /\ call[t] = Idle
      /\ at' = [at EXCEPT ![t] = "try"]
  BY DEF Uncount, vars, Goto, NotInside
<1>b. PICK b \in BOOLEAN : (b <=> waiterCount # 1) /\ new' = [new EXCEPT ![t] = Own(t, b)]
  <2>1. (waiterCount # 1) \in BOOLEAN
    OBVIOUS
  <2> QED BY <2>1 DEF Uncount
<1>2. KernelInv'
  BY <1>0, <1>1, KernelKept
<1>w. Own(t, b) \in Words /\ Own(t, b).owner = t /\ Own(t, b).waiter = b
  BY DEF Own, Words
<1>3. /\ at'[t] = "try" /\ new'[t] = Own(t, b)
      /\ \A u \in Threads : u # t => at'[u] = at[u] /\ new'[u] = new[u]
  BY <1>0, <1>1, <1>b DEF MutexType
<1>4. MutexType'
  BY <1>0, <1>1, <1>b, <1>w DEF MutexType, Places
<1>5. \A u \in Threads : ThreadOK(u)'
  <2> TAKE u \in Threads
  <2>1. ThreadOK(u)
    BY <1>0
  <2>2. CASE u = t
    BY <1>1, <1>3, <1>w, <2>1, <2>2 DEF ThreadOK
  <2>3. CASE u # t
    BY <1>1, <1>3, <2>1, <2>3 DEF ThreadOK
  <2> QED BY <2>2, <2>3
<1>6. (Signalled => Signalled') /\ Coming \subseteq Coming'
  BY <1>1, <1>3 DEF Signalled, Coming
<1>7. \A u \in Threads : NotStale(u)'
  <2> TAKE u \in Threads
  <2>1. NotStale(u)
    BY <1>0
  <2> QED BY <1>1, <1>3, <1>6, <2>1 DEF NotStale
<1>8. CountOK'
  <2>1. Waiters' = Waiters \ {t} /\ t \in Waiters
    BY <1>1, <1>3 DEF Waiters
  <2>2. Cardinality(Waiters') = Cardinality(Waiters) - 1
    BY <2>1, WaitersFinite, FS_RemoveElement
  <2> QED BY <1>0, <1>1, <2>2 DEF CountOK
<1>9. SomebodyComes'
  <2> SUFFICES ASSUME NEW v \in Threads, call[v].pc = "blocked" PROVE OnItsWay(t)'
    BY <1>1 DEF SomebodyComes
  <2>1. v # t /\ v \in Waiters /\ t \in Waiters
    BY <1>0, <1>1 DEF ThreadOK, Waiters, Idle, Entering
  <2>2. Cardinality(Waiters) # 1
    <3> SUFFICES ASSUME Cardinality(Waiters) = 1 PROVE FALSE
      OBVIOUS
    <3>1. PICK x : Waiters = {x}
      BY WaitersFinite, FS_Singleton
    <3> QED BY <2>1, <3>1
  <2>3. b
    BY <1>0, <1>b, <2>2 DEF CountOK
  <2>4. new'[t].waiter
    BY <1>3, <1>w, <2>3
  <2> QED BY <1>3, <2>4 DEF OnItsWay
<1> QED BY <1>2, <1>4, <1>5, <1>7, <1>8, <1>9 DEF MutexInv

\* The unlock takes the word, and its bit, with it.
LEMMA DropLockInv == ASSUME MutexInv, NEW t \in Threads, DropLock(t) PROVE MutexInv'
<1> USE EpochAssumption, MutexAssumption
<1>0. KernelInv /\ MutexType /\ CountOK /\ SomebodyComes /\ \A u \in Threads : ThreadOK(u) /\ NotStale(u)
  BY DEF MutexInv
<1>1. /\ obj' = obj /\ bucket' = bucket /\ counter' = counter /\ call' = call /\ epochs' = epochs
      /\ seen' = seen /\ handled' = handled /\ lock' = Free /\ old' = [old EXCEPT ![t] = lock]
      /\ waiterCount' = waiterCount /\ new' = new /\ at[t] = "critical"
      /\ at' = [at EXCEPT ![t] = "advance"]
  BY DEF DropLock, Goto
<1>f. failed' = failed
  <2>1. lock.owner = t
    BY <1>0, <1>1 DEF ThreadOK
  <2>2. failed' = (failed \/ lock.owner # t)
    BY DEF DropLock
  <2>3. failed \in BOOLEAN
    BY <1>0 DEF KernelInv, KernelType
  <2> QED BY <2>1, <2>2, <2>3
<1>2. KernelInv'
  BY <1>0, <1>1, <1>f, KernelKept
<1>3. /\ at'[t] = "advance" /\ old'[t] = lock
      /\ \A u \in Threads : u # t => at'[u] = at[u] /\ old'[u] = old[u]
  BY <1>0, <1>1 DEF MutexType
<1>4. MutexType'
  <2>1. Free \in Words
    BY DEF Free, Words
  <2> QED BY <1>0, <1>1, <2>1 DEF MutexType, Places
<1>5. \A u \in Threads : ThreadOK(u)'
  <2> TAKE u \in Threads
  <2>1. ThreadOK(u) /\ (u # t => at[u] # "critical")
    BY <1>0, <1>1 DEF ThreadOK
  <2> QED BY <1>1, <1>3, <2>1 DEF ThreadOK
<1>6. (Signalled => Signalled') /\ Coming \subseteq Coming'
  BY <1>1, <1>3 DEF Signalled, Coming
<1>7. \A u \in Threads : NotStale(u)'
  <2> TAKE u \in Threads
  <2>1. NotStale(u)
    BY <1>0
  <2> QED BY <1>1, <1>3, <1>6, <2>1 DEF NotStale
<1>8. CountOK'
  <2>1. Waiters' = Waiters
    BY <1>1, <1>3 DEF Waiters
  <2> QED BY <1>0, <1>1, <2>1 DEF CountOK
<1>9. SomebodyComes'
  <2>1. \A u \in Threads : OnItsWay(u) => OnItsWay(u)'
    BY <1>1, <1>3 DEF OnItsWay
  <2> QED BY <1>0, <1>1, <1>6, <2>1 DEF SomebodyComes
<1> QED BY <1>2, <1>4, <1>5, <1>7, <1>8, <1>9 DEF MutexInv

\* A thread goes on to its next round.
LEMMA NextRoundInv ==
    ASSUME MutexInv, NEW t \in Threads, NextRound(t), call[t] = Idle, at[t] \in {"advance", "waking"},
           at[t] = "advance" => ~old[t].waiter, lock' = lock, waiterCount' = waiterCount,
           UNCHANGED <<obj, bucket, counter, call, seen, handled, failed>>,
           NEW e \in Nat, e >= epochs[mutex], epochs' = [epochs EXCEPT ![mutex] = e]
    PROVE  MutexInv'
<1> USE EpochAssumption, MutexAssumption
<1>0. KernelInv /\ MutexType /\ CountOK /\ SomebodyComes /\ \A u \in Threads : ThreadOK(u) /\ NotStale(u)
  BY DEF MutexInv
<1>2. KernelInv'
  BY <1>0, KernelKept
<1>a. PICK a \in {"done", "try"} : at' = [at EXCEPT ![t] = a]
  BY DEF NextRound, Goto
<1>w. Own(t, FALSE) \in Words /\ Own(t, FALSE).owner = t /\ Free \in Words
  BY DEF Own, Free, Words
<1>b. new' = [new EXCEPT ![t] = Own(t, FALSE)] /\ old' = [old EXCEPT ![t] = Free]
  BY DEF NextRound
<1>3. /\ at'[t] = a /\ new'[t] = Own(t, FALSE) /\ epochs'[mutex] = e
      /\ \A u \in Threads : u # t => at'[u] = at[u] /\ new'[u] = new[u] /\ old'[u] = old[u]
  BY <1>0, <1>a, <1>b DEF MutexType
<1>4. MutexType'
  BY <1>0, <1>a, <1>b, <1>w DEF MutexType, Places
<1>e. epochs[mutex] \in Nat
  BY <1>0 DEF MutexType
<1>5. \A u \in Threads : ThreadOK(u)'
  <2> TAKE u \in Threads
  <2>1. ThreadOK(u)
    BY <1>0
  <2>2. CASE u = t
    BY <1>a, <1>3, <1>w, <2>1, <2>2 DEF ThreadOK
  <2>3. CASE u # t
    <3>1. call[u].epoch \in Nat /\ (seen[u] \in Loaded => seen[u].epoch \in Nat)
      BY <1>0 DEF KernelInv, KernelType, Calls, Loaded
    <3> QED BY <1>3, <1>e, <2>1, <2>3, <3>1 DEF ThreadOK
  <2> QED BY <2>2, <2>3
<1>6. (Signalled => Signalled') /\ Coming \subseteq Coming'
  BY <1>3 DEF Signalled, Coming
<1>7. \A u \in Threads : NotStale(u)'
  <2> TAKE u \in Threads
  <2>1. NotStale(u)
    BY <1>0
  <2> QED BY <1>3, <1>a, <1>6, <2>1 DEF NotStale
<1>8. CountOK'
  <2>1. Waiters' = Waiters
    BY <1>3, <1>a DEF Waiters
  <2> QED BY <1>0, <2>1 DEF CountOK
<1>9. SomebodyComes'
  <2>1. \A u \in Threads : u # t /\ OnItsWay(u) => OnItsWay(u)'
    BY <1>3 DEF OnItsWay
  <2>2. ~OnItsWay(t)
    BY DEF OnItsWay, Idle, Entering
  <2> QED BY <1>0, <1>6, <2>1, <2>2 DEF SomebodyComes
<1> QED BY <1>2, <1>4, <1>5, <1>7, <1>8, <1>9 DEF MutexInv

\* The epoch advances, and every epoch that was loaded becomes stale for the wake
\* that the unlock has to make.
LEMMA AdvanceInv == ASSUME MutexInv, NEW t \in Threads, Advance(t) PROVE MutexInv'
<1> USE EpochAssumption, MutexAssumption
<1>0. KernelInv /\ MutexType /\ CountOK /\ SomebodyComes /\ \A u \in Threads : ThreadOK(u) /\ NotStale(u)
  BY DEF MutexInv
<1>e. PICK e : e = epochs[mutex] + 1
  OBVIOUS
<1>1. /\ at[t] = "advance" /\ epochs' = [epochs EXCEPT ![mutex] = e]
      /\ obj' = obj /\ bucket' = bucket /\ counter' = counter /\ call' = call
      /\ handled' = handled /\ failed' = failed /\ lock' = lock /\ waiterCount' = waiterCount
      /\ epochs[mutex] \in Nat /\ e \in Nat /\ e > epochs[mutex]
  BY <1>0, <1>e DEF Advance, MutexType
<1>i. call[t] = Idle
  BY <1>0, <1>1 DEF ThreadOK
<1>A. CASE old[t].waiter
  <2>r. PICK r \in Loaded : r.epoch = e /\ seen' = [seen EXCEPT ![t] = r]
    BY <1>1, <1>e, <1>A DEF Advance, Loaded
  <2>1. at' = [at EXCEPT ![t] = "wake"] /\ old' = old /\ new' = new
    BY <1>A DEF Advance, Goto
  <2>2. KernelInv'
    BY <1>0, <1>1, KernelKept
  <2>3. /\ at'[t] = "wake" /\ epochs'[mutex] = e /\ seen'[t] = r
        /\ \A u \in Threads : u # t => at'[u] = at[u] /\ seen'[u] = seen[u]
    BY <1>0, <1>1, <2>1, <2>r DEF MutexType
  <2>c. e \in Coming'
    BY <2>3, <2>r DEF Coming
  <2>4. MutexType'
    BY <1>0, <1>1, <2>1, <2>r DEF MutexType, Places
  <2>n. \A u \in Threads : call[u].epoch \in Nat /\ (seen[u] \in Loaded => seen[u].epoch \in Nat)
    BY <1>0 DEF KernelInv, KernelType, Calls, Loaded
  <2>5. \A u \in Threads : ThreadOK(u)'
    <3> TAKE u \in Threads
    <3>1. ThreadOK(u)
      BY <1>0
    <3>2. CASE u = t
      BY <1>1, <1>i, <2>1, <2>3, <2>r, <3>1, <3>2 DEF ThreadOK
    <3>3. CASE u # t
      BY <1>1, <2>1, <2>3, <2>n, <3>1, <3>3 DEF ThreadOK
    <3> QED BY <3>2, <3>3
  <2>7. \A u \in Threads : NotStale(u)'
    <3> TAKE u \in Threads
    <3>1. ThreadOK(u)
      BY <1>0
    <3>2. CASE u = t
      BY <2>3, <3>2 DEF NotStale
    <3>3. CASE u # t
      <4>1. at[u] \in {"count", "wait"} => e > seen'[u].epoch
        BY <1>1, <2>3, <2>n, <3>1, <3>3 DEF ThreadOK
      <4>2. at[u] = "waited" /\ call[u].pc \in Entering => e > call'[u].epoch
        BY <1>1, <2>n, <3>1 DEF ThreadOK, Entering
      <4> QED BY <1>1, <2>3, <2>c, <3>3, <4>1, <4>2 DEF NotStale
    <3> QED BY <3>2, <3>3
  <2>8. CountOK'
    <3>1. Waiters' = Waiters
      BY <1>1, <2>3 DEF Waiters
    <3> QED BY <1>0, <1>1, <3>1 DEF CountOK
  <2>9. SomebodyComes'
    <3>1. OnItsWay(t)'
      BY <2>3 DEF OnItsWay
    <3> QED BY <3>1 DEF SomebodyComes
  <2> QED BY <2>2, <2>4, <2>5, <2>7, <2>8, <2>9 DEF MutexInv
<1>B. CASE ~old[t].waiter
  <2>1. NextRound(t) /\ UNCHANGED <<obj, bucket, counter, call, seen, handled, failed>>
    BY <1>B DEF Advance
  <2>2. e >= epochs[mutex]
    BY <1>1
  <2> QED BY <1>1, <1>B, <1>i, <2>1, <2>2, NextRoundInv
<1> QED BY <1>A, <1>B

\* The wake enters the kernel: the counter takes the epoch that made the others stale.
LEMMA UnlockWakeInv == ASSUME MutexInv, NEW t \in Threads, UnlockWake(t) PROVE MutexInv'
<1> USE EpochAssumption, MutexAssumption
<1>0. KernelInv /\ MutexType /\ CountOK /\ SomebodyComes /\ \A u \in Threads : ThreadOK(u) /\ NotStale(u)
  BY DEF MutexInv
<1>e. PICK e : e = seen[t].epoch
  OBVIOUS
<1>1. /\ at[t] = "wake" /\ epochs' = epochs /\ lock' = lock /\ waiterCount' = waiterCount
      /\ old' = old /\ new' = new /\ at' = [at EXCEPT ![t] = "waking"]
      /\ seen' = [seen EXCEPT ![t] = None] /\ EsyncWake(t, mutex, e, "ONE", None)
  BY <1>e DEF UnlockWake, Goto
<1>i. call[t] = Idle /\ e \in Nat
  BY <1>0, <1>1, <1>e DEF ThreadOK, Loaded
<1>2. KernelInv'
  BY <1>0, <1>1, <1>i, EsyncWakeInv
<1>3. /\ at'[t] = "waking"
      /\ \A u \in Threads : u # t => at'[u] = at[u] /\ call'[u] = call[u] /\ seen'[u] = seen[u]
      /\ call'[t].pc = "bucket" /\ call'[t].id = mutex /\ call'[t].mode = "ONE"
  BY <1>0, <1>1 DEF MutexType, EsyncWake, KernelInv, KernelType, Idle
<1>n. counter \in Nat /\ counter' \in Nat /\ counter' >= e /\ counter' >= counter
  BY <1>0, <1>1, <1>i DEF EsyncWake, UpdateEpoch, KernelInv, KernelType
<1>c. ASSUME NEW x \in Nat, NEW c \in Coming, c > x PROVE \E d \in Coming' : d > x
  <2>1. CASE c = counter \/ c = e
    <3>1. counter' \in Coming' /\ counter' > x
      BY <1>n, <1>i, <1>c, <2>1 DEF Coming
    <3> QED BY <3>1
  <2>2. CASE c # counter /\ c # e
    <3>1. PICK u \in Threads : at[u] = "wake" /\ c = seen[u].epoch
      BY <2>2 DEF Coming
    <3>2. c \in Coming'
      BY <1>3, <1>e, <2>2, <3>1 DEF Coming
    <3> QED BY <1>c, <3>2
  <2> QED BY <2>1, <2>2
<1>4. MutexType'
  BY <1>0, <1>1 DEF MutexType, Places
<1>5. \A u \in Threads : ThreadOK(u)'
  <2> TAKE u \in Threads
  <2>1. ThreadOK(u)
    BY <1>0
  <2>2. CASE u = t
    BY <1>1, <1>3, <2>1, <2>2 DEF ThreadOK, Entering
  <2>3. CASE u # t
    BY <1>1, <1>3, <2>1, <2>3 DEF ThreadOK
  <2> QED BY <2>2, <2>3
<1>6. Signalled => Signalled'
  BY <1>1, <1>3 DEF Signalled
<1>7. \A u \in Threads : NotStale(u)'
  <2> TAKE u \in Threads
  <2>1. NotStale(u) /\ call[u].epoch \in Nat
    BY <1>0 DEF KernelInv, KernelType, Calls
  <2>2. at[u] \in {"count", "wait"} => seen[u].epoch \in Nat
    BY <1>0 DEF ThreadOK, Loaded
  <2>3. CASE u = t
    BY <1>3, <2>3 DEF NotStale
  <2>4. CASE u # t
    BY <1>3, <1>6, <1>c, <2>1, <2>2, <2>4 DEF NotStale
  <2> QED BY <2>3, <2>4
<1>8. CountOK'
  <2>1. Waiters' = Waiters
    BY <1>1, <1>3 DEF Waiters
  <2> QED BY <1>0, <1>1, <2>1 DEF CountOK
<1>9. SomebodyComes'
  <2>1. OnItsWay(t)'
    BY <1>3 DEF OnItsWay, Entering
  <2> QED BY <2>1 DEF SomebodyComes
<1> QED BY <1>2, <1>4, <1>5, <1>7, <1>8, <1>9 DEF MutexInv

\* The wake is done.
LEMMA WokeInv == ASSUME MutexInv, NEW t \in Threads, Woke(t) PROVE MutexInv'
<1> USE MutexAssumption
<1>1. /\ NextRound(t) /\ call[t] = Idle /\ at[t] = "waking" /\ lock' = lock /\ waiterCount' = waiterCount
      /\ UNCHANGED <<obj, bucket, counter, call, seen, handled, failed>> /\ epochs' = epochs
  BY DEF Woke, vars, NotInside
<1>2. epochs \in [Ids -> Nat]
  BY DEF MutexInv, MutexType
<1>e. PICK e : e = epochs[mutex]
  OBVIOUS
<1>3. e \in Nat /\ e >= epochs[mutex] /\ epochs' = [epochs EXCEPT ![mutex] = e]
  BY <1>1, <1>2, <1>e
<1> QED BY <1>1, <1>3, NextRoundInv

\* A step that changes nothing.
LEMMA MutexKept == ASSUME MutexInv, UNCHANGED <<vars, mvars>> PROVE MutexInv'
<1>0. KernelInv /\ MutexType /\ CountOK /\ SomebodyComes /\ \A u \in Threads : ThreadOK(u) /\ NotStale(u)
  BY DEF MutexInv
<1>1. KernelInv'
  BY <1>0, KernelKept DEF vars
<1>2. MutexType'
  BY <1>0 DEF MutexType, vars, mvars
<1>3. \A u \in Threads : ThreadOK(u)'
  BY <1>0 DEF ThreadOK, vars, mvars
<1>4. (Signalled' <=> Signalled) /\ Coming' = Coming
  BY DEF Signalled, Coming, vars, mvars
<1>5. \A u \in Threads : NotStale(u)'
  BY <1>0, <1>4 DEF NotStale, vars, mvars
<1>6. CountOK'
  BY <1>0 DEF CountOK, Waiters, mvars
<1>7. SomebodyComes'
  BY <1>0, <1>4 DEF SomebodyComes, OnItsWay, vars, mvars
<1> QED BY <1>1, <1>2, <1>3, <1>5, <1>6, <1>7 DEF MutexInv

-----------------------------------------------------------------------------
(* The theorems *)

\* The test starts with the lock free and everybody about to try it.
LEMMA MutexInitInv == MutexInit => MutexInv
<1> USE EpochAssumption, MutexAssumption
<1> SUFFICES ASSUME MutexInit PROVE MutexInv
  OBVIOUS
<1>1. KernelInv /\ call = [t \in Threads |-> Idle] /\ epochs = [i \in Ids |-> 0]
      /\ seen = [t \in Threads |-> None]
  BY InitInv DEF MutexInit, EpochInv, Init
<1>2. /\ lock = Free /\ waiterCount = 0
      /\ at = [t \in Threads |-> "try"]
      /\ old = [t \in Threads |-> Free]
      /\ new = [t \in Threads |-> Own(t, FALSE)]
  BY DEF MutexInit
<1>3. Free \in Words /\ \A t \in Threads : Own(t, FALSE) \in Words /\ Own(t, FALSE).owner = t
  BY DEF Free, Own, Words
<1>4. MutexType
  BY <1>1, <1>2, <1>3 DEF MutexType, Places
<1>5. \A t \in Threads : ThreadOK(t) /\ NotStale(t)
  BY <1>1, <1>2, <1>3 DEF ThreadOK, NotStale
<1>6. CountOK
  <2>1. Waiters = {}
    BY <1>2 DEF Waiters
  <2> QED BY <1>2, <2>1, FS_EmptySet DEF CountOK
<1>7. SomebodyComes
  BY <1>1 DEF SomebodyComes, Idle
<1> QED BY <1>1, <1>4, <1>5, <1>6, <1>7 DEF MutexInv

\* Every step keeps the invariant.
LEMMA MutexStepInv == MutexInv /\ [MutexNext]_<<vars, mvars>> => MutexInv'
<1> SUFFICES ASSUME MutexInv, [MutexNext]_<<vars, mvars>> PROVE MutexInv'
  OBVIOUS
<1>1. CASE UNCHANGED <<vars, mvars>>
  BY <1>1, MutexKept
<1>2. CASE Done
  BY <1>2, MutexKept DEF Done
<1>3. ASSUME NEW t \in Threads, Step(t) PROVE MutexInv'
  BY <1>3, TryLockInv, LoadEpochInv, SetWaiterBitInv, CountWaiterInv, LockWaitInv, UncountInv,
     DropLockInv, AdvanceInv, UnlockWakeInv, WokeInv, InsideMutexInv DEF Step
<1> QED BY <1>1, <1>2, <1>3 DEF MutexNext

\* The inductive invariant holds of every behaviour.
THEOREM MutexInvariantHolds == MutexSpec => []MutexInv
  BY MutexInitInv, MutexStepInv, PTL DEF MutexSpec

\* test_lock and test_unlock over esync: while a thread is blocked on the mutex, the bit
\* or a thread that will act on it is there.
THEOREM NobodyIsForgotten == MutexSpec => []WakePending
<1>1. MutexInv => WakePending
  <2> SUFFICES ASSUME MutexInv, \E t \in Threads : call[t].pc = "blocked" PROVE WakePending
    BY DEF WakePending
  <2>1. Signalled \/ \E t \in Threads : OnItsWay(t)
    BY DEF MutexInv, SomebodyComes
  <2>2. \A t \in Threads : call[t].pc \in Entering => call[t] # Idle
    BY DEF Entering, Idle
  <2> QED BY <2>1, <2>2 DEF WakePending, Signalled, OnItsWay
<1> QED BY <1>1, MutexInvariantHolds, PTL

\* Two threads are never both between test_lock and test_unlock.
MutualExclusion ==
    \A t, u \in Threads : at[t] = "critical" /\ at[u] = "critical" => t = u

\* The lock of the test excludes.
THEOREM LockExcludes == MutexSpec => []MutualExclusion
<1>1. MutexInv => MutualExclusion
  BY DEF MutexInv, ThreadOK, MutualExclusion
<1> QED BY <1>1, MutexInvariantHolds, PTL

\* The objects that back the mutex are safe too, and no wait of it misses a wake:
\* the test's threads are clients that keep the rules.
THEOREM MutexObjectsAreSafe == MutexSpec => [](ObjectsSafe /\ NoMissedWake)
<1>1. MutexInv => ObjectsSafe /\ NoMissedWake
  BY KernelInvSafe DEF MutexInv, KernelInv
<1> QED BY <1>1, MutexInvariantHolds, PTL
=============================================================================
