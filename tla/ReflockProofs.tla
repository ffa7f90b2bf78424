--------------------------- MODULE ReflockProofs ---------------------------
(***************************************************************************)
(* Theorems about Reflock, for any number of threads, references and any   *)
(* limits that meet ReflockAssumption.                                     *)
(***************************************************************************)
EXTENDS Reflock, FiniteSetTheorems, TLAPS

-----------------------------------------------------------------------------
(* The inductive invariant *)

\* How the bits go together: somebody can be awaited, and FORCE allowed, only while
\* there is an owner, and an object is freed unlocked.
WordInv ==
    /\ word.wake => word.owner # None
    /\ word.allowForce => word.owner # None
    /\ word.delayedFree => word.allocated /\ word.owner = None
    /\ ~word.allocated => word.waiters = 0

\* A thread on its way into a wait does not own the lock, and once it has decided
\* to sleep it has seen an owner that was told to wake it.
WaitInv ==
    \A t \in Threads :
        /\ pc[t] = "mustWait" => word.owner # t
        /\ pc[t] = "sleepCheck" => observed[t][1] # None /\ observed[t][3] = TRUE

\* Nobody is inside a wait or about to free unless the object is live; the thread
\* about to free it is the only one, and there is no waiter left.
LifeInv ==
    /\ life # "live" => Counted = {} /\ \A t \in Threads : pc[t] # "freeing"
    /\ \A t \in Threads : pc[t] = "freeing" => word.delayedFree /\ word.waiters = 0
    /\ \A t, u \in Threads : pc[t] = "freeing" /\ pc[u] = "freeing" => t = u

IInv ==
    /\ TypeOK /\ NoPanic
    /\ WordInv /\ WaitInv /\ LifeInv
    /\ NoLostWakeup /\ CountersExact /\ RefcountHalted

-----------------------------------------------------------------------------
(* Cardinalities *)

\* Adding a member of a finite set T to a part of T that lacks it.
LEMMA CardAdd ==
    ASSUME NEW T, IsFiniteSet(T), NEW S \in SUBSET T, NEW x \in T, x \notin S
    PROVE  /\ Cardinality(S) \in Nat /\ Cardinality(T) \in Nat
           /\ Cardinality(S \cup {x}) = Cardinality(S) + 1
           /\ Cardinality(S) < Cardinality(T)
<1>1. IsFiniteSet(S) /\ IsFiniteSet(S \cup {x})
  BY FS_Subset, FS_AddElement
<1>2. Cardinality(S) \in Nat /\ Cardinality(T) \in Nat
  BY <1>1, FS_CardinalityType
<1>3. Cardinality(S \cup {x}) = Cardinality(S) + 1
  BY <1>1, FS_AddElement
<1>4. Cardinality(S \cup {x}) <= Cardinality(T)
  <2>1. S \cup {x} \subseteq T
    OBVIOUS
  <2> QED
    BY <2>1, FS_Subset
<1> QED
  BY <1>2, <1>3, <1>4, SMT

\* Removing a member of a finite set.
LEMMA CardRemove ==
    ASSUME NEW S, IsFiniteSet(S), NEW x \in S
    PROVE  Cardinality(S) \in Nat \ {0} /\ Cardinality(S \ {x}) = Cardinality(S) - 1
<1>1. Cardinality(S) \in Nat /\ Cardinality(S \ {x}) = Cardinality(S) - 1
  BY FS_CardinalityType, FS_RemoveElement
<1>2. Cardinality(S) # 0
  BY FS_EmptySet
<1> QED
  BY <1>1, <1>2

\* The threads inside a wait are finitely many.
LEMMA CountedFinite ==
    /\ IsFiniteSet(Counted) /\ Counted \in SUBSET Threads /\ Cardinality(Counted) \in Nat
    /\ Cardinality(Counted) = 0 => Counted = {}
<1>1. Counted \subseteq Threads
  BY DEF Counted
<1>2. IsFiniteSet(Counted)
  BY <1>1, FS_Subset, ReflockAssumption
<1> QED
  BY <1>1, <1>2, FS_CardinalityType, FS_EmptySet

-----------------------------------------------------------------------------
(* Initial states, and the calls that fail *)

\* The initial states satisfy the invariant.
LEMMA InitInv == Init => IInv
<1> SUFFICES ASSUME Init PROVE IInv
  OBVIOUS
<1>1. TypeOK
  BY DEF Init, TypeOK, Fresh, Debounced, Words
<1>2. Counted = {}
  BY DEF Init, Counted
<1> QED
  BY <1>1, <1>2 DEF Init, IInv, Fresh, NoPanic, WordInv, WaitInv, LifeInv, NoLostWakeup,
     CountersExact, RefcountHalted

\* A new object, kern_apfs_reflock_init, starts with exact counters.
LEMMA CreateInv ==
    ASSUME IInv, NEW alloc \in BOOLEAN, Create(alloc) PROVE IInv'
<1>1. Counted = {} /\ Counted' = {} /\ life' = "live" /\ held' = {} /\ word' = Fresh(alloc)
      /\ UNCHANGED <<pc, observed, panicked>> /\ atLock' = 0
  BY DEF IInv, LifeInv, Create, Counted
<1>2. TypeOK'
  BY <1>1 DEF IInv, TypeOK, Fresh, Words
<1>3. \A t \in Threads : pc[t] # "asleep" /\ pc[t] # "mustWait" /\ pc[t] # "sleepCheck" /\ pc[t] # "freeing"
  BY <1>1 DEF IInv, LifeInv, Create, Counted
<1>4. CountersExact'
  BY <1>1, FS_EmptySet DEF CountersExact, Fresh
<1> QED
  BY <1>1, <1>2, <1>3, <1>4 DEF IInv, Fresh, NoPanic, WordInv, WaitInv, LifeInv, NoLostWakeup,
     RefcountHalted

\* A try that fails: nothing changes, or its caller is counted and will wait.
LEMMA FailedTryInv ==
    ASSUME IInv, NEW t \in Threads, NEW f, MayCall(t), word.owner # None, FailedTry(t, f),
           WillNotDeadlock(t, f), panicked' = (panicked \/ TooManyWaiters(f)),
           UNCHANGED <<life, observed>>
    PROVE  IInv'
<1>1. CASE "WILL_WAIT" \notin f
  <2>1. UNCHANGED <<word, life, pc, observed, atLock, held>> /\ ~TooManyWaiters(f)
    BY <1>1 DEF FailedTry, TooManyWaiters
  <2>2. ~panicked'
    BY <2>1 DEF IInv, NoPanic
  <2> QED
    BY <2>1, <2>2 DEF IInv, TypeOK, Counted, NoPanic, WordInv, WaitInv, LifeInv, NoLostWakeup,
       CountersExact, RefcountHalted
<1>2. CASE "WILL_WAIT" \in f
  <2>1. /\ pc' = [pc EXCEPT ![t] = "mustWait"] /\ pc[t] = "idle" /\ life = "live"
        /\ UNCHANGED <<held, atLock, life, observed>>
        /\ word.owner # t
    BY <1>2 DEF FailedTry, MayCall, WillNotDeadlock
  <2>2. word' = IF word.allocated THEN [word EXCEPT !.waiters = @ + 1] ELSE word
    BY <1>2 DEF FailedTry
  <2>3. TypeOK
    BY DEF IInv
  <2>4. Counted' = Counted \cup {t} /\ t \notin Counted
    BY <2>1, <2>3 DEF Counted, TypeOK
  <2>5. /\ Cardinality(Counted') = Cardinality(Counted) + 1
        /\ Cardinality(Counted) < Cardinality(Threads) /\ Cardinality(Threads) \in Nat
        /\ Cardinality(Counted) \in Nat
    BY <2>4, CardAdd, CountedFinite, ReflockAssumption
  <2>6. word.allocated => word.waiters = Cardinality(Counted)
    BY <2>1 DEF IInv, CountersExact
  <2>7. ~panicked'
    <3>1. ~TooManyWaiters(f)
      BY <2>5, <2>6, ReflockAssumption DEF TooManyWaiters
    <3> QED
      BY <3>1 DEF IInv, NoPanic
  <2>8. TypeOK'
    BY <2>1, <2>2, <2>3, <2>7 DEF TypeOK, Words
  <2>9. /\ UNCHANGED <<word.owner, word.delayedFree, word.wake, word.allocated, word.allowForce, word.count>>
        /\ word.allocated => word'.waiters = word.waiters + 1
        /\ ~word.allocated => word'.waiters = word.waiters
    BY <2>2, <2>3 DEF TypeOK, Words
  <2>10. CountersExact'
    BY <2>1, <2>5, <2>6, <2>9 DEF IInv, CountersExact
  <2>11. WordInv' /\ RefcountHalted'
    BY <2>1, <2>9 DEF IInv, WordInv, RefcountHalted
  <2>12. WaitInv' /\ NoLostWakeup'
    BY <2>1, <2>3, <2>9 DEF IInv, WaitInv, NoLostWakeup, TypeOK
  <2>13. LifeInv'
    <3>1. \A u \in Threads : pc'[u] = "freeing" => FALSE
      BY <2>1, <2>3 DEF IInv, LifeInv, MayCall, TypeOK
    <3> QED
      BY <2>1, <3>1 DEF LifeInv
  <2> QED
    BY <2>7, <2>8, <2>10, <2>11, <2>12, <2>13 DEF IInv, NoPanic
<1> QED
  BY <1>1, <1>2

-----------------------------------------------------------------------------
(* References and the lock *)

\* The word a successful try stores.
LEMMA LockedWord ==
    ASSUME NEW w \in Words, NEW o \in Threads, NEW b \in BOOLEAN, NEW n \in Nat
    PROVE  [w EXCEPT !.count = n, !.owner = o, !.allowForce = b] \in Words
  BY DEF Words

\* What a try that succeeds leaves alone: threads, and every field but the owner,
\* allowForce and the count.  The lock is taken only when it is free.
LEMMA SucceededInv ==
    ASSUME IInv, NEW t \in Threads, MayCall(t), panicked' \in BOOLEAN, ~panicked', word' \in Words,
           held' \subseteq Handles, atLock' \in Nat,
           word'.owner = word.owner \/ (word.owner = None /\ word'.owner = t),
           word'.allowForce => word'.owner # None,
           UNCHANGED <<word.waiters, word.delayedFree, word.wake, word.allocated>>,
           word'.count = Cardinality(held'),
           word'.owner # None /\ ~word'.allowForce => word'.count = atLock',
           UNCHANGED <<life, observed, pc>>
    PROVE  IInv'
<1>1. TypeOK'
  <2>1. TypeOK
    BY DEF IInv
  <2> QED
    BY <2>1 DEF TypeOK
<1>2. Counted' = Counted
  BY DEF Counted
<1>3. WordInv'
  BY DEF IInv, WordInv, MayCall
<1>4. WaitInv'
  BY DEF IInv, WaitInv, MayCall
<1>5. LifeInv'
  BY <1>2 DEF IInv, LifeInv
<1>6. NoLostWakeup'
  BY DEF IInv, NoLostWakeup
<1>7. CountersExact' /\ RefcountHalted'
  BY <1>2 DEF IInv, CountersExact, RefcountHalted, MayCall
<1> QED
  BY <1>1, <1>3, <1>4, <1>5, <1>6, <1>7 DEF IInv, NoPanic

\* kern_apfs_reflock_try_get_ref keeps the invariant.
LEMMA TryGetRefInv ==
    ASSUME IInv, NEW t \in Threads, NEW h \in Handles, NEW f \in GetFlags, TryGetRef(t, h, f)
    PROVE  IInv'
<1>1. CASE Halted(f)
  <2>1. panicked' = (panicked \/ TooManyWaiters(f))
    BY <1>1 DEF TryGetRef
  <2>2. word.owner # None /\ MayCall(t) /\ FailedTry(t, f) /\ WillNotDeadlock(t, f)
        /\ UNCHANGED <<life, observed>>
    BY <1>1 DEF TryGetRef, Halted
  <2> QED
    BY <2>1, <2>2, FailedTryInv
<1>2. CASE ~Halted(f)
  <2> DEFINE locked == "LOCK_IF_FIRST" \in f /\ word.count = 0
  <2>1. /\ word' = [word EXCEPT !.count = @ + 1, !.owner = IF locked THEN t ELSE @,
                                !.allowForce = IF locked THEN FALSE ELSE @]
        /\ atLock' = (IF locked THEN 1 ELSE atLock)
        /\ held' = held \cup {h} /\ h \notin held /\ MayCall(t)
        /\ UNCHANGED <<life, observed, pc>>
    BY <1>2 DEF TryGetRef
  <2>2. /\ word.owner # None => word.allowForce /\ ~locked
        /\ locked => word.count = 0
    BY <1>2 DEF Halted, GetFlags
  <2> HIDE DEF locked
  <2>3. word \in Words /\ held \subseteq Handles /\ atLock \in Nat /\ word.count = Cardinality(held)
    BY <2>1 DEF IInv, TypeOK, CountersExact, MayCall
  <2>4. /\ Cardinality(held') = Cardinality(held) + 1
        /\ Cardinality(held) < Cardinality(Handles) /\ Cardinality(Handles) \in Nat
    BY <2>1, <2>3, CardAdd, ReflockAssumption
  <2>5. panicked' \in BOOLEAN /\ ~panicked'
    <3>1. word.count # MaxRefcount
      BY <2>3, <2>4, ReflockAssumption DEF Words
    <3>2. panicked' = (panicked \/ word.count = MaxRefcount)
      BY <1>2 DEF TryGetRef
    <3> QED
      BY <3>1, <3>2 DEF IInv, NoPanic
  <2>6. /\ word' \in Words /\ atLock' \in Nat /\ held' \subseteq Handles
        /\ word'.owner = (IF locked THEN t ELSE word.owner)
        /\ IF locked THEN ~word'.allowForce ELSE word'.allowForce = word.allowForce
        /\ word'.count = word.count + 1
        /\ UNCHANGED <<word.waiters, word.delayedFree, word.wake, word.allocated>>
    <3>1. CASE locked
      <4>1. word' = [word EXCEPT !.count = @ + 1, !.owner = t, !.allowForce = FALSE]
        BY <2>1, <3>1
      <4>2. atLock' \in Nat /\ held' \subseteq Handles
        BY <2>1, <2>3, <3>1
      <4>3. word' \in Words
        <5>1. word.count + 1 \in Nat
          BY <2>3 DEF Words
        <5>2. FALSE \in BOOLEAN
          OBVIOUS
        <5> QED
          BY <4>1, <5>1, <5>2, <2>3, LockedWord
      <4>4. word'.owner = t /\ word'.count = word.count + 1
        BY <4>1, <2>3 DEF Words
      <4>5. ~word'.allowForce
        BY <4>1, <2>3 DEF Words
      <4>6. UNCHANGED <<word.waiters, word.delayedFree, word.wake, word.allocated>>
        BY <4>1, <2>3 DEF Words
      <4> QED
        BY <4>2, <4>3, <4>4, <4>5, <4>6, <3>1
    <3>2. CASE ~locked
      <4>1. word' = [word EXCEPT !.count = @ + 1]
        BY <2>1, <3>2
      <4>2. atLock' \in Nat /\ held' \subseteq Handles
        BY <2>1, <2>3, <3>2
      <4> QED
        BY <4>1, <4>2, <3>2, <2>3 DEF Words
    <3> QED
      BY <3>1, <3>2
  <2>7. word.allowForce => word.owner # None
    BY DEF IInv, WordInv
  <2>8. word'.owner # None /\ ~word'.allowForce => word'.count = atLock'
    BY <2>1, <2>2, <2>6
  <2>9. /\ word'.owner = word.owner \/ (word.owner = None /\ word'.owner = t)
        /\ word'.allowForce => word'.owner # None
        /\ word'.count = Cardinality(held')
    BY <2>2, <2>3, <2>4, <2>6, <2>7
  <2> QED
    BY <2>1, <2>5, <2>6, <2>8, <2>9, SucceededInv
<1> QED
  BY <1>1, <1>2

\* kern_apfs_reflock_try_put_ref keeps the invariant.
LEMMA TryPutRefInv ==
    ASSUME IInv, NEW t \in Threads, NEW h \in Handles, NEW f \in PutFlags, TryPutRef(t, h, f)
    PROVE  IInv'
<1>1. MayCall(t) /\ h \in held /\ word \in Words /\ held \subseteq Handles /\ atLock \in Nat
      /\ word.count = Cardinality(held)
  BY DEF IInv, TypeOK, CountersExact, MayCall, TryPutRef
<1>2. Cardinality(held) \in Nat \ {0} /\ Cardinality(held \ {h}) = Cardinality(held) - 1
  <2>1. IsFiniteSet(held)
    BY <1>1, FS_Subset, ReflockAssumption
  <2> QED
    BY <1>1, <2>1, CardRemove
<1>3. word.count # 0
  BY <1>1, <1>2
<1>4. CASE Halted(f)
  <2>1. panicked' = (panicked \/ word.count = 0 \/ (Halted(f) /\ TooManyWaiters(f)))
    BY DEF TryPutRef
  <2>2. panicked' = (panicked \/ TooManyWaiters(f))
    BY <1>3, <1>4, <2>1
  <2>3. word.owner # None /\ FailedTry(t, f) /\ WillNotDeadlock(t, f) /\ UNCHANGED <<life, observed>>
    BY <1>4 DEF TryPutRef, Halted
  <2> QED
    BY <1>1, <2>2, <2>3, FailedTryInv
<1>5. CASE ~Halted(f)
  <2> DEFINE locked == "LOCK_IF_LAST" \in f /\ word.count = 1
  <2>1. /\ word' = [word EXCEPT !.count = @ - 1, !.owner = IF locked THEN t ELSE @,
                                !.allowForce = IF locked THEN FALSE ELSE @]
        /\ atLock' = (IF locked THEN 0 ELSE atLock)
        /\ held' = held \ {h}
        /\ UNCHANGED <<life, observed, pc>>
    BY <1>5 DEF TryPutRef
  <2>2. /\ word.owner # None => word.allowForce /\ ~locked
        /\ locked => word.count = 1
    BY <1>5 DEF Halted, PutFlags
  <2> HIDE DEF locked
  <2>3. panicked' \in BOOLEAN /\ ~panicked'
    <3>1. panicked' = (panicked \/ word.count = 0 \/ (Halted(f) /\ TooManyWaiters(f)))
      BY DEF TryPutRef
    <3> QED
      BY <3>1, <1>3, <1>5 DEF IInv, NoPanic
  <2>4. /\ word' \in Words /\ atLock' \in Nat /\ held' \subseteq Handles
        /\ word'.owner = (IF locked THEN t ELSE word.owner)
        /\ IF locked THEN ~word'.allowForce ELSE word'.allowForce = word.allowForce
        /\ word'.count = word.count - 1
        /\ UNCHANGED <<word.waiters, word.delayedFree, word.wake, word.allocated>>
    <3>1. CASE locked
      <4>1. word' = [word EXCEPT !.count = @ - 1, !.owner = t, !.allowForce = FALSE]
        BY <2>1, <3>1
      <4>2. atLock' \in Nat /\ held' \subseteq Handles
        BY <2>1, <1>1, <1>2, <3>1
      <4>3. word' \in Words
        <5>1. word.count - 1 \in Nat
          BY <1>1, <1>2 DEF Words
        <5>2. FALSE \in BOOLEAN
          OBVIOUS
        <5> QED
          BY <4>1, <5>1, <5>2, <1>1, <1>2, LockedWord
      <4>4. word'.owner = t /\ word'.count = word.count - 1
        BY <4>1, <1>1, <1>2 DEF Words
      <4>5. ~word'.allowForce
        BY <4>1, <1>1, <1>2 DEF Words
      <4>6. UNCHANGED <<word.waiters, word.delayedFree, word.wake, word.allocated>>
        BY <4>1, <1>1, <1>2 DEF Words
      <4> QED
        BY <4>2, <4>3, <4>4, <4>5, <4>6, <3>1
    <3>2. CASE ~locked
      <4>1. word' = [word EXCEPT !.count = @ - 1]
        BY <2>1, <3>2
      <4>2. atLock' \in Nat /\ held' \subseteq Handles
        BY <2>1, <1>1, <1>2, <3>2
      <4> QED
        BY <4>1, <4>2, <3>2, <1>1, <1>2 DEF Words
    <3> QED
      BY <3>1, <3>2
  <2>5. word.allowForce => word.owner # None
    BY DEF IInv, WordInv
  <2>6. word'.owner # None /\ ~word'.allowForce => word'.count = atLock'
    BY <2>1, <2>2, <2>4
  <2>7. /\ word'.owner = word.owner \/ (word.owner = None /\ word'.owner = t)
        /\ word'.allowForce => word'.owner # None
        /\ word'.count = Cardinality(held')
    BY <1>1, <1>2, <2>1, <2>2, <2>4, <2>5
  <2> QED
    BY <1>1, <2>1, <2>3, <2>4, <2>6, <2>7, SucceededInv
<1> QED
  BY <1>4, <1>5

\* kern_apfs_reflock_try_lock keeps the invariant.
LEMMA TryLockInv ==
    ASSUME IInv, NEW t \in Threads, NEW f, TryLock(t, f) PROVE IInv'
<1>1. MayCall(t) /\ word.owner # t /\ UNCHANGED <<life, observed>>
      /\ word \in Words /\ held \subseteq Handles /\ word.count = Cardinality(held)
  BY DEF TryLock, IInv, TypeOK, CountersExact, MayCall
<1>2. panicked' = (panicked \/ (word.owner # None /\ TooManyWaiters(f)))
  BY DEF TryLock
<1>3. CASE word.owner # None
  <2>1. FailedTry(t, f) /\ WillNotDeadlock(t, f)
    BY <1>1, <1>3 DEF TryLock, WillNotDeadlock
  <2>2. panicked' = (panicked \/ TooManyWaiters(f))
    BY <1>2, <1>3
  <2> QED
    BY <1>1, <1>3, <2>1, <2>2, FailedTryInv
<1>4. CASE word.owner = None
  <2>1. /\ word' = [word EXCEPT !.owner = t, !.allowForce = ("ALLOW_FORCE" \in f)]
        /\ atLock' = word.count /\ UNCHANGED <<pc, held>>
    BY <1>4 DEF TryLock
  <2>2. panicked' \in BOOLEAN /\ ~panicked'
    BY <1>2, <1>4 DEF IInv, NoPanic
  <2>3. /\ word' \in Words /\ word'.owner = t /\ t # None /\ word'.count = word.count
        /\ UNCHANGED <<word.waiters, word.delayedFree, word.wake, word.allocated>>
        /\ atLock' \in Nat
    <3>1. ("ALLOW_FORCE" \in f) \in BOOLEAN
      OBVIOUS
    <3> QED
      BY <1>1, <2>1, <3>1, ReflockAssumption DEF Words
  <2> QED
    BY <1>1, <1>4, <2>1, <2>2, <2>3, SucceededInv
<1> QED
  BY <1>3, <1>4

-----------------------------------------------------------------------------
(* Waiting *)

\* A waiter that lowers the counter of an allocated object; the last one of an
\* object whose free was delayed becomes the one to free it.
LEMMA LeaveInv ==
    ASSUME IInv, NEW t \in Threads, pc[t] \in {"mustWait", "leaving"}, word.allocated,
           Leave(t, [word EXCEPT !.waiters = @ - 1]),
           panicked' \in BOOLEAN, word.waiters # 0 => ~panicked',
           UNCHANGED <<life, observed, atLock, held>>
    PROVE  IInv'
<1>1. TypeOK
  BY DEF IInv
<1>2. t \in Counted /\ life = "live" /\ word.waiters = Cardinality(Counted)
  BY DEF IInv, LifeInv, CountersExact, Counted
<1>3. Cardinality(Counted) \in Nat \ {0} /\ Cardinality(Counted \ {t}) = Cardinality(Counted) - 1
  BY <1>2, CountedFinite, CardRemove
<1>4. /\ word' = [word EXCEPT !.waiters = @ - 1]
      /\ pc' = [pc EXCEPT ![t] = IF word'.delayedFree /\ word'.waiters = 0 THEN "freeing" ELSE "idle"]
  BY DEF Leave
<1>5. /\ word' \in Words /\ word'.waiters = word.waiters - 1
      /\ UNCHANGED <<word.owner, word.delayedFree, word.wake, word.allocated, word.allowForce, word.count>>
  <2>1. word.waiters - 1 \in Nat /\ word \in Words
    BY <1>1, <1>2, <1>3 DEF TypeOK
  <2> QED
    BY <1>4, <2>1 DEF Words
<1>6. TypeOK'
  BY <1>1, <1>4, <1>5 DEF TypeOK
<1>7. Counted' = Counted \ {t}
  BY <1>1, <1>4 DEF Counted, TypeOK
<1>8. ~panicked'
  BY <1>2, <1>3
<1>9. WordInv' /\ RefcountHalted'
  BY <1>2, <1>5 DEF IInv, WordInv, RefcountHalted
<1>10. CountersExact'
  BY <1>2, <1>3, <1>5, <1>7 DEF IInv, CountersExact
<1>11. WaitInv' /\ NoLostWakeup'
  BY <1>1, <1>4, <1>5 DEF IInv, WaitInv, NoLostWakeup, TypeOK
<1>12. LifeInv'
  <2>1. \A u \in Threads : pc[u] # "freeing"
    BY <1>2, <1>3 DEF IInv, LifeInv
  <2> QED
    BY <1>1, <1>2, <1>4, <2>1 DEF LifeInv, TypeOK
<1> QED
  BY <1>6, <1>8, <1>9, <1>10, <1>11, <1>12 DEF IInv, NoPanic

\* A waiter of an object that does not count them.
LEMMA ReturnInv ==
    ASSUME IInv, NEW t \in Threads, pc[t] \in {"mustWait", "leaving"}, ~word.allocated,
           pc' = Returned(t), panicked' \in BOOLEAN, ~panicked',
           UNCHANGED <<word, life, observed, atLock, held>>
    PROVE  IInv'
<1>1. TypeOK
  BY DEF IInv
<1>2. t \in Counted /\ life = "live"
  BY DEF IInv, LifeInv, Counted
<1>3. TypeOK'
  BY <1>1 DEF TypeOK, Returned
<1>4. WordInv' /\ RefcountHalted' /\ CountersExact'
  BY <1>2 DEF IInv, WordInv, RefcountHalted, CountersExact
<1>5. WaitInv' /\ NoLostWakeup'
  BY <1>1 DEF IInv, WaitInv, NoLostWakeup, TypeOK, Returned
<1>6. LifeInv'
  BY <1>1, <1>2 DEF IInv, LifeInv, TypeOK, Returned
<1> QED
  BY <1>3, <1>4, <1>5, <1>6 DEF IInv, NoPanic

\* The first loop of wait_for_unlock keeps the invariant.
LEMMA AnnounceWaitInv ==
    ASSUME IInv, NEW t \in Threads, AnnounceWait(t) PROVE IInv'
<1>1. TypeOK /\ pc[t] = "mustWait" /\ UNCHANGED <<life, atLock, held>>
  BY DEF IInv, AnnounceWait
<1>2. /\ t \in Counted /\ life = "live" /\ word.owner # t
      /\ word.allocated => word.waiters = Cardinality(Counted)
  BY <1>1 DEF IInv, LifeInv, CountersExact, Counted, WaitInv
<1>3. Cardinality(Counted) \in Nat \ {0}
  BY <1>2, CountedFinite, CardRemove
<1>4. ~(word.allocated /\ word.waiters = 0) /\ word.owner # t
  BY <1>2, <1>3
<1>5. panicked' \in BOOLEAN /\ ~panicked'
  <2>1. panicked' = (panicked \/ (word.allocated /\ word.waiters = 0) \/ word.owner = t)
    BY DEF AnnounceWait
  <2> QED
    BY <1>4, <2>1 DEF IInv, NoPanic
<1>6. CASE word.owner # None
  <2>1. /\ word' = [word EXCEPT !.wake = TRUE]
        /\ observed' = [observed EXCEPT ![t] = Debounced(word')]
        /\ pc' = [pc EXCEPT ![t] = "sleepCheck"]
    BY <1>6 DEF AnnounceWait
  <2>2. /\ word' \in Words /\ word'.wake = TRUE
        /\ UNCHANGED <<word.owner, word.delayedFree, word.waiters, word.allocated, word.allowForce, word.count>>
    BY <1>1, <2>1 DEF TypeOK, Words
  <2>3. Debounced(word') \in (Threads \cup {None}) \X BOOLEAN \X BOOLEAN \X BOOLEAN \X BOOLEAN
    BY <2>2 DEF Debounced, Words
  <2>4. TypeOK'
    BY <1>1, <1>5, <2>1, <2>2, <2>3 DEF TypeOK
  <2>5. Counted' = Counted
    BY <1>1, <2>1 DEF Counted, TypeOK
  <2>6. WordInv' /\ RefcountHalted' /\ CountersExact'
    BY <1>1, <1>6, <2>2, <2>5 DEF IInv, WordInv, RefcountHalted, CountersExact
  <2>7. WaitInv'
    <3>1. observed'[t][1] = word.owner /\ observed'[t][3] = TRUE
      BY <1>1, <2>1, <2>2 DEF TypeOK, Debounced
    <3> QED
      BY <1>1, <1>6, <2>1, <2>2, <3>1 DEF IInv, WaitInv, TypeOK
  <2>8. NoLostWakeup'
    BY <1>6, <2>2 DEF NoLostWakeup
  <2>9. LifeInv'
    BY <1>1, <2>1, <2>2, <2>5 DEF IInv, LifeInv, TypeOK
  <2> QED
    BY <1>5, <2>4, <2>6, <2>7, <2>8, <2>9 DEF IInv, NoPanic
<1>7. CASE word.owner = None /\ word.allocated
  <2>1. Leave(t, [word EXCEPT !.waiters = @ - 1]) /\ UNCHANGED observed
    BY <1>7 DEF AnnounceWait
  <2> QED
    BY <1>1, <1>5, <1>7, <2>1, LeaveInv
<1>8. CASE word.owner = None /\ ~word.allocated
  <2>1. pc' = Returned(t) /\ UNCHANGED <<word, observed>>
    BY <1>8 DEF AnnounceWait
  <2> QED
    BY <1>1, <1>5, <1>8, <2>1, ReturnInv
<1> QED
  BY <1>6, <1>7, <1>8

\* cond_sleep_with_inheritor64_mask: a thread falls asleep only on a word with an
\* owner and the wake bit.
LEMMA CondSleepInv ==
    ASSUME IInv, NEW t \in Threads, CondSleep(t) PROVE IInv'
<1>1. /\ TypeOK /\ pc[t] = "sleepCheck"
      /\ pc' = [pc EXCEPT ![t] = IF Debounced(word) = observed[t] THEN "asleep" ELSE "leaving"]
      /\ observed' = [observed EXCEPT ![t] = Debounced(Fresh(FALSE))]
      /\ UNCHANGED <<word, life, atLock, held, panicked>>
  BY DEF IInv, CondSleep
<1>2. Debounced(Fresh(FALSE)) \in (Threads \cup {None}) \X BOOLEAN \X BOOLEAN \X BOOLEAN \X BOOLEAN
  BY DEF Debounced, Fresh
<1>3. TypeOK'
  BY <1>1, <1>2 DEF TypeOK
<1>4. Counted' = Counted
  BY <1>1 DEF Counted, TypeOK
<1>5. WordInv' /\ RefcountHalted' /\ CountersExact' /\ LifeInv'
  BY <1>1, <1>4 DEF IInv, WordInv, RefcountHalted, CountersExact, LifeInv, TypeOK
<1>6. WaitInv'
  BY <1>1 DEF IInv, WaitInv, TypeOK
<1>7. NoLostWakeup'
  <2>1. Debounced(word) = observed[t] => word.owner # None /\ word.wake
    BY <1>1 DEF IInv, WaitInv, Debounced, TypeOK, Words
  <2> QED
    BY <1>1, <2>1 DEF IInv, NoLostWakeup, TypeOK
<1> QED
  BY <1>1, <1>3, <1>5, <1>6, <1>7 DEF IInv, NoPanic

\* A timeout or an abort.
LEMMA WaitEndsInv ==
    ASSUME IInv, NEW t \in Threads, WaitEnds(t) PROVE IInv'
<1>1. /\ TypeOK /\ pc[t] = "asleep" /\ pc' = [pc EXCEPT ![t] = "leaving"]
      /\ UNCHANGED <<word, life, observed, atLock, held, panicked>>
  BY DEF IInv, WaitEnds
<1>2. TypeOK' /\ Counted' = Counted
  BY <1>1 DEF TypeOK, Counted
<1> QED
  BY <1>1, <1>2 DEF IInv, NoPanic, WordInv, RefcountHalted, CountersExact, LifeInv, WaitInv,
     NoLostWakeup, TypeOK

\* The second decrement of wait_for_unlock.
LEMMA LeaveWaitInv ==
    ASSUME IInv, NEW t \in Threads, LeaveWait(t) PROVE IInv'
<1>1. pc[t] = "leaving" /\ UNCHANGED <<life, observed, atLock, held>>
  BY DEF LeaveWait
<1>2. CASE word.allocated
  <2>1. Leave(t, [word EXCEPT !.waiters = @ - 1]) /\ panicked' = (panicked \/ word.waiters = 0)
    BY <1>2 DEF LeaveWait
  <2>2. panicked' \in BOOLEAN /\ (word.waiters # 0 => ~panicked')
    BY <2>1 DEF IInv, NoPanic
  <2> QED
    BY <1>1, <1>2, <2>1, <2>2, LeaveInv
<1>3. CASE ~word.allocated
  <2>1. pc' = Returned(t) /\ UNCHANGED <<word, panicked>>
    BY <1>3 DEF LeaveWait
  <2>2. panicked' \in BOOLEAN /\ ~panicked'
    BY <2>1 DEF IInv, NoPanic, TypeOK
  <2> QED
    BY <1>1, <1>3, <2>1, <2>2, ReturnInv
<1> QED
  BY <1>2, <1>3

-----------------------------------------------------------------------------
(* Unlock, free and destroy *)

\* The word an unlock stores.
LEMMA UnlockedWord ==
    ASSUME NEW w \in Words, NEW b \in BOOLEAN
    PROVE  [w EXCEPT !.owner = None, !.allowForce = b, !.wake = b] \in Words
  BY DEF Words

\* kern_apfs_reflock_unlock hands the sleepers to the wakeup that follows.
LEMMA UnlockInv ==
    ASSUME IInv, NEW t \in Threads, Unlock(t) PROVE IInv'
<1>1. /\ TypeOK /\ pc[t] = "idle" /\ life = "live" /\ word.owner = t /\ ~word.delayedFree
      /\ word' = [word EXCEPT !.owner = None, !.allowForce = FALSE, !.wake = FALSE]
      /\ atLock' = 0
      /\ pc' = [pc EXCEPT ![t] = IF word.wake THEN "wakeAll" ELSE "idle"]
      /\ UNCHANGED <<life, observed, held, panicked>>
  BY DEF IInv, Unlock, MayCall
<1>2. word' \in Words
  <2>1. FALSE \in BOOLEAN
    OBVIOUS
  <2> QED
    BY <1>1, <2>1, UnlockedWord DEF TypeOK
<1>3. /\ word'.owner = None /\ ~word'.allowForce /\ ~word'.wake
      /\ UNCHANGED <<word.waiters, word.delayedFree, word.allocated, word.count>>
  BY <1>1 DEF TypeOK, Words
<1>4. TypeOK'
  BY <1>1, <1>2 DEF TypeOK
<1>5. Counted' = Counted
  BY <1>1 DEF Counted, TypeOK
<1>6. WordInv' /\ RefcountHalted' /\ CountersExact'
  BY <1>1, <1>3, <1>5 DEF IInv, WordInv, RefcountHalted, CountersExact
<1>7. LifeInv'
  BY <1>1, <1>3, <1>5 DEF IInv, LifeInv, TypeOK
<1>8. WaitInv'
  BY <1>1, <1>3, ReflockAssumption DEF IInv, WaitInv, TypeOK
<1>9. NoLostWakeup'
  <2>1. SUFFICES ASSUME NEW s \in Threads, pc'[s] = "asleep"
                 PROVE  \E u \in Threads : pc'[u] = "wakeAll"
    BY DEF NoLostWakeup
  <2>2. pc[s] = "asleep"
    BY <1>1, <2>1 DEF TypeOK
  <2>3. word.wake \/ \E u \in Threads : pc[u] = "wakeAll"
    BY <2>2 DEF IInv, NoLostWakeup
  <2>4. CASE word.wake
    BY <1>1, <2>4 DEF TypeOK
  <2>5. CASE \E u \in Threads : pc[u] = "wakeAll"
    BY <1>1, <2>5 DEF TypeOK
  <2> QED
    BY <2>3, <2>4, <2>5
<1> QED
  BY <1>1, <1>4, <1>6, <1>7, <1>8, <1>9 DEF IInv, NoPanic

\* cond_wakeup_all_with_inheritor leaves nobody asleep.
LEMMA WakeAllInv ==
    ASSUME IInv, NEW t \in Threads, WakeAll(t) PROVE IInv'
<1>1. /\ TypeOK /\ pc[t] = "wakeAll"
      /\ pc' = [u \in Threads |-> IF u = t THEN "idle"
                                  ELSE IF pc[u] = "asleep" THEN "leaving" ELSE pc[u]]
      /\ UNCHANGED <<word, life, observed, atLock, held, panicked>>
  BY DEF IInv, WakeAll
<1>2. TypeOK'
  BY <1>1 DEF TypeOK
<1>3. Counted' = Counted
  BY <1>1 DEF Counted, TypeOK
<1>4. WordInv' /\ RefcountHalted' /\ CountersExact' /\ LifeInv'
  BY <1>1, <1>3 DEF IInv, WordInv, RefcountHalted, CountersExact, LifeInv
<1>5. WaitInv' /\ NoLostWakeup'
  BY <1>1 DEF IInv, WaitInv, NoLostWakeup
<1> QED
  BY <1>1, <1>2, <1>4, <1>5 DEF IInv, NoPanic

\* kern_apfs_reflock_free: with nobody counted the caller frees, else the last
\* waiter will.
LEMMA FreeInv ==
    ASSUME IInv, NEW t \in Threads, Free(t) PROVE IInv'
<1>1. /\ TypeOK /\ pc[t] = "idle" /\ life = "live" /\ ~word.delayedFree
      /\ word.allocated /\ word.owner = None
      /\ \A u \in Threads : pc[u] # "wakeAll"
      /\ word' = [word EXCEPT !.delayedFree = TRUE]
      /\ pc' = [pc EXCEPT ![t] = IF word.waiters = 0 THEN "freeing" ELSE "idle"]
      /\ UNCHANGED <<life, observed, atLock, held>>
  BY DEF IInv, Free, MayCall
<1>2. panicked' \in BOOLEAN /\ ~panicked'
  <2>1. ~word.wake /\ ~word.allowForce
    BY <1>1 DEF IInv, WordInv
  <2>2. panicked' = (panicked \/ word.wake \/ word.allowForce)
    BY DEF Free
  <2> QED
    BY <2>1, <2>2 DEF IInv, NoPanic
<1>3. /\ word' \in Words /\ word'.delayedFree
      /\ UNCHANGED <<word.owner, word.waiters, word.wake, word.allocated, word.allowForce, word.count>>
  BY <1>1 DEF TypeOK, Words
<1>4. TypeOK'
  BY <1>1, <1>2, <1>3 DEF TypeOK
<1>5. Counted' = Counted
  BY <1>1 DEF Counted, TypeOK
<1>6. WordInv' /\ RefcountHalted' /\ CountersExact'
  BY <1>1, <1>3, <1>5 DEF IInv, WordInv, RefcountHalted, CountersExact
<1>7. LifeInv'
  <2>1. \A u \in Threads : pc[u] # "freeing"
    BY <1>1 DEF IInv, LifeInv
  <2> QED
    BY <1>1, <1>3, <2>1 DEF LifeInv, TypeOK
<1>8. WaitInv'
  BY <1>1, <1>3 DEF IInv, WaitInv, TypeOK
<1>9. NoLostWakeup'
  BY <1>1 DEF IInv, NoLostWakeup, TypeOK
<1> QED
  BY <1>2, <1>4, <1>6, <1>7, <1>8, <1>9 DEF IInv, NoPanic

\* Words with equal fields are equal.
LEMMA SameWord ==
    ASSUME NEW w \in Words, NEW v \in Words, w.owner = v.owner, w.waiters = v.waiters,
           w.delayedFree = v.delayedFree, w.wake = v.wake, w.allocated = v.allocated,
           w.allowForce = v.allowForce, w.count = v.count
    PROVE  w = v
  BY DEF Words

\* kern_apfs_reflock_free_internal finds a quiet word and frees it.
LEMMA FreeInternalInv ==
    ASSUME IInv, NEW t \in Threads, FreeInternal(t) PROVE IInv'
<1>1. /\ TypeOK /\ pc[t] = "freeing" /\ life' = "freed" /\ pc' = [pc EXCEPT ![t] = "idle"]
      /\ UNCHANGED <<word, observed, atLock, held>>
  BY DEF IInv, FreeInternal, Returned
<1>2. /\ life = "live" /\ word.delayedFree /\ word.waiters = 0 /\ word.allocated
      /\ word.owner = None /\ ~word.wake /\ ~word.allowForce
  BY <1>1 DEF IInv, LifeInv, WordInv
<1>3. Counted = {}
  BY <1>2, CountedFinite DEF IInv, CountersExact
<1>4. panicked' \in BOOLEAN /\ ~panicked'
  <2>1. word = [Fresh(TRUE) EXCEPT !.delayedFree = TRUE, !.count = word.count]
    <3> DEFINE quiet == [Fresh(TRUE) EXCEPT !.delayedFree = TRUE, !.count = word.count]
    <3>1. word.delayedFree = TRUE /\ word.wake = FALSE /\ word.allocated = TRUE /\ word.allowForce = FALSE
          /\ word \in Words /\ word.count \in Nat
      BY <1>1, <1>2 DEF TypeOK, Words
    <3>2. /\ quiet.owner = None /\ quiet.waiters = 0 /\ quiet.delayedFree = TRUE
          /\ quiet.wake = FALSE /\ quiet.allocated = TRUE /\ quiet.allowForce = FALSE
          /\ quiet.count = word.count
      BY DEF Fresh
    <3>3. quiet \in Words
      BY <3>1 DEF Fresh, Words
    <3> HIDE DEF quiet
    <3>4. word = quiet
      BY <1>2, <3>1, <3>2, <3>3, SameWord
    <3> QED
      BY <3>4 DEF quiet
  <2>2. panicked' = (panicked \/ word # [Fresh(TRUE) EXCEPT !.delayedFree = TRUE,
                                                            !.count = word.count])
    BY DEF FreeInternal
  <2> QED
    BY <2>1, <2>2 DEF IInv, NoPanic
<1>5. TypeOK'
  BY <1>1, <1>4 DEF TypeOK
<1>6. Counted' = {}
  BY <1>1, <1>3 DEF Counted, TypeOK
<1>7. WordInv' /\ RefcountHalted' /\ CountersExact'
  BY <1>1 DEF IInv, WordInv, RefcountHalted, CountersExact
<1>8. LifeInv'
  BY <1>1, <1>6 DEF IInv, LifeInv, TypeOK
<1>9. WaitInv' /\ NoLostWakeup'
  BY <1>1 DEF IInv, WaitInv, NoLostWakeup, TypeOK
<1> QED
  BY <1>4, <1>5, <1>7, <1>8, <1>9 DEF IInv, NoPanic

\* kern_apfs_reflock_destroy finds nobody waiting.
LEMMA DestroyInv ==
    ASSUME IInv, NEW t \in Threads, Destroy(t) PROVE IInv'
<1>1. /\ TypeOK /\ life' = "destroyed" /\ \A u \in Threads : pc[u] = "idle"
      /\ ~word.allocated /\ word.owner = None
      /\ UNCHANGED <<word, pc, observed, atLock, held>>
  BY DEF IInv, Destroy
<1>2. panicked' \in BOOLEAN /\ ~panicked'
  <2>1. ~word.wake /\ ~word.allowForce /\ word.waiters = 0
    BY <1>1 DEF IInv, WordInv
  <2>2. panicked' = (panicked \/ word.wake \/ word.allowForce \/ word.waiters # 0)
    BY DEF Destroy
  <2> QED
    BY <2>1, <2>2 DEF IInv, NoPanic
<1>3. Counted = {} /\ Counted' = {}
  BY <1>1 DEF Counted
<1>4. TypeOK'
  BY <1>1, <1>2 DEF TypeOK
<1> QED
  BY <1>1, <1>2, <1>3, <1>4 DEF IInv, NoPanic, WordInv, RefcountHalted, CountersExact, LifeInv,
     WaitInv, NoLostWakeup

-----------------------------------------------------------------------------
(* The theorems *)

\* Every step of every thread keeps the invariant.
LEMMA StepInv == IInv /\ [Next]_vars => IInv'
<1> SUFFICES ASSUME IInv, [Next]_vars PROVE IInv'
  OBVIOUS
<1>1. CASE UNCHANGED vars
  BY <1>1 DEF vars, IInv, TypeOK, NoPanic, WordInv, WaitInv, LifeInv, NoLostWakeup,
     CountersExact, RefcountHalted, Counted
<1>2. ASSUME NEW alloc \in BOOLEAN, Create(alloc) PROVE IInv'
  BY <1>2, CreateInv
<1>3. ASSUME NEW t \in Threads, Thread(t) PROVE IInv'
  <2>1. ASSUME NEW h \in Handles, NEW f \in GetFlags, TryGetRef(t, h, f) PROVE IInv'
    BY <2>1, TryGetRefInv
  <2>2. ASSUME NEW h \in Handles, NEW f \in PutFlags, TryPutRef(t, h, f) PROVE IInv'
    BY <2>2, TryPutRefInv
  <2>3. ASSUME NEW f \in SUBSET {"WILL_WAIT", "ALLOW_FORCE"}, TryLock(t, f) PROVE IInv'
    BY <2>3, TryLockInv
  <2>4. CASE AnnounceWait(t)
    BY <2>4, AnnounceWaitInv
  <2>5. CASE CondSleep(t)
    BY <2>5, CondSleepInv
  <2>6. CASE WaitEnds(t)
    BY <2>6, WaitEndsInv
  <2>7. CASE LeaveWait(t)
    BY <2>7, LeaveWaitInv
  <2>8. CASE Unlock(t)
    BY <2>8, UnlockInv
  <2>9. CASE WakeAll(t)
    BY <2>9, WakeAllInv
  <2>10. CASE Free(t)
    BY <2>10, FreeInv
  <2>11. CASE FreeInternal(t)
    BY <2>11, FreeInternalInv
  <2>12. CASE Destroy(t)
    BY <2>12, DestroyInv
  <2> QED
    BY <1>3, <2>1, <2>2, <2>3, <2>4, <2>5, <2>6, <2>7, <2>8, <2>9, <2>10, <2>11, <2>12
       DEF Thread
<1> QED
  BY <1>1, <1>2, <1>3 DEF Next

\* IInv is an invariant of the specification.
LEMMA InvariantHolds == Spec => []IInv
  BY InitInv, StepInv, PTL DEF Spec

\* Every variable of the reference lock keeps its type; the counters never go
\* below zero.
THEOREM TypeCorrect == Spec => []TypeOK
<1>1. IInv => TypeOK
  BY DEF IInv
<1> QED
  BY <1>1, InvariantHolds, PTL

\* No panic or assertion of kern_apfs_reflock.c is reached by callers that keep
\* the contract, as long as MAXWAITERS and MAXREFCOUNT are enough for them.
THEOREM NeverPanics == Spec => []NoPanic
<1>1. IInv => NoPanic
  BY DEF IInv
<1> QED
  BY <1>1, InvariantHolds, PTL

\* A sleeper of wait_for_unlock is always covered by a wake bit that the owner will
\* see or by a wakeup under way.
THEOREM WakeupNeverLost == Spec => []NoLostWakeup
<1>1. IInv => NoLostWakeup
  BY DEF IInv
<1> QED
  BY <1>1, InvariantHolds, PTL

\* The object outlives every thread inside a wait, and one thread at most frees it.
THEOREM MemorySafe == Spec => []NoUseAfterFree
<1>1. IInv => NoUseAfterFree
  <2> SUFFICES ASSUME IInv PROVE NoUseAfterFree
    OBVIOUS
  <2>1. Counted # {} => life = "live"
    BY DEF IInv, LifeInv
  <2>2. ASSUME NEW t \in Threads, NEW u \in Threads, pc[t] = "freeing", pc[u] = "freeing"
        PROVE  t = u /\ life = "live" /\ Counted = {}
    <3>1. t = u /\ life = "live" /\ word.waiters = 0 /\ word.allocated
      BY <2>2 DEF IInv, LifeInv, WordInv
    <3> QED
      BY <3>1, CountedFinite DEF IInv, CountersExact
  <2> QED
    BY <2>1, <2>2 DEF NoUseAfterFree
<1> QED
  BY <1>1, InvariantHolds, PTL

\* The refcount is the number of references given out, and the waiter count of an
\* allocated object the number of threads inside a wait.
THEOREM CountersAlwaysExact == Spec => []CountersExact
<1>1. IInv => CountersExact
  BY DEF IInv
<1> QED
  BY <1>1, InvariantHolds, PTL

\* Unless it allowed FORCE, an owner finds the refcount it was told for as long as
\* it holds the lock.
THEOREM RefcountStaysHalted == Spec => []RefcountHalted
<1>1. IInv => RefcountHalted
  BY DEF IInv
<1> QED
  BY <1>1, InvariantHolds, PTL
=============================================================================
