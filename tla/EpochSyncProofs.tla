-------------------------- MODULE EpochSyncProofs --------------------------
(***************************************************************************)
(* Proofs about EpochSync, for any number of threads, ids and epochs: the  *)
(* backing objects live as long as they are used, and no wake is missed.   *)
(***************************************************************************)
EXTENDS EpochSync, FiniteSetTheorems, WellFoundedInduction, TLAPS

-----------------------------------------------------------------------------
(* The inductive invariant, as a conjunction of named parts. *)

UserSteps == {"blocked", "woken", "remove"}
ObjectSteps == {"elem", "locked", "blocked", "woken", "remove"}

\* An object that esync_wait allocated and nobody else knows.
Fresh(o, id) ==
    /\ obj[o].live /\ ~obj[o].linked
    /\ obj[o].id = id /\ obj[o].refs = 1 /\ obj[o].lock = None

\* What a call knows at each of its steps.
CallOK(t) ==
    /\ call[t].pc = "idle" \/ call[t].mode # "WAIT" => call[t].new = None
    /\ call[t].pc # "idle" => call[t].id \in Ids
    /\ call[t].pc \in {"idle", "bucket", "probe"} => call[t].sync = None
    /\ call[t].pc \in {"bucket", "probe", "elem"} /\ call[t].mode = "WAIT" => call[t].new # None
    /\ call[t].pc # "idle" /\ call[t].mode # "WAIT" => call[t].epoch <= counter
    /\ call[t].new # None => Fresh(call[t].new, call[t].id)

\* The object a call works with is in the table; it carries the call's id from
\* the moment es_lock is taken, and no id once its last user has hidden it.
SyncOK(t) ==
    /\ call[t].pc \in ObjectSteps => call[t].sync \in Objects /\ obj[call[t].sync].linked
    /\ call[t].pc \in {"locked", "blocked", "woken"} => obj[call[t].sync].id = call[t].id
    /\ call[t].pc = "locked" => obj[call[t].sync].lock = t
    /\ call[t].pc = "remove" =>
          /\ obj[call[t].sync].id = INVALID
          /\ obj[call[t].sync].lock = None
          /\ obj[call[t].sync].refs = 2
          /\ \A u \in Threads \ {t} : call[u].pc \in UserSteps => call[u].sync # call[t].sync

BucketOK == \A t \in Threads : call[t].pc \in {"probe", "elem"} <=> bucket = t

\* An object is held by the calls that use it and, while fresh, by its allocator.
ObjectOK(o) ==
    /\ obj[o].linked =>
          /\ obj[o].live
          /\ obj[o].refs = 1 + Cardinality(Users(o))
          /\ \E t \in Threads : call[t].sync = o /\ call[t].pc \in UserSteps \cup {"locked"}
    /\ obj[o].live /\ ~obj[o].linked => \E t \in Threads : call[t].new = o
    /\ obj[o].lock # None => call[obj[o].lock].pc = "locked" /\ call[obj[o].lock].sync = o

OwnNew == \A t, u \in Threads : call[t].new = call[u].new /\ call[t].new # None => t = u

OneObjectPerId ==
    \A o, p \in Objects :
        obj[o].linked /\ obj[p].linked /\ obj[o].id = obj[p].id /\ obj[o].id # INVALID => o = p

\* The counter has passed every epoch that counts as handled.
HandledOK == \A i \in Ids : handled[i] <= counter

\* The types of the kernel's variables; the clients' are not needed below.
ObjectType == [id : Ids \cup {INVALID}, refs : Nat, linked : BOOLEAN,
               lock : Threads \cup {None}, live : BOOLEAN]

KernelType ==
    /\ obj \in [Objects -> ObjectType]
    /\ bucket \in Threads \cup {None}
    /\ counter \in Nat
    /\ call \in [Threads -> Calls]
    /\ handled \in [Ids -> Nat]
    /\ failed \in BOOLEAN

KernelInv ==
    /\ KernelType /\ ~failed
    /\ \A t \in Threads : CallOK(t) /\ SyncOK(t)
    /\ BucketOK
    /\ \A o \in Objects : ObjectOK(o)
    /\ OwnNew /\ OneObjectPerId /\ HandledOK /\ NoMissedWake

-----------------------------------------------------------------------------
(* Numbers and sets *)

Lt == { ss \in Nat \X Nat : ss[1] < ss[2] }

\* The order of the natural numbers is well founded.
LEMMA LtWF == IsWellFoundedOn(Lt, Nat)
  BY NatLessThanWellFounded DEF OpToRel, Lt

\* A nonempty set of numbers has a least element.
LEMMA LeastElement ==
    ASSUME NEW S \in SUBSET Nat, S # {}
    PROVE  \E x \in S : \A y \in S : x <= y
<1>1. PICK x \in S : \A y \in S : ~(<<y, x>> \in Lt)
  BY LtWF, WFMin
<1>2. \A y, z \in Nat : y < z => <<y, z>> \in Lt
  BY DEF Lt
<1>3. \A y \in S : ~(y < x)
  BY <1>1, <1>2
<1> QED BY <1>3

\* Max of two numbers is one of them.
LEMMA MaxOfTwo ==
    ASSUME NEW a \in Nat, NEW b \in Nat
    PROVE  Max({a, b}) \in {a, b}
<1>1. \E x \in {a, b} : \A y \in {a, b} : x >= y
  OBVIOUS
<1> QED BY <1>1 DEF Max

\* The lowest free address is one of the free addresses.
LEMMA MinIn ==
    ASSUME NEW S \in SUBSET Nat, S # {}
    PROVE  Min(S) \in S
  BY LeastElement DEF Min

\* The users of an object can be counted.
LEMMA UsersFinite ==
    \A o : /\ IsFiniteSet(Users(o)) /\ Cardinality(Users(o)) \in Nat
           /\ Cardinality(Users(o)) = 0 <=> Users(o) = {}
<1> TAKE o
<1>1. Users(o) \subseteq Threads
  BY DEF Users
<1> QED BY <1>1, EpochAssumption, FS_Subset, FS_CardinalityType, FS_EmptySet

-----------------------------------------------------------------------------
(* The steps of a call *)

\* The bucket's lock is taken by one thread.
LEMMA LockBucketInv == ASSUME KernelInv, NEW t \in Threads, LockBucket(t) PROVE KernelInv'
<1> USE EpochAssumption
<1>1. /\ obj' = obj /\ counter' = counter /\ handled' = handled /\ failed' = failed
      /\ bucket = None /\ bucket' = t
      /\ call[t].pc = "bucket"
  BY DEF LockBucket
<1>2. /\ \A u \in Threads : u # t => call'[u] = call[u]
      /\ call'[t] \in Calls /\ call'[t].pc = "probe" /\ call'[t].id = call[t].id /\ call'[t].epoch = call[t].epoch
      /\ call'[t].mode = call[t].mode /\ call'[t].sync = call[t].sync /\ call'[t].new = call[t].new
  BY DEF LockBucket, KernelInv, KernelType, Calls
<1>3. KernelType'
  BY <1>1, <1>2 DEF KernelInv, KernelType, LockBucket, Calls
<1>4. \A o \in Objects : Users(o)' = Users(o)
  BY <1>1, <1>2 DEF Users
<1>5. \A u \in Threads : CallOK(u)'
  BY <1>1, <1>2 DEF KernelInv, CallOK, Fresh
<1>6. \A u \in Threads : SyncOK(u)'
  BY <1>1, <1>2 DEF KernelInv, CallOK, SyncOK, ObjectSteps, UserSteps
<1>7. BucketOK'
  BY <1>1, <1>2 DEF KernelInv, BucketOK
<1>8. \A o \in Objects : ObjectOK(o)'
  BY <1>1, <1>2, <1>4 DEF KernelInv, KernelType, ObjectOK, UserSteps, ObjectType
<1>9. (OwnNew /\ OneObjectPerId /\ HandledOK /\ NoMissedWake)'
  BY <1>1, <1>2 DEF KernelInv, OwnNew, OneObjectPerId, HandledOK, NoMissedWake
<1> QED BY <1>1, <1>3, <1>5, <1>6, <1>7, <1>8, <1>9 DEF KernelInv

\* A lookup has found an element, which it has not locked yet.
LEMMA ProbeMatchInv == ASSUME KernelInv, NEW t \in Threads, ProbeMatch(t) PROVE KernelInv'
<1> USE EpochAssumption
<1>1. /\ obj' = obj /\ counter' = counter /\ handled' = handled /\ failed' = failed
      /\ bucket' = bucket
      /\ call[t].pc = "probe"
  BY DEF ProbeMatch
<1>o. PICK o \in Matching(t) : call' = [call EXCEPT ![t].pc = "elem", ![t].sync = o]
  BY DEF ProbeMatch
<1>0. o \in Objects /\ obj[o].linked
  BY DEF Matching
<1>2. /\ \A u \in Threads : u # t => call'[u] = call[u]
      /\ call'[t] \in Calls /\ call'[t].pc = "elem" /\ call'[t].id = call[t].id /\ call'[t].epoch = call[t].epoch
      /\ call'[t].mode = call[t].mode /\ call'[t].sync = o /\ call'[t].new = call[t].new
  <2>1. call \in [Threads -> Calls]
    BY DEF KernelInv, KernelType
  <2> QED BY <1>o, <1>0, <2>1 DEF Calls
<1>3. KernelType'
  BY <1>1, <1>2, <1>o DEF KernelInv, KernelType
<1>4. \A p \in Objects : Users(p)' = Users(p)
  BY <1>1, <1>2 DEF Users
<1>5. \A u \in Threads : CallOK(u)'
  BY <1>1, <1>2 DEF KernelInv, CallOK, Fresh
<1>6. \A u \in Threads : SyncOK(u)'
  BY <1>0, <1>1, <1>2 DEF KernelInv, CallOK, SyncOK, ObjectSteps, UserSteps
<1>7. BucketOK'
  BY <1>1, <1>2 DEF KernelInv, BucketOK
<1>8. \A p \in Objects : ObjectOK(p)'
  <2> TAKE p \in Objects
  <2>1. ObjectOK(p) /\ Users(p)' = Users(p) /\ obj'[p] = obj[p]
    BY <1>1, <1>4 DEF KernelInv
  <2>2. \A w \in Threads : call[w].pc \in UserSteps \cup {"locked"} => call'[w] = call[w]
    BY <1>1, <1>2 DEF UserSteps
  <2>3. \A w \in Threads : call'[w].new = call[w].new
    BY <1>2
  <2>4. obj[p].lock # None => obj[p].lock \in Threads
    BY DEF KernelInv, KernelType, ObjectType
  <2> QED BY <2>1, <2>2, <2>3, <2>4 DEF ObjectOK
<1>9. (OwnNew /\ OneObjectPerId /\ HandledOK /\ NoMissedWake)'
  BY <1>1, <1>2 DEF KernelInv, OwnNew, OneObjectPerId, HandledOK, NoMissedWake
<1> QED BY <1>1, <1>3, <1>5, <1>6, <1>7, <1>8, <1>9 DEF KernelInv

\* A wake that finds no element has nobody to wake: no thread is blocked on its id.
LEMMA ProbeNoneInv == ASSUME KernelInv, NEW t \in Threads, ProbeNone(t) PROVE KernelInv'
<1> USE EpochAssumption
<1>1. /\ obj' = obj /\ counter' = counter /\ failed' = failed
      /\ bucket' = None
      /\ call[t].pc = "probe" /\ call[t].mode # "WAIT" /\ call[t].new = None
  BY DEF ProbeNone, KernelInv, CallOK
<1>2. /\ \A u \in Threads : u # t => call'[u] = call[u]
      /\ call'[t] = Idle
      /\ call'[t] \in Calls /\ call'[t].pc = "idle" /\ call'[t].mode = "WAIT"
      /\ call'[t].sync = None /\ call'[t].new = None
  BY DEF ProbeNone, KernelInv, KernelType, Calls, Idle
<1>a. call[t].id \in Ids /\ call[t].epoch \in Nat /\ call[t].epoch <= counter
  BY <1>1 DEF KernelInv, KernelType, Calls, CallOK
<1>b. PICK h \in Nat : /\ handled' = [handled EXCEPT ![call[t].id] = h]
                       /\ h = handled[call[t].id] \/ h = call[t].epoch
  <2>1. handled[call[t].id] \in Nat
    BY <1>a DEF KernelInv, KernelType
  <2>2. Max({handled[call[t].id], call[t].epoch}) \in {handled[call[t].id], call[t].epoch}
    BY <1>a, <2>1, MaxOfTwo
  <2> QED BY <1>a, <2>1, <2>2 DEF ProbeNone
<1>c. h <= counter
  BY <1>a, <1>b DEF KernelInv, HandledOK
<1>d. \A o \in Objects : obj[o].linked => obj[o].id # call[t].id
  BY DEF ProbeNone, Matching
<1>3. KernelType'
  BY <1>1, <1>2, <1>b DEF KernelInv, KernelType, ProbeNone
<1>4. \A o \in Objects : Users(o)' = Users(o)
  BY <1>1, <1>2 DEF Users
<1>5. \A u \in Threads : CallOK(u)'
  BY <1>1, <1>2 DEF KernelInv, CallOK, Fresh
<1>6. \A u \in Threads : SyncOK(u)'
  BY <1>1, <1>2 DEF KernelInv, CallOK, SyncOK, ObjectSteps, UserSteps
<1>7. BucketOK'
  BY <1>1, <1>2 DEF KernelInv, BucketOK
<1>8. \A o \in Objects : ObjectOK(o)'
  BY <1>1, <1>2, <1>4 DEF KernelInv, KernelType, ObjectOK, UserSteps, ObjectType
<1>9. (OwnNew /\ OneObjectPerId)'
  BY <1>1, <1>2 DEF KernelInv, OwnNew, OneObjectPerId
<1>10. HandledOK'
  BY <1>1, <1>a, <1>b, <1>c DEF KernelInv, KernelType, HandledOK
<1>11. NoMissedWake'
  <2> SUFFICES ASSUME NEW u \in Threads, call'[u].pc = "blocked"
               PROVE  call'[u].epoch >= handled'[call'[u].id]
    BY DEF NoMissedWake
  <2>1. call'[u] = call[u] /\ call[u].pc = "blocked"
    BY <1>2
  <2>2. call[u].id # call[t].id /\ call[u].id \in Ids
    BY <1>d, <2>1 DEF KernelInv, CallOK, SyncOK, ObjectSteps
  <2> QED BY <1>b, <2>1, <2>2 DEF KernelInv, KernelType, NoMissedWake
<1> QED BY <1>1, <1>3, <1>5, <1>6, <1>7, <1>8, <1>9, <1>10, <1>11 DEF KernelInv

\* A wait that finds no element puts its own object in the table: no linked object
\* has that id, and the fresh one has no user yet.
LEMMA ProbeInsertInv == ASSUME KernelInv, NEW t \in Threads, ProbeInsert(t) PROVE KernelInv'
<1> USE EpochAssumption
<1>n. PICK n : n = call[t].new
  OBVIOUS
<1>1. /\ counter' = counter /\ handled' = handled /\ failed' = failed
      /\ bucket' = None
      /\ call[t].pc = "probe" /\ call[t].mode = "WAIT"
  BY DEF ProbeInsert
<1>0. n \in Objects /\ Fresh(n, call[t].id) /\ call[t].id \in Ids /\ call[t].id # INVALID
  BY <1>1, <1>n DEF KernelInv, KernelType, Calls, CallOK
<1>2. /\ \A u \in Threads : u # t => call'[u] = call[u]
      /\ call'[t] \in Calls /\ call'[t].pc = "locked" /\ call'[t].id = call[t].id /\ call'[t].epoch = call[t].epoch
      /\ call'[t].mode = call[t].mode /\ call'[t].sync = n /\ call'[t].new = None
  BY <1>0, <1>n DEF ProbeInsert, KernelInv, KernelType, Calls
<1>a. /\ \A o \in Objects : o # n => obj'[o] = obj[o]
      /\ obj'[n].linked /\ obj'[n].lock = t /\ obj'[n].live
      /\ obj'[n].id = call[t].id /\ obj'[n].refs = 1
      /\ obj' \in [Objects -> ObjectType]
  <2>1. TRUE \in BOOLEAN
    OBVIOUS
  <2>2. PICK b \in BOOLEAN : b = TRUE
    BY <2>1
  <2>3. obj' = [obj EXCEPT ![n].linked = b, ![n].lock = t]
    BY <1>n, <2>2 DEF ProbeInsert
  <2>4. obj \in [Objects -> ObjectType]
    BY DEF KernelInv, KernelType
  <2>5. /\ \A o \in Objects : o # n => obj'[o] = obj[o]
        /\ obj'[n].linked = b /\ obj'[n].lock = t /\ obj'[n].live = obj[n].live
        /\ obj'[n].id = obj[n].id /\ obj'[n].refs = obj[n].refs
        /\ obj' \in [Objects -> ObjectType]
    BY <1>0, <2>3, <2>4 DEF ObjectType
  <2> QED BY <1>0, <2>2, <2>5 DEF Fresh
<1>d. \A o \in Objects : obj[o].linked => obj[o].id # call[t].id
  BY DEF ProbeInsert, Matching
<1>3. KernelType'
  BY <1>1, <1>2, <1>a DEF KernelInv, KernelType, ProbeInsert
<1>u. \A u \in Threads : call[u].pc \in ObjectSteps => call[u].sync # n
  BY <1>0 DEF KernelInv, SyncOK, Fresh
<1>v. \A u \in Threads : u # t => call[u].new # n
  BY <1>0, <1>n DEF KernelInv, OwnNew
<1>4. \A o \in Objects : Users(o)' = Users(o)
  BY <1>1, <1>2 DEF Users
<1>e. \A o \in Objects : o = n => Cardinality(Users(o)') = 0
  BY <1>0, <1>4, <1>u, FS_EmptySet DEF Users, ObjectSteps
<1>5. \A u \in Threads : CallOK(u)'
  <2> TAKE u \in Threads
  <2>1. CASE u = t
    BY <1>1, <1>2, <2>1 DEF KernelInv, CallOK
  <2>2. CASE u # t
    <3>1. CallOK(u) /\ call'[u] = call[u] /\ call[u].new # n /\ call[u].new \in Objects \cup {None}
      BY <1>2, <1>v, <2>2 DEF KernelInv, KernelType, Calls
    <3>2. call[u].new # None => obj'[call[u].new] = obj[call[u].new]
      BY <1>a, <3>1
    <3> QED BY <1>1, <3>1, <3>2 DEF CallOK, Fresh
  <2> QED BY <2>1, <2>2
<1>6. \A u \in Threads : SyncOK(u)'
  <2> TAKE u \in Threads
  <2>1. CASE u = t
    BY <1>0, <1>2, <1>a, <2>1 DEF SyncOK
  <2>2. CASE u # t
    <3>1. SyncOK(u) /\ call'[u] = call[u] /\ (call[u].pc \in ObjectSteps => call[u].sync # n)
      BY <1>2, <1>u, <2>2 DEF KernelInv
    <3>2. call[u].pc \in ObjectSteps => call[u].sync \in Objects /\ obj'[call[u].sync] = obj[call[u].sync]
      BY <1>a, <3>1 DEF SyncOK
    <3>3. \A v \in Threads : call'[v].pc \in UserSteps => call'[v] = call[v]
      BY <1>2 DEF UserSteps
    <3> QED BY <3>1, <3>2, <3>3 DEF SyncOK, ObjectSteps
  <2> QED BY <2>1, <2>2
<1>7. BucketOK'
  BY <1>1, <1>2 DEF KernelInv, BucketOK
<1>8. \A o \in Objects : ObjectOK(o)'
  <2> TAKE o \in Objects
  <2>1. CASE o = n
    <3>1. obj'[o].refs = 1 + Cardinality(Users(o)')
      BY <1>a, <1>e, <2>1
    <3>2. call'[t].sync = o /\ call'[t].pc = "locked" /\ obj'[o].lock = t /\ obj'[o].live /\ obj'[o].linked
      BY <1>2, <1>a, <2>1
    <3> QED BY <3>1, <3>2 DEF ObjectOK, UserSteps
  <2>2. CASE o # n
    BY <1>0, <1>n, <1>1, <1>2, <1>4, <1>a, <2>2 DEF KernelInv, KernelType, ObjectOK, UserSteps, ObjectType
  <2> QED BY <2>1, <2>2
<1>9. (OwnNew /\ HandledOK /\ NoMissedWake)'
  BY <1>1, <1>2 DEF KernelInv, OwnNew, HandledOK, NoMissedWake
<1>10. OneObjectPerId'
  BY <1>a, <1>d DEF KernelInv, OneObjectPerId
<1> QED BY <1>1, <1>3, <1>5, <1>6, <1>7, <1>8, <1>9, <1>10 DEF KernelInv

\* The element is locked when its id still matches, and the search goes on otherwise.
LEMMA LockElemInv == ASSUME KernelInv, NEW t \in Threads, LockElem(t) PROVE KernelInv'
<1> USE EpochAssumption
<1>n. PICK n : n = call[t].sync
  OBVIOUS
<1>1. /\ counter' = counter /\ handled' = handled /\ failed' = failed
      /\ call[t].pc = "elem" /\ obj[n].lock = None
  BY <1>n DEF LockElem
<1>0. n \in Objects /\ obj[n].linked /\ call[t].id \in Ids /\ bucket = t
  BY <1>1, <1>n DEF KernelInv, SyncOK, ObjectSteps, CallOK, BucketOK
<1>k. obj \in [Objects -> ObjectType] /\ call \in [Threads -> Calls]
  BY DEF KernelInv, KernelType
<1>A. CASE obj[n].id = call[t].id
  <2>1. /\ obj' = [obj EXCEPT ![n].lock = t]
        /\ bucket' = None
        /\ call' = [call EXCEPT ![t].pc = "locked"]
    BY <1>n, <1>A DEF LockElem
  <2>2. /\ \A u \in Threads : u # t => call'[u] = call[u]
        /\ call' \in [Threads -> Calls]
        /\ call'[t].pc = "locked" /\ call'[t].id = call[t].id /\ call'[t].epoch = call[t].epoch
        /\ call'[t].mode = call[t].mode /\ call'[t].sync = n /\ call'[t].new = call[t].new
    BY <1>k, <1>n, <2>1 DEF Calls
  <2>a. /\ \A o \in Objects : o # n => obj'[o] = obj[o]
        /\ obj'[n].linked = obj[n].linked /\ obj'[n].lock = t /\ obj'[n].live = obj[n].live
        /\ obj'[n].id = obj[n].id /\ obj'[n].refs = obj[n].refs
        /\ obj' \in [Objects -> ObjectType]
    BY <1>k, <1>0, <2>1 DEF ObjectType
  <2>3. KernelType'
    BY <1>1, <2>1, <2>2, <2>a DEF KernelInv, KernelType
  <2>4. \A o \in Objects : Users(o)' = Users(o)
    BY <1>1, <2>2 DEF Users
  <2>5. \A u \in Threads : CallOK(u)'
    <3> TAKE u \in Threads
    <3>1. CallOK(u) /\ CallOK(t)
      BY DEF KernelInv
    <3>2. call[u].new # None => call[u].new # n /\ call[u].new \in Objects
      BY <1>0, <1>k, <3>1 DEF CallOK, Fresh, Calls
    <3>3. call[u].new # None => obj'[call[u].new] = obj[call[u].new]
      BY <2>a, <3>2
    <3>4. CASE u = t
      BY <1>1, <2>2, <3>1, <3>3, <3>4 DEF CallOK, Fresh
    <3>5. CASE u # t
      BY <1>1, <2>2, <3>1, <3>3, <3>5 DEF CallOK, Fresh
    <3> QED BY <3>4, <3>5
  <2>6. \A u \in Threads : SyncOK(u)'
    <3> TAKE u \in Threads
    <3>1. CASE u = t
      BY <1>0, <1>A, <2>2, <2>a, <3>1 DEF SyncOK
    <3>2. CASE u # t
      <4>1. SyncOK(u) /\ call'[u] = call[u]
        BY <2>2, <3>2 DEF KernelInv
      <4>2. call[u].pc \in {"locked", "remove"} => call[u].sync # n
        BY <1>0, <1>1, <1>A, <4>1 DEF SyncOK
      <4>3. call[u].pc \in ObjectSteps => call[u].sync \in Objects
        BY <4>1 DEF SyncOK
      <4>4. \A v \in Threads : call'[v].pc \in UserSteps => call'[v] = call[v]
        BY <2>2 DEF UserSteps
      <4>5. CASE call[u].sync = n
        BY <2>a, <4>1, <4>2, <4>3, <4>5 DEF SyncOK, ObjectSteps
      <4>6. CASE call[u].pc \in ObjectSteps /\ call[u].sync # n
        <5>1. obj'[call[u].sync] = obj[call[u].sync]
          BY <2>a, <4>3, <4>6
        <5> QED BY <4>1, <4>4, <5>1 DEF SyncOK
      <4> QED BY <4>1, <4>5, <4>6 DEF SyncOK, ObjectSteps
    <3> QED BY <3>1, <3>2
  <2>7. BucketOK'
    BY <1>0, <1>1, <2>1, <2>2 DEF KernelInv, BucketOK
  <2>8. \A o \in Objects : ObjectOK(o)'
    <3> TAKE o \in Objects
    <3>1. ObjectOK(o) /\ Users(o)' = Users(o)
      BY <2>4 DEF KernelInv
    <3>2. \A w \in Threads : call[w].pc \in UserSteps \cup {"locked"} => call'[w] = call[w]
      BY <1>1, <2>2 DEF UserSteps
    <3>3. \A w \in Threads : call'[w].new = call[w].new
      BY <2>2
    <3>4. obj[o].lock # None => obj[o].lock \in Threads
      BY <1>k DEF ObjectType
    <3>5. CASE o = n
      BY <2>2, <2>a, <3>1, <3>2, <3>3, <3>5 DEF ObjectOK
    <3>6. CASE o # n
      <4>1. obj'[o] = obj[o]
        BY <2>a, <3>6
      <4> QED BY <4>1, <3>1, <3>2, <3>3, <3>4 DEF ObjectOK
    <3> QED BY <3>5, <3>6
  <2>9. (OwnNew /\ HandledOK /\ NoMissedWake)'
    BY <1>1, <2>2 DEF KernelInv, OwnNew, HandledOK, NoMissedWake
  <2>10. OneObjectPerId'
    BY <2>a DEF KernelInv, OneObjectPerId
  <2> QED BY <1>1, <2>3, <2>5, <2>6, <2>7, <2>8, <2>9, <2>10 DEF KernelInv
<1>B. CASE obj[n].id # call[t].id
  <2>1. /\ obj' = obj /\ bucket' = bucket
        /\ call' = [call EXCEPT ![t].pc = "probe", ![t].sync = None]
    BY <1>n, <1>B DEF LockElem
  <2>2. /\ \A u \in Threads : u # t => call'[u] = call[u]
        /\ call' \in [Threads -> Calls]
        /\ call'[t].pc = "probe" /\ call'[t].id = call[t].id /\ call'[t].epoch = call[t].epoch
        /\ call'[t].mode = call[t].mode /\ call'[t].sync = None /\ call'[t].new = call[t].new
    BY <1>k, <2>1 DEF Calls
  <2>b. call[t].mode = "WAIT" => call[t].new # None
    BY <1>1 DEF KernelInv, CallOK
  <2>3. KernelType'
    BY <1>1, <2>1, <2>2 DEF KernelInv, KernelType
  <2>4. \A o \in Objects : Users(o)' = Users(o)
    BY <1>1, <2>2 DEF Users
  <2>5. \A u \in Threads : CallOK(u)'
    BY <1>1, <2>1, <2>2, <2>b DEF KernelInv, CallOK, Fresh
  <2>6. \A u \in Threads : SyncOK(u)'
    BY <1>1, <2>1, <2>2 DEF KernelInv, SyncOK, ObjectSteps, UserSteps
  <2>7. BucketOK'
    BY <1>0, <1>1, <2>1, <2>2 DEF KernelInv, BucketOK
  <2>8. \A o \in Objects : ObjectOK(o)'
    BY <1>1, <1>k, <2>1, <2>2, <2>4 DEF KernelInv, ObjectOK, UserSteps, ObjectType
  <2>9. (OwnNew /\ OneObjectPerId /\ HandledOK /\ NoMissedWake)'
    BY <1>1, <2>1, <2>2 DEF KernelInv, OwnNew, OneObjectPerId, HandledOK, NoMissedWake
  <2> QED BY <1>1, <2>3, <2>5, <2>6, <2>7, <2>8, <2>9 DEF KernelInv
<1> QED BY <1>A, <1>B

\* A wait with a fresh epoch takes a reference and blocks.
LEMMA WaitBlockInv == ASSUME KernelInv, NEW t \in Threads, WaitBlock(t) PROVE KernelInv'
<1> USE EpochAssumption
<1>n. PICK n : n = call[t].sync
  OBVIOUS
<1>k. obj \in [Objects -> ObjectType] /\ call \in [Threads -> Calls] /\ counter \in Nat
  BY DEF KernelInv, KernelType
<1>1. /\ handled' = handled /\ failed' = failed /\ bucket' = bucket
      /\ call[t].pc = "locked" /\ call[t].mode = "WAIT"
      /\ counter' = call[t].epoch /\ counter' \in Nat /\ counter <= counter'
  BY <1>k DEF WaitBlock, UpdateEpoch, Calls
<1>0. n \in Objects /\ obj[n].linked /\ obj[n].lock = t /\ obj[n].id = call[t].id /\ call[t].id \in Ids
  BY <1>1, <1>n DEF KernelInv, SyncOK, ObjectSteps, CallOK
<1>2. /\ \A u \in Threads : u # t => call'[u] = call[u]
      /\ call' \in [Threads -> Calls]
      /\ call'[t].pc = "blocked" /\ call'[t].id = call[t].id /\ call'[t].epoch = call[t].epoch
      /\ call'[t].mode = call[t].mode /\ call'[t].sync = n /\ call'[t].new = call[t].new
  BY <1>k, <1>n DEF WaitBlock, Calls
<1>a. /\ \A o \in Objects : o # n => obj'[o] = obj[o]
      /\ obj'[n].linked = obj[n].linked /\ obj'[n].lock = None /\ obj'[n].live = obj[n].live
      /\ obj'[n].id = obj[n].id /\ obj'[n].refs = obj[n].refs + 1
      /\ obj' \in [Objects -> ObjectType]
  BY <1>k, <1>0, <1>n DEF WaitBlock, ObjectType
<1>3. KernelType'
  BY <1>1, <1>2, <1>a DEF KernelInv, KernelType
<1>4. /\ \A o \in Objects : o # n => Users(o)' = Users(o)
      /\ \A o \in Objects : o = n => Users(o)' = Users(o) \cup {t} /\ t \notin Users(o)
  BY <1>1, <1>2, <1>n DEF Users
<1>c. \A o \in Objects : o = n => Cardinality(Users(o)') = Cardinality(Users(o)) + 1
  <2> TAKE o \in Objects
  <2> HAVE o = n
  <2>1. Users(o)' = Users(o) \cup {t} /\ t \notin Users(o) /\ IsFiniteSet(Users(o))
    BY <1>4, UsersFinite
  <2> QED BY <2>1, FS_AddElement
<1>5. \A u \in Threads : CallOK(u)'
  <2> TAKE u \in Threads
  <2>1. CallOK(u) /\ CallOK(t)
    BY DEF KernelInv
  <2>2. call[u].new # None => call[u].new # n /\ call[u].new \in Objects
    BY <1>0, <1>k, <2>1 DEF CallOK, Fresh, Calls
  <2>3. call[u].new # None => obj'[call[u].new] = obj[call[u].new]
    BY <1>a, <2>2
  <2>4. CASE u = t
    BY <1>1, <1>2, <2>1, <2>3, <2>4 DEF CallOK, Fresh
  <2>5. CASE u # t
    BY <1>1, <1>2, <1>k, <2>1, <2>3, <2>5 DEF CallOK, Fresh, Calls
  <2> QED BY <2>4, <2>5
<1>6. \A u \in Threads : SyncOK(u)'
  <2> TAKE u \in Threads
  <2>1. CASE u = t
    BY <1>0, <1>2, <1>a, <2>1 DEF SyncOK
  <2>2. CASE u # t
    <3>1. SyncOK(u) /\ call'[u] = call[u]
      BY <1>2, <2>2 DEF KernelInv
    <3>2. call[u].pc \in {"locked", "remove"} => call[u].sync # n
      BY <1>0, <1>1, <2>2, <3>1 DEF SyncOK
    <3>3. call[u].pc \in ObjectSteps => call[u].sync \in Objects
      BY <3>1 DEF SyncOK
    <3>4. \A v \in Threads : call'[v].pc \in UserSteps => call'[v] = call[v] \/ call'[v].sync = n
      BY <1>2 DEF UserSteps
    <3> QED BY <1>a, <3>1, <3>2, <3>3, <3>4 DEF SyncOK, ObjectSteps
  <2> QED BY <2>1, <2>2
<1>7. BucketOK'
  BY <1>0, <1>1, <1>2 DEF KernelInv, BucketOK
<1>8. \A o \in Objects : ObjectOK(o)'
  <2> TAKE o \in Objects
  <2>1. ObjectOK(o)
    BY DEF KernelInv
  <2>2. \A w \in Threads : call'[w].new = call[w].new
    BY <1>2
  <2>4. obj[o].lock # None => obj[o].lock \in Threads
    BY <1>k DEF ObjectType
  <2>5. CASE o = n
    <3>1. obj'[o].refs = 1 + Cardinality(Users(o)')
      BY <1>0, <1>a, <1>c, <1>k, <2>1, <2>5, UsersFinite DEF ObjectOK
    <3> QED BY <1>0, <1>2, <1>a, <2>1, <2>5, <3>1 DEF ObjectOK, UserSteps
  <2>6. CASE o # n
    <3>1. obj'[o] = obj[o] /\ Users(o)' = Users(o)
      BY <1>a, <1>4, <2>6
    <3>2. \A w \in Threads : call[w].sync = o => call'[w] = call[w]
      BY <1>2, <1>n, <2>6
    <3> QED BY <2>1, <2>2, <2>4, <3>1, <3>2 DEF ObjectOK
  <2> QED BY <2>5, <2>6
<1>9. OwnNew'
  BY <1>2 DEF KernelInv, OwnNew
<1>10. OneObjectPerId'
  BY <1>a DEF KernelInv, OneObjectPerId
<1>11. HandledOK'
  BY <1>1, <1>k DEF KernelInv, KernelType, HandledOK
<1>12. NoMissedWake'
  BY <1>0, <1>1, <1>2, <1>k DEF KernelInv, KernelType, NoMissedWake, HandledOK, Calls
<1> QED BY <1>1, <1>3, <1>5, <1>6, <1>7, <1>8, <1>9, <1>10, <1>11, <1>12 DEF KernelInv

\* An interrupted waiter keeps its reference until it is back with the lock.
LEMMA InterruptInv == ASSUME KernelInv, NEW t \in Threads, Interrupt(t) PROVE KernelInv'
<1> USE EpochAssumption
<1>1. /\ obj' = obj /\ counter' = counter /\ handled' = handled /\ failed' = failed
      /\ bucket' = bucket
      /\ call[t].pc = "blocked"
  BY DEF Interrupt
<1>k. obj \in [Objects -> ObjectType] /\ call \in [Threads -> Calls]
  BY DEF KernelInv, KernelType
<1>2. /\ \A u \in Threads : u # t => call'[u] = call[u]
      /\ call' \in [Threads -> Calls]
      /\ call'[t].pc = "woken" /\ call'[t].id = call[t].id /\ call'[t].epoch = call[t].epoch
      /\ call'[t].mode = call[t].mode /\ call'[t].sync = call[t].sync /\ call'[t].new = call[t].new
  BY <1>k DEF Interrupt, Calls
<1>3. KernelType'
  BY <1>1, <1>2 DEF KernelInv, KernelType
<1>4. \A o \in Objects : Users(o)' = Users(o)
  BY <1>1, <1>2 DEF Users
<1>5. \A u \in Threads : CallOK(u)'
  BY <1>1, <1>2 DEF KernelInv, CallOK, Fresh
<1>6. \A u \in Threads : SyncOK(u)'
  BY <1>1, <1>2 DEF KernelInv, CallOK, SyncOK, ObjectSteps, UserSteps
<1>7. BucketOK'
  BY <1>1, <1>2 DEF KernelInv, BucketOK
<1>8. \A o \in Objects : ObjectOK(o)'
  BY <1>1, <1>k, <1>2, <1>4 DEF KernelInv, ObjectOK, UserSteps, ObjectType
<1>9. (OwnNew /\ OneObjectPerId /\ HandledOK)'
  BY <1>1, <1>2 DEF KernelInv, OwnNew, OneObjectPerId, HandledOK
<1>10. NoMissedWake'
  BY <1>1, <1>2 DEF KernelInv, NoMissedWake
<1> QED BY <1>1, <1>3, <1>5, <1>6, <1>7, <1>8, <1>9, <1>10 DEF KernelInv

-----------------------------------------------------------------------------
(* Leaving an object *)

\* What the other threads see of a thread that leaves: some of those that were
\* blocked may have been woken.
OthersKept(t) ==
    \A u \in Threads : u # t =>
        /\ call'[u].id = call[u].id /\ call'[u].epoch = call[u].epoch
        /\ call'[u].mode = call[u].mode /\ call'[u].who = call[u].who
        /\ call'[u].sync = call[u].sync /\ call'[u].new = call[u].new
        /\ call'[u].pc = call[u].pc \/ (call[u].pc = "blocked" /\ call'[u].pc = "woken")

\* Unused memory has the type of an object.
LEMMA UnusedType == Unused \in ObjectType /\ ~Unused.live /\ ~Unused.linked
  BY EpochAssumption DEF Unused, ObjectType

\* So has an object its last user has hidden, ...
LEMMA HiddenType ==
    ASSUME NEW ob \in ObjectType
    PROVE  [ob EXCEPT !.id = INVALID, !.refs = 2, !.lock = None] \in ObjectType
  BY EpochAssumption DEF ObjectType

\* ... and one that another user has left.
LEMMA LeftType ==
    ASSUME NEW ob \in ObjectType, NEW k \in Nat
    PROVE  [ob EXCEPT !.refs = k, !.lock = None] \in ObjectType
  BY EpochAssumption DEF ObjectType

\* t is about to leave n.
Leaving(t, n) ==
    /\ n \in Objects /\ call[t].sync = n
    /\ call[t].pc \in {"locked", "woken"} /\ obj[n].lock \in {None, t}
    /\ bucket' = bucket /\ counter' = counter /\ ~failed'

\* t was the last user: it hides the object.
LastLeaves(t, n) ==
    /\ Users(n) \ {t} = {}
    /\ call'[t] = [call[t] EXCEPT !.pc = "remove"]
    /\ obj' = [obj EXCEPT ![n].id = INVALID, ![n].refs = 2, ![n].lock = None]

\* There are other users: t leaves its reference, and the object it had allocated.
OneLeaves(t, n) ==
    /\ Users(n) \ {t} # {}
    /\ call'[t] = Idle
    /\ obj' = FreeNew([obj EXCEPT ![n].refs = 1 + Cardinality(Users(n) \ {t}),
                                  ![n].lock = None], t)

\* The last user hides the object and goes on to remove it.
LEMMA LeaveLast ==
    ASSUME KernelInv, NEW t \in Threads, NEW n, Leaving(t, n), LastLeaves(t, n), OthersKept(t),
           KernelType', HandledOK', NoMissedWake'
    PROVE  KernelInv'
<1> USE EpochAssumption
<1>k. obj \in [Objects -> ObjectType] /\ call \in [Threads -> Calls] /\ counter \in Nat
  BY DEF KernelInv, KernelType
<1>1. /\ n \in Objects /\ call[t].sync = n
      /\ call[t].pc \in {"locked", "woken"} /\ obj[n].lock \in {None, t}
      /\ bucket' = bucket /\ counter' = counter
  BY DEF Leaving
<1>0. obj[n].linked /\ obj[n].id = call[t].id /\ call[t].id \in Ids
  BY <1>1 DEF KernelInv, SyncOK, ObjectSteps, CallOK
<1>2. /\ call'[t].pc = "remove" /\ call'[t].id = call[t].id /\ call'[t].epoch = call[t].epoch
      /\ call'[t].mode = call[t].mode /\ call'[t].sync = n /\ call'[t].new = call[t].new
  BY <1>k, <1>1 DEF LastLeaves, Calls
<1>a. /\ \A o \in Objects : o # n => obj'[o] = obj[o]
      /\ obj'[n].linked = obj[n].linked /\ obj'[n].lock = None /\ obj'[n].live = obj[n].live
      /\ obj'[n].id = INVALID /\ obj'[n].refs = 2
  BY <1>k, <1>1 DEF LastLeaves, ObjectType
<1>u. \A u \in Threads : u # t /\ call[u].sync = n => call[u].pc \notin UserSteps \cup {"locked"}
  BY <1>1 DEF LastLeaves, Users, UserSteps, KernelInv, SyncOK
<1>4. /\ \A o \in Objects : o # n => Users(o)' = Users(o)
      /\ \A o \in Objects : o = n => Users(o)' = {t}
  <2>1. \A u \in Threads : u # t => call'[u].sync = call[u].sync
           /\ (call'[u].pc \in UserSteps <=> call[u].pc \in UserSteps)
    BY DEF OthersKept, UserSteps
  <2> QED BY <1>1, <1>2, <1>u, <2>1 DEF Users, UserSteps
<1>5. \A u \in Threads : CallOK(u)'
  <2> TAKE u \in Threads
  <2>1. CallOK(u) /\ CallOK(t)
    BY DEF KernelInv
  <2>2. call[u].new # None => call[u].new # n /\ call[u].new \in Objects
    BY <1>0, <1>k, <2>1 DEF CallOK, Fresh, Calls
  <2>3. call[u].new # None => obj'[call[u].new] = obj[call[u].new]
    BY <1>a, <2>2
  <2>4. CASE u = t
    BY <1>1, <1>2, <2>1, <2>3, <2>4 DEF CallOK, Fresh
  <2>5. CASE u # t
    BY <1>1, <2>1, <2>3, <2>5 DEF CallOK, Fresh, OthersKept
  <2> QED BY <2>4, <2>5
<1>6. \A u \in Threads : SyncOK(u)'
  <2> TAKE u \in Threads
  <2>1. CASE u = t
    <3>1. \A v \in Threads : v # t => call'[v].pc \notin UserSteps \/ call'[v].sync # n
      BY <1>u DEF OthersKept, UserSteps
    <3> QED BY <1>0, <1>1, <1>2, <1>a, <2>1, <3>1 DEF SyncOK
  <2>2. CASE u # t
    <3>1. SyncOK(u)
      BY DEF KernelInv
    <3>2. CASE call[u].sync = n
      <4>1. call'[u].pc = call[u].pc /\ call'[u].sync = n
            /\ call[u].pc \notin {"locked", "blocked", "woken", "remove"}
        BY <1>u, <2>2, <3>2 DEF OthersKept, UserSteps
      <4> QED BY <1>0, <1>1, <1>a, <4>1 DEF SyncOK
    <3>3. CASE call[u].pc \in ObjectSteps /\ call[u].sync # n
      <4>1. obj'[call[u].sync] = obj[call[u].sync] /\ call'[u].sync = call[u].sync
            /\ call'[u].id = call[u].id
        BY <1>a, <2>2, <3>1, <3>3 DEF SyncOK, OthersKept
      <4>2. \A v \in Threads : call'[v].pc \in UserSteps =>
               call'[v].sync = n \/ (call[v].pc \in UserSteps /\ call'[v].sync = call[v].sync)
        BY <1>2 DEF UserSteps, OthersKept
      <4>3. call'[u].pc = call[u].pc \/ (call[u].pc = "blocked" /\ call'[u].pc = "woken")
        BY <2>2 DEF OthersKept
      <4> QED BY <3>1, <3>3, <4>1, <4>2, <4>3 DEF SyncOK, ObjectSteps
    <3> QED BY <2>2, <3>1, <3>2, <3>3 DEF SyncOK, ObjectSteps, OthersKept
  <2> QED BY <2>1, <2>2
<1>7. BucketOK'
  BY <1>1, <1>2 DEF KernelInv, BucketOK, OthersKept
<1>8. \A o \in Objects : ObjectOK(o)'
  <2> TAKE o \in Objects
  <2>1. ObjectOK(o)
    BY DEF KernelInv
  <2>2. \A w \in Threads : call'[w].new = call[w].new
    BY <1>2 DEF OthersKept
  <2>3. obj[o].lock # None => obj[o].lock \in Threads
    BY <1>k DEF ObjectType
  <2>4. CASE o = n
    <3>1. obj'[o].refs = 1 + Cardinality(Users(o)')
      <4>1. Cardinality({t}) = 1
        BY FS_Singleton
      <4>2. Users(o)' = {t}
        BY <1>4, <2>4
      <4>3. Cardinality(Users(o)') = 1
        BY <4>1, <4>2
      <4> QED BY <1>a, <2>4, <4>3
    <3> QED BY <1>0, <1>2, <1>a, <2>1, <2>4, <3>1 DEF ObjectOK, UserSteps
  <2>5. CASE o # n
    <3>1. obj'[o] = obj[o] /\ Users(o)' = Users(o)
      BY <1>a, <1>4, <2>5
    <3>2. \A w \in Threads : call[w].sync = o /\ call[w].pc \in UserSteps \cup {"locked"} =>
             /\ call'[w].sync = o /\ call'[w].pc \in UserSteps \cup {"locked"}
             /\ call[w].pc = "locked" => call'[w].pc = "locked"
      BY <1>1, <2>5 DEF OthersKept, UserSteps
    <3> QED BY <2>1, <2>2, <2>3, <3>1, <3>2 DEF ObjectOK
  <2> QED BY <2>4, <2>5
<1>9. OwnNew'
  BY <1>2 DEF KernelInv, OwnNew, OthersKept
<1>10. OneObjectPerId'
  BY <1>a DEF KernelInv, OneObjectPerId
<1> QED BY <1>5, <1>6, <1>7, <1>8, <1>9, <1>10 DEF KernelInv, Leaving

\* Another user leaves the object to those that stay.
LEMMA LeaveOthers ==
    ASSUME KernelInv, NEW t \in Threads, NEW n, Leaving(t, n), OneLeaves(t, n), OthersKept(t),
           KernelType', HandledOK', NoMissedWake'
    PROVE  KernelInv'
<1> USE EpochAssumption
<1>k. obj \in [Objects -> ObjectType] /\ call \in [Threads -> Calls] /\ counter \in Nat
  BY DEF KernelInv, KernelType
<1>1. /\ n \in Objects /\ call[t].sync = n
      /\ call[t].pc \in {"locked", "woken"} /\ obj[n].lock \in {None, t}
      /\ bucket' = bucket /\ counter' = counter
  BY DEF Leaving
<1>0. obj[n].linked /\ obj[n].id = call[t].id /\ call[t].id \in Ids
  BY <1>1 DEF KernelInv, SyncOK, ObjectSteps, CallOK
<1>m. PICK m : m = call[t].new
  OBVIOUS
<1>b. m # n /\ (m # None => m \in Objects /\ Fresh(m, call[t].id))
  BY <1>0, <1>1, <1>k, <1>m DEF KernelInv, CallOK, Fresh, Calls
<1>2. /\ call'[t].pc = "idle" /\ call'[t].mode = "WAIT"
      /\ call'[t].sync = None /\ call'[t].new = None
  BY DEF Idle, OneLeaves
<1>a. /\ \A o \in Objects : o # n /\ o # m => obj'[o] = obj[o]
      /\ m # None => obj'[m] = Unused
      /\ obj'[n].linked = obj[n].linked /\ obj'[n].lock = None /\ obj'[n].live = obj[n].live
      /\ obj'[n].id = obj[n].id /\ obj'[n].refs = 1 + Cardinality(Users(n) \ {t})
  <2>1. obj' = [o \in Objects |-> IF o = m THEN Unused ELSE
                  [obj EXCEPT ![n].refs = 1 + Cardinality(Users(n) \ {t}), ![n].lock = None][o]]
    BY <1>m DEF FreeNew, OneLeaves
  <2> QED BY <1>k, <1>1, <1>b, <2>1 DEF ObjectType
<1>u. \A u \in Threads : u # t /\ call[u].sync = n => call[u].pc \notin {"locked", "remove"}
  BY <1>0, <1>1 DEF KernelInv, SyncOK
<1>v. \A u \in Threads : u # t /\ call[u].new # None => call[u].new # m
  BY <1>m DEF KernelInv, OwnNew
<1>w. \A u \in Threads : call[u].pc \in ObjectSteps => call[u].sync \in Objects /\ call[u].sync # m
  BY <1>b DEF KernelInv, SyncOK, Fresh
<1>4. /\ \A o \in Objects : o # n => Users(o)' = Users(o)
      /\ \A o \in Objects : o = n => Users(o)' = Users(n) \ {t}
  <2>1. \A u \in Threads : u # t => call'[u].sync = call[u].sync
           /\ (call'[u].pc \in UserSteps <=> call[u].pc \in UserSteps)
    BY DEF OthersKept, UserSteps
  <2> QED BY <1>1, <1>2, <2>1 DEF Users, UserSteps
<1>5. \A u \in Threads : CallOK(u)'
  <2> TAKE u \in Threads
  <2>1. CallOK(u) /\ CallOK(t)
    BY DEF KernelInv
  <2>4. CASE u = t
    BY <1>2, <2>4 DEF CallOK
  <2>5. CASE u # t
    <3>1. call[u].new # None => call[u].new # n /\ call[u].new \in Objects
      BY <1>0, <1>k, <2>1 DEF CallOK, Fresh, Calls
    <3>2. call[u].new # None => obj'[call[u].new] = obj[call[u].new]
      BY <1>a, <1>v, <2>5, <3>1
    <3> QED BY <1>1, <2>1, <2>5, <3>2 DEF CallOK, Fresh, OthersKept
  <2> QED BY <2>4, <2>5
<1>6. \A u \in Threads : SyncOK(u)'
  <2> TAKE u \in Threads
  <2>1. CASE u = t
    BY <1>2, <2>1 DEF SyncOK, ObjectSteps
  <2>2. CASE u # t
    <3>1. SyncOK(u) /\ call'[u].sync = call[u].sync /\ call'[u].id = call[u].id
      BY <2>2 DEF KernelInv, OthersKept
    <3>4. call'[u].pc = call[u].pc \/ (call[u].pc = "blocked" /\ call'[u].pc = "woken")
      BY <2>2 DEF OthersKept
    <3>2. CASE call[u].sync = n
      BY <1>0, <1>a, <1>u, <2>2, <3>1, <3>2, <3>4 DEF SyncOK, ObjectSteps
    <3>3. CASE call[u].pc \in ObjectSteps /\ call[u].sync # n
      <4>1. obj'[call[u].sync] = obj[call[u].sync]
        BY <1>a, <1>w, <3>3
      <4>2. \A v \in Threads : call'[v].pc \in UserSteps =>
               call[v].pc \in UserSteps /\ call'[v].sync = call[v].sync
        BY <1>2 DEF UserSteps, OthersKept
      <4> QED BY <3>1, <3>3, <3>4, <4>1, <4>2 DEF SyncOK, ObjectSteps
    <3> QED BY <3>1, <3>2, <3>3, <3>4 DEF SyncOK, ObjectSteps
  <2> QED BY <2>1, <2>2
<1>7. BucketOK'
  BY <1>1, <1>2 DEF KernelInv, BucketOK, OthersKept
<1>8. \A o \in Objects : ObjectOK(o)'
  <2> TAKE o \in Objects
  <2>1. ObjectOK(o)
    BY DEF KernelInv
  <2>2. \A w \in Threads : w # t => call'[w].new = call[w].new
    BY DEF OthersKept
  <2>3. obj[o].lock # None => obj[o].lock \in Threads
    BY <1>k DEF ObjectType
  <2>4. CASE o = n
    <3>1. obj'[o].refs = 1 + Cardinality(Users(o)')
      BY <1>4, <1>a, <2>4
    <3>2. PICK w \in Threads : w # t /\ call[w].sync = n /\ call[w].pc \in UserSteps
      BY DEF OneLeaves, Users, UserSteps
    <3>3. call'[w].sync = o /\ call'[w].pc \in UserSteps
      BY <2>4, <3>2 DEF OthersKept, UserSteps
    <3> QED BY <1>0, <1>a, <2>1, <2>4, <3>1, <3>3 DEF ObjectOK
  <2>5. CASE o = m
    BY <1>a, <1>b, <2>5, UnusedType DEF ObjectOK, Unused
  <2>6. CASE o # n /\ o # m
    <3>1. obj'[o] = obj[o] /\ Users(o)' = Users(o)
      BY <1>a, <1>4, <2>6
    <3>2. \A w \in Threads : call[w].sync = o /\ call[w].pc \in UserSteps \cup {"locked"} =>
             /\ call'[w].sync = o /\ call'[w].pc \in UserSteps \cup {"locked"}
             /\ call[w].pc = "locked" => call'[w].pc = "locked"
      BY <1>1, <2>6 DEF OthersKept, UserSteps
    <3>3. \A w \in Threads : call[w].new = o => call'[w].new = o
      BY <1>m, <2>2, <2>6
    <3> QED BY <2>1, <2>3, <3>1, <3>2, <3>3 DEF ObjectOK
  <2> QED BY <2>4, <2>5, <2>6
<1>9. OwnNew'
  BY <1>2 DEF KernelInv, OwnNew, OthersKept
<1>10. OneObjectPerId'
  <2>1. \A o \in Objects : obj'[o].linked => obj[o].linked /\ obj'[o].id = obj[o].id
    BY <1>a, UnusedType, <1>b
  <2> QED BY <2>1 DEF KernelInv, OneObjectPerId
<1> QED BY <1>5, <1>6, <1>7, <1>8, <1>9, <1>10 DEF KernelInv, Leaving

\* esync_put keeps the invariant: refs is one more than the users t leaves behind and
\* the table.
LEMMA PutInv ==
    ASSUME KernelInv, NEW t \in Threads, NEW n, Leaving(t, n), handled' = handled,
           Put(t, n, Cardinality(Users(n) \ {t}) + 2)
    PROVE  KernelInv'
<1> USE EpochAssumption
<1>k. obj \in [Objects -> ObjectType] /\ call \in [Threads -> Calls] /\ counter \in Nat
  BY DEF KernelInv, KernelType
<1>c. PICK c : c = Cardinality(Users(n) \ {t})
  OBVIOUS
<1>1. c \in Nat /\ (c = 0 <=> Users(n) \ {t} = {})
  <2>1. IsFiniteSet(Users(n) \ {t})
    BY UsersFinite, FS_Difference
  <2> QED BY <1>c, <2>1, FS_CardinalityType, FS_EmptySet
<1>2. n \in Objects /\ bucket' = bucket /\ counter' = counter /\ ~failed' /\ Put(t, n, c + 2)
  BY <1>c DEF Leaving
<1>A. CASE c = 0
  <2>1. /\ obj' = [obj EXCEPT ![n].id = INVALID, ![n].refs = 2, ![n].lock = None]
        /\ call' = [call EXCEPT ![t].pc = "remove"] /\ failed' = failed
    BY <1>2, <1>A DEF Put
  <2>2. call' \in [Threads -> Calls] /\ call'[t] = [call[t] EXCEPT !.pc = "remove"]
    BY <1>k, <2>1 DEF Calls
  <2>3. obj' \in [Objects -> ObjectType]
    <3>1. [obj[n] EXCEPT !.id = INVALID, !.refs = 2, !.lock = None] \in ObjectType
      BY <1>k, <1>2, HiddenType
    <3>2. obj' = [obj EXCEPT ![n] = [obj[n] EXCEPT !.id = INVALID, !.refs = 2, !.lock = None]]
      BY <1>k, <1>2, <2>1
    <3> QED BY <1>k, <3>1, <3>2
  <2>4. OthersKept(t)
    BY <1>k, <2>1 DEF OthersKept
  <2>5. KernelType'
    BY <1>2, <2>1, <2>2, <2>3 DEF KernelInv, KernelType
  <2>6. HandledOK' /\ NoMissedWake'
    <3>1. HandledOK'
      BY <1>2 DEF KernelInv, HandledOK
    <3>2. \A u \in Threads : call'[u].pc = "blocked" => call'[u] = call[u]
      BY <1>k, <2>1 DEF Calls
    <3> QED BY <3>1, <3>2 DEF KernelInv, NoMissedWake
  <2>7. LastLeaves(t, n)
    BY <1>1, <1>A, <2>1, <2>2 DEF LastLeaves
  <2> QED BY <2>4, <2>5, <2>6, <2>7, LeaveLast
<1>B. CASE c # 0
  <2>0. ~(c + 2 = 2)
    BY <1>1, <1>B
  <2>r. PICK r : r = c + 2
    OBVIOUS
  <2>1. obj' = FreeNew([obj EXCEPT ![n].refs = r - 1, ![n].lock = None], t)
    <3>1. Put(t, n, r) /\ r # 2
      BY <1>2, <2>0, <2>r
    <3> QED BY <3>1 DEF Put
  <2>c. call' = [call EXCEPT ![t] = Idle]
    BY <1>2, <2>0, Zenon DEF Put
  <2>2. call' \in [Threads -> Calls] /\ call'[t] = Idle /\ \A u \in Threads : u # t => call'[u] = call[u]
    BY <1>k, <2>c DEF Calls, Idle
  <2>a. r - 1 = 1 + c
    BY <1>1, <2>r
  <2>b. obj' = FreeNew([obj EXCEPT ![n].refs = 1 + c, ![n].lock = None], t)
    BY <2>1, <2>a
  <2>3. obj' \in [Objects -> ObjectType]
    <3>1. [obj EXCEPT ![n].refs = 1 + c, ![n].lock = None] \in [Objects -> ObjectType]
      <4>1. [obj[n] EXCEPT !.refs = 1 + c, !.lock = None] \in ObjectType
        <5>1. PICK k \in Nat : k = 1 + c
          BY <1>1
        <5>2. [obj[n] EXCEPT !.refs = k, !.lock = None] \in ObjectType
          BY <1>k, <1>2, LeftType
        <5> QED BY <5>1, <5>2
      <4>2. [obj EXCEPT ![n].refs = 1 + c, ![n].lock = None]
              = [obj EXCEPT ![n] = [obj[n] EXCEPT !.refs = 1 + c, !.lock = None]]
        BY <1>k, <1>2
      <4> QED BY <1>k, <4>1, <4>2
    <3> QED BY <2>b, <3>1, UnusedType DEF FreeNew
  <2>4. OthersKept(t)
    BY <2>2 DEF OthersKept
  <2>f. failed' \in BOOLEAN
    BY <1>2, <2>0, Zenon DEF Put
  <2>5. KernelType'
    BY <1>2, <2>2, <2>3, <2>f DEF KernelInv, KernelType
  <2>6. HandledOK' /\ NoMissedWake'
    <3>1. HandledOK'
      BY <1>2 DEF KernelInv, HandledOK
    <3>2. \A u \in Threads : call'[u].pc = "blocked" => call'[u] = call[u]
      BY <1>k, <2>2 DEF Idle
    <3> QED BY <3>1, <3>2 DEF KernelInv, NoMissedWake
  <2>7. OneLeaves(t, n)
    BY <1>1, <1>B, <1>c, <2>b, <2>2 DEF OneLeaves
  <2> QED BY <2>4, <2>5, <2>6, <2>7, LeaveOthers
<1> QED BY <1>A, <1>B

\* A thread without a reference is not counted ...
LEMMA OthersAll ==
    ASSUME KernelInv, NEW t \in Threads, NEW n \in Objects, obj[n].linked, t \notin Users(n)
    PROVE  obj[n].refs + 1 = Cardinality(Users(n) \ {t}) + 2
<1>1. Users(n) \ {t} = Users(n)
  OBVIOUS
<1>2. obj[n].refs = 1 + Cardinality(Users(n)) /\ Cardinality(Users(n)) \in Nat
  BY UsersFinite DEF KernelInv, ObjectOK
<1> QED BY <1>1, <1>2

\* ... and one with a reference is.
LEMMA OthersButOne ==
    ASSUME KernelInv, NEW t \in Threads, NEW n \in Objects, obj[n].linked, t \in Users(n)
    PROVE  obj[n].refs = Cardinality(Users(n) \ {t}) + 2
<1>1. IsFiniteSet(Users(n)) /\ Cardinality(Users(n)) \in Nat
  BY UsersFinite
<1>2. Cardinality(Users(n) \ {t}) = Cardinality(Users(n)) - 1
  BY <1>1, FS_RemoveElement
<1>3. obj[n].refs = 1 + Cardinality(Users(n))
  BY DEF KernelInv, ObjectOK
<1> QED BY <1>1, <1>2, <1>3

\* esync_put fails no assertion.
LEMMA PutSafe ==
    ASSUME KernelInv, NEW t \in Threads, NEW n, NEW c \in Nat, Put(t, n, c + 2)
    PROVE  ~failed'
<1>1. CASE c = 0
  BY <1>1 DEF Put, KernelInv
<1>2. CASE c # 0
  <2>1. ~(c + 2 < 3) /\ ~(c + 2 = 2)
    BY <1>2
  <2>2. failed' = (failed \/ c + 2 < 3)
    BY <2>1 DEF Put
  <2> QED BY <2>1, <2>2 DEF KernelInv
<1> QED BY <1>1, <1>2

\* A wait with a stale epoch leaves at once.
LEMMA WaitStaleInv == ASSUME KernelInv, NEW t \in Threads, WaitStale(t) PROVE KernelInv'
<1>n. PICK n : n = call[t].sync
  OBVIOUS
<1>1. /\ handled' = handled /\ bucket' = bucket /\ counter' = counter
      /\ call[t].pc = "locked" /\ Put(t, n, obj[n].refs + 1)
  BY <1>n DEF WaitStale
<1>2. n \in Objects /\ obj[n].linked /\ obj[n].lock = t /\ t \notin Users(n)
  BY <1>1, <1>n DEF KernelInv, SyncOK, ObjectSteps, Users
<1>c. PICK c : c = Cardinality(Users(n) \ {t})
  OBVIOUS
<1>3. c \in Nat /\ obj[n].refs + 1 = c + 2
  <2>1. IsFiniteSet(Users(n) \ {t})
    BY UsersFinite, FS_Difference
  <2> QED BY <1>2, <1>c, <2>1, OthersAll, FS_CardinalityType
<1>4. Put(t, n, c + 2)
  BY <1>1, <1>3
<1>5. Leaving(t, n)
  BY <1>1, <1>2, <1>3, <1>4, <1>n, PutSafe DEF Leaving
<1> QED BY <1>1, <1>4, <1>5, <1>c, PutInv

\* A waiter comes back and leaves.
LEMMA WaitReturnInv == ASSUME KernelInv, NEW t \in Threads, WaitReturn(t) PROVE KernelInv'
<1>n. PICK n : n = call[t].sync
  OBVIOUS
<1>1. /\ handled' = handled /\ bucket' = bucket /\ counter' = counter
      /\ call[t].pc = "woken" /\ Put(t, n, obj[n].refs) /\ obj[n].lock = None
  BY <1>n DEF WaitReturn
<1>2. n \in Objects /\ obj[n].linked /\ t \in Users(n)
  BY <1>1, <1>n DEF KernelInv, SyncOK, ObjectSteps, Users
<1>c. PICK c : c = Cardinality(Users(n) \ {t})
  OBVIOUS
<1>3. c \in Nat /\ obj[n].refs = c + 2
  <2>1. IsFiniteSet(Users(n) \ {t})
    BY UsersFinite, FS_Difference
  <2> QED BY <1>2, <1>c, <2>1, OthersButOne, FS_CardinalityType
<1>4. Put(t, n, c + 2)
  BY <1>1, <1>3
<1>5. Leaving(t, n)
  BY <1>1, <1>2, <1>3, <1>4, <1>n, PutSafe DEF Leaving
<1> QED BY <1>1, <1>4, <1>5, <1>c, PutInv

\* A wake wakes threads that wait.
LEMMA WakesWaiters ==
    ASSUME NEW mode, NEW who, NEW W, NEW w \in WakeChoices(mode, who, W) PROVE w \subseteq W
<1>1. CASE mode = "ALL"
  BY <1>1 DEF WakeChoices
<1>2. CASE mode = "THREAD"
  BY <1>2 DEF WakeChoices
<1>3. CASE mode # "ALL" /\ mode # "THREAD"
  BY <1>3 DEF WakeChoices
<1> QED BY <1>1, <1>2, <1>3

\* A wake leaves as a user that never blocked.  When it has woken every waiter, no
\* thread with its id is blocked any more: they were all on its object.
LEMMA WakeInv == ASSUME KernelInv, NEW t \in Threads, Wake(t) PROVE KernelInv'
<1> USE EpochAssumption
<1>k. obj \in [Objects -> ObjectType] /\ call \in [Threads -> Calls] /\ counter \in Nat
      /\ handled \in [Ids -> Nat]
  BY DEF KernelInv, KernelType
<1>n. PICK n : n = call[t].sync
  OBVIOUS
<1>r. PICK r : r = obj[n].refs + 1
  OBVIOUS
<1>1. call[t].pc = "locked" /\ call[t].mode # "WAIT" /\ bucket' = bucket /\ counter' = counter
  BY DEF Wake
<1>0. /\ n \in Objects /\ obj[n].linked /\ obj[n].lock = t /\ t \notin Users(n)
      /\ obj[n].id = call[t].id /\ call[t].id \in Ids /\ call[t].id # INVALID
      /\ call[t].epoch \in Nat /\ call[t].epoch <= counter /\ call[t].new = None
  BY <1>1, <1>n, <1>k DEF KernelInv, SyncOK, CallOK, ObjectSteps, Users, Calls
<1>c. PICK c : c = Cardinality(Users(n) \ {t})
  OBVIOUS
<1>2. c \in Nat /\ r = c + 2 /\ (c = 0 <=> Users(n) \ {t} = {})
  <2>1. IsFiniteSet(Users(n) \ {t})
    BY UsersFinite, FS_Difference
  <2> QED BY <1>0, <1>c, <1>r, <2>1, OthersAll, FS_CardinalityType, FS_EmptySet
<1>w. PICK w \in WakeChoices(call[t].mode, call[t].who, BlockedOn(n)) :
        /\ call' = [u \in Threads |->
                      IF u = t THEN IF r = 2 THEN [call[t] EXCEPT !.pc = "remove"] ELSE Idle
                      ELSE IF u \in w THEN [call[u] EXCEPT !.pc = "woken"]
                      ELSE call[u]]
        /\ handled' = IF w = BlockedOn(n)
                      THEN [handled EXCEPT ![call[t].id] = Max({@, call[t].epoch})]
                      ELSE handled
  BY <1>n, <1>r DEF Wake
<1>b. w \subseteq BlockedOn(n)
  BY WakesWaiters
<1>3. obj' = [obj EXCEPT ![n].id = IF r = 2 THEN INVALID ELSE @,
                         ![n].refs = IF r = 2 THEN 2 ELSE r - 1,
                         ![n].lock = None]
  BY <1>n, <1>r DEF Wake
<1>f. ~failed' /\ failed' \in BOOLEAN
  <2>1. ~(r < 2)
    BY <1>2
  <2>2. failed' = (failed \/ r < 2)
    BY <1>n, <1>r DEF Wake
  <2> QED BY <2>1, <2>2 DEF KernelInv
<1>4. call' \in [Threads -> Calls]
  BY <1>k, <1>w DEF Calls, Idle
<1>5. OthersKept(t)
  BY <1>k, <1>w, <1>b DEF OthersKept, BlockedOn, Calls
<1>d. Leaving(t, n)
  BY <1>0, <1>1, <1>n, <1>f DEF Leaving
<1>h. PICK h \in Nat : /\ h <= counter
                       /\ w = BlockedOn(n) => handled' = [handled EXCEPT ![call[t].id] = h]
                       /\ w # BlockedOn(n) => handled' = handled
  <2>1. handled[call[t].id] \in Nat /\ handled[call[t].id] <= counter
    BY <1>k, <1>0 DEF KernelInv, HandledOK
  <2>2. Max({handled[call[t].id], call[t].epoch}) \in {handled[call[t].id], call[t].epoch}
    BY <1>0, <2>1, MaxOfTwo
  <2> QED BY <1>0, <1>w, <2>1, <2>2
<1>6. HandledOK'
  BY <1>1, <1>0, <1>h, <1>k DEF KernelInv, HandledOK
<1>7. NoMissedWake'
  <2> SUFFICES ASSUME NEW u \in Threads, call'[u].pc = "blocked"
               PROVE  call'[u].epoch >= handled'[call'[u].id]
    BY DEF NoMissedWake
  <2>1. u # t
    BY <1>w, <1>k DEF Calls, Idle
  <2>2. u \notin w /\ call'[u] = call[u] /\ call[u].pc = "blocked"
    BY <1>w, <1>k, <2>1 DEF Calls
  <2>3. call[u].sync \in Objects /\ obj[call[u].sync].linked /\ obj[call[u].sync].id = call[u].id
        /\ call[u].id \in Ids
    BY <2>2 DEF KernelInv, SyncOK, CallOK, ObjectSteps
  <2>4. CASE w = BlockedOn(n)
    <3>1. call[u].sync # n
      BY <2>2, <2>4 DEF BlockedOn
    <3>2. call[u].id # call[t].id
      BY <1>0, <2>3, <3>1 DEF KernelInv, OneObjectPerId
    <3> QED BY <1>h, <1>k, <2>2, <2>3, <2>4, <3>2 DEF KernelInv, NoMissedWake
  <2>5. CASE w # BlockedOn(n)
    BY <1>h, <2>2, <2>5 DEF KernelInv, NoMissedWake
  <2> QED BY <2>4, <2>5
<1>t. handled' \in [Ids -> Nat]
  BY <1>h, <1>k
<1>A. CASE c = 0
  <2>1. obj' = [obj EXCEPT ![n].id = INVALID, ![n].refs = 2, ![n].lock = None]
    BY <1>2, <1>3, <1>A
  <2>2. call'[t] = [call[t] EXCEPT !.pc = "remove"]
    BY <1>2, <1>w, <1>A
  <2>3. obj' \in [Objects -> ObjectType]
    <3>1. [obj[n] EXCEPT !.id = INVALID, !.refs = 2, !.lock = None] \in ObjectType
      BY <1>k, <1>0, HiddenType
    <3>2. obj' = [obj EXCEPT ![n] = [obj[n] EXCEPT !.id = INVALID, !.refs = 2, !.lock = None]]
      BY <1>k, <1>0, <2>1
    <3> QED BY <1>k, <3>1, <3>2
  <2>5. KernelType'
    BY <1>1, <1>4, <1>f, <1>t, <2>3 DEF KernelInv, KernelType
  <2>7. LastLeaves(t, n)
    BY <1>2, <1>A, <2>1, <2>2 DEF LastLeaves
  <2> QED BY <1>5, <1>6, <1>7, <1>d, <2>5, <2>7, LeaveLast
<1>B. CASE c # 0
  <2>0. ~(r = 2) /\ r - 1 = 1 + c
    BY <1>2, <1>B
  <2>k. PICK k \in Nat : k = 1 + c
    BY <1>2
  <2>1. obj' = [obj EXCEPT ![n].id = @, ![n].refs = k, ![n].lock = None]
    BY <1>3, <2>0, <2>k
  <2>2. call'[t] = Idle
    BY <1>w, <2>0
  <2>a. [obj[n] EXCEPT !.refs = k, !.lock = None] \in ObjectType
    BY <1>k, <1>0, LeftType
  <2>b. obj' = [obj EXCEPT ![n] = [obj[n] EXCEPT !.refs = k, !.lock = None]]
    <3>1. obj' = [obj EXCEPT ![n] = [obj[n] EXCEPT !.id = obj[n].id, !.refs = k, !.lock = None]]
      BY <1>k, <1>0, <2>1
    <3>2. [obj[n] EXCEPT !.id = obj[n].id, !.refs = k, !.lock = None]
            = [obj[n] EXCEPT !.refs = k, !.lock = None]
      BY <1>k, <1>0 DEF ObjectType
    <3> QED BY <3>1, <3>2
  <2>3. obj' \in [Objects -> ObjectType]
    BY <1>k, <2>a, <2>b
  <2>4. obj' = FreeNew([obj EXCEPT ![n].refs = k, ![n].lock = None], t)
    <3>1. [obj EXCEPT ![n].refs = k, ![n].lock = None]
            = [obj EXCEPT ![n] = [obj[n] EXCEPT !.refs = k, !.lock = None]]
      BY <1>k, <1>0
    <3>2. [obj EXCEPT ![n].refs = k, ![n].lock = None] = obj'
      BY <2>b, <3>1
    <3>3. obj' = FreeNew(obj', t)
      BY <1>0, <2>3 DEF FreeNew
    <3> QED BY <3>2, <3>3
  <2>5. KernelType'
    BY <1>1, <1>4, <1>f, <1>t, <2>3 DEF KernelInv, KernelType
  <2>7. OneLeaves(t, n)
    BY <1>2, <1>B, <1>c, <2>k, <2>2, <2>4 DEF OneLeaves
  <2> QED BY <1>5, <1>6, <1>7, <1>d, <2>5, <2>7, LeaveOthers
<1> QED BY <1>A, <1>B

\* The last user takes the object out of the table and frees it: nobody else can
\* have it, because a lookup that saw it would hold the bucket's lock.
LEMMA RemoveInv == ASSUME KernelInv, NEW t \in Threads, Remove(t) PROVE KernelInv'
<1> USE EpochAssumption
<1>k. obj \in [Objects -> ObjectType] /\ call \in [Threads -> Calls] /\ counter \in Nat
  BY DEF KernelInv, KernelType
<1>n. PICK n : n = call[t].sync
  OBVIOUS
<1>m. PICK m : m = call[t].new
  OBVIOUS
<1>1. /\ call[t].pc = "remove" /\ bucket = None /\ bucket' = bucket /\ counter' = counter
      /\ handled' = handled
  BY DEF Remove
<1>0. /\ n \in Objects /\ obj[n].linked /\ obj[n].lock = None /\ obj[n].refs = 2
      /\ \A u \in Threads \ {t} : call[u].pc \in UserSteps => call[u].sync # n
  BY <1>1, <1>n DEF KernelInv, SyncOK, ObjectSteps
<1>b. m # n /\ (m # None => m \in Objects /\ Fresh(m, call[t].id))
  BY <1>0, <1>k, <1>m DEF KernelInv, CallOK, Fresh, Calls
<1>f. ~failed' /\ failed' \in BOOLEAN
  <2>1. failed' = (failed \/ obj[n].refs # 2 \/ ~obj[n].linked \/ obj[n].lock # None)
    BY <1>n DEF Remove
  <2> QED BY <1>0, <2>1 DEF KernelInv
<1>2. /\ \A u \in Threads : u # t => call'[u] = call[u]
      /\ call' \in [Threads -> Calls]
      /\ call'[t].pc = "idle" /\ call'[t].mode = "WAIT"
      /\ call'[t].sync = None /\ call'[t].new = None
  BY <1>k DEF Remove, Calls, Idle
<1>3. obj' = [o \in Objects |-> IF o = m \/ o = n THEN Unused ELSE obj[o]]
  <2>1. obj' = [o \in Objects |-> IF o = m THEN Unused ELSE [obj EXCEPT ![n] = Unused][o]]
    BY <1>n, <1>m DEF Remove, FreeNew
  <2> QED BY <1>k, <2>1
<1>a. /\ \A o \in Objects : o # n /\ o # m => obj'[o] = obj[o]
      /\ \A o \in Objects : o = n \/ o = m => obj'[o] = Unused
  BY <1>3
<1>4. KernelType'
  <2>1. obj' \in [Objects -> ObjectType]
    BY <1>k, <1>3, UnusedType
  <2> QED BY <1>1, <1>2, <1>f, <2>1 DEF KernelInv, KernelType
<1>u. \A u \in Threads : u # t /\ call[u].pc \in ObjectSteps =>
         call[u].sync \in Objects /\ call[u].sync # n /\ call[u].sync # m
  BY <1>0, <1>1, <1>b DEF KernelInv, SyncOK, BucketOK, ObjectSteps, UserSteps, Fresh
<1>v. \A u \in Threads : u # t /\ call[u].new # None =>
         call[u].new \in Objects /\ call[u].new # m /\ call[u].new # n
  BY <1>0, <1>k, <1>m DEF KernelInv, OwnNew, CallOK, Fresh, Calls
<1>5. \A o \in Objects : o # n => Users(o)' = Users(o)
  BY <1>1, <1>2, <1>n DEF Users
<1>6. \A u \in Threads : CallOK(u)'
  <2> TAKE u \in Threads
  <2>1. CASE u = t
    BY <1>2, <2>1 DEF CallOK
  <2>2. CASE u # t
    <3>1. CallOK(u) /\ call'[u] = call[u]
      BY <1>2, <2>2 DEF KernelInv
    <3>2. call[u].new # None => obj'[call[u].new] = obj[call[u].new]
      BY <1>a, <1>v, <2>2
    <3> QED BY <1>1, <3>1, <3>2 DEF CallOK, Fresh
  <2> QED BY <2>1, <2>2
<1>7. \A u \in Threads : SyncOK(u)'
  <2> TAKE u \in Threads
  <2>1. CASE u = t
    BY <1>2, <2>1 DEF SyncOK, ObjectSteps
  <2>2. CASE u # t
    <3>1. SyncOK(u) /\ call'[u] = call[u]
      BY <1>2, <2>2 DEF KernelInv
    <3>2. call[u].pc \in ObjectSteps => call[u].sync \in Objects /\ obj'[call[u].sync] = obj[call[u].sync]
      BY <1>a, <1>u, <2>2
    <3>3. \A v \in Threads : call'[v].pc \in UserSteps => call'[v] = call[v]
      BY <1>2 DEF UserSteps
    <3> QED BY <3>1, <3>2, <3>3 DEF SyncOK, ObjectSteps
  <2> QED BY <2>1, <2>2
<1>8. BucketOK'
  BY <1>1, <1>2 DEF KernelInv, BucketOK
<1>9. \A o \in Objects : ObjectOK(o)'
  <2> TAKE o \in Objects
  <2>1. CASE o = n \/ o = m
    <3>1. obj'[o] = Unused
      BY <1>a, <2>1
    <3> QED BY <3>1, UnusedType DEF ObjectOK, Unused
  <2>2. CASE o # n /\ o # m
    <3>1. ObjectOK(o) /\ obj'[o] = obj[o] /\ Users(o)' = Users(o)
      BY <1>a, <1>5, <2>2 DEF KernelInv
    <3>2. \A w \in Threads : call[w].sync = o => call'[w] = call[w]
      BY <1>2, <1>n, <2>2
    <3>3. \A w \in Threads : call[w].new = o => call'[w] = call[w]
      BY <1>2, <1>m, <2>2
    <3>4. obj[o].lock # None => obj[o].lock \in Threads
      BY <1>k DEF ObjectType
    <3> QED BY <3>1, <3>2, <3>3, <3>4 DEF ObjectOK
  <2> QED BY <2>1, <2>2
<1>10. OwnNew'
  BY <1>2 DEF KernelInv, OwnNew
<1>11. OneObjectPerId'
  <2>1. \A o \in Objects : obj'[o].linked => obj'[o] = obj[o]
    BY <1>a, UnusedType
  <2> QED BY <2>1 DEF KernelInv, OneObjectPerId
<1>12. HandledOK' /\ NoMissedWake'
  <2>1. HandledOK'
    BY <1>1 DEF KernelInv, HandledOK
  <2>2. \A u \in Threads : call'[u].pc = "blocked" => call'[u] = call[u]
    BY <1>2
  <2> QED BY <1>1, <2>1, <2>2 DEF KernelInv, NoMissedWake
<1> QED BY <1>4, <1>6, <1>7, <1>8, <1>9, <1>10, <1>11, <1>12, <1>f DEF KernelInv

-----------------------------------------------------------------------------
(* Entering a call *)

\* While a thread is outside its calls an address is free: every other thread keeps
\* at most two objects alive, and there are two addresses for each thread.
LEMMA FreeObject ==
    ASSUME KernelInv, NEW t \in Threads, call[t] = Idle
    PROVE  { o \in Objects : ~obj[o].live } # {}
<1> SUFFICES ASSUME \A o \in Objects : obj[o].live PROVE FALSE
  OBVIOUS
<1> DEFINE S == Threads \ {t}
<1> DEFINE f == [u \in S |-> call[u].sync]
<1> DEFINE g == [u \in S |-> call[u].new]
<1> DEFINE A == { f[u] : u \in S }
<1> DEFINE B == { g[u] : u \in S }
<1>1. /\ IsFiniteSet(S) /\ Cardinality(S) = Cardinality(Threads) - 1
      /\ Cardinality(S) \in Nat /\ Cardinality(Threads) \in Nat
  BY EpochAssumption, FS_RemoveElement, FS_CardinalityType
<1>2. IsFiniteSet(A) /\ Cardinality(A) <= Cardinality(S) /\ Cardinality(A) \in Nat
  <2>1. f \in Surjection(S, A)
    BY DEF Surjection
  <2>2. IsFiniteSet(A) /\ Cardinality(A) <= Cardinality(S)
    <3> HIDE DEF f, A, S
    <3> QED BY <1>1, <2>1, FS_Surjection
  <2> QED BY <2>2, FS_CardinalityType
<1>3. IsFiniteSet(B) /\ Cardinality(B) <= Cardinality(S) /\ Cardinality(B) \in Nat
  <2>1. g \in Surjection(S, B)
    BY DEF Surjection
  <2>2. IsFiniteSet(B) /\ Cardinality(B) <= Cardinality(S)
    <3> HIDE DEF g, B, S
    <3> QED BY <1>1, <2>1, FS_Surjection
  <2> QED BY <2>2, FS_CardinalityType
<1>4. Objects \subseteq A \cup B
  <2> SUFFICES ASSUME NEW o \in Objects PROVE o \in A \cup B
    OBVIOUS
  <2>0. call[t].sync = None /\ call[t].new = None /\ o # None
    BY EpochAssumption DEF Idle
  <2>1. PICK u \in Threads : call[u].sync = o \/ call[u].new = o
    BY DEF KernelInv, ObjectOK
  <2>2. u \in S
    BY <2>0, <2>1
  <2> QED BY <2>1, <2>2
<1> HIDE DEF S, A, B
<1>5. /\ IsFiniteSet(A \cup B) /\ Cardinality(A \cup B) <= Cardinality(A) + Cardinality(B)
  <2>1. /\ IsFiniteSet(A \cup B)
        /\ Cardinality(A \cup B) = Cardinality(A) + Cardinality(B) - Cardinality(A \cap B)
    BY <1>2, <1>3, FS_Union
  <2>2. Cardinality(A \cap B) \in Nat
    BY <1>2, FS_Intersection, FS_CardinalityType
  <2> QED BY <1>2, <1>3, <2>1, <2>2
<1>6. Cardinality(Objects) <= Cardinality(A \cup B)
  BY <1>4, <1>5, FS_Subset
<1>7. Cardinality(Objects) \in Nat /\ Cardinality(A \cup B) \in Nat
      /\ Cardinality(Objects) >= 2 * Cardinality(Threads)
  BY <1>5, EpochAssumption, FS_CardinalityType
<1> QED BY <1>1, <1>2, <1>3, <1>5, <1>6, <1>7

\* esync_wait enters with an object of its own.
LEMMA EsyncWaitInv ==
    ASSUME KernelInv, NEW t \in Threads, call[t] = Idle, NEW id \in Ids, NEW epoch \in Nat,
           EsyncWait(t, id, epoch)
    PROVE  KernelInv'
<1> USE EpochAssumption
<1>k. obj \in [Objects -> ObjectType] /\ call \in [Threads -> Calls] /\ counter \in Nat
  BY DEF KernelInv, KernelType
<1>n. PICK n : n = Min({ o \in Objects : ~obj[o].live })
  OBVIOUS
<1>0. n \in Objects /\ ~obj[n].live
  <2>1. { o \in Objects : ~obj[o].live } # {}
    BY FreeObject
  <2>2. { o \in Objects : ~obj[o].live } \in SUBSET Nat
    OBVIOUS
  <2>3. n \in { o \in Objects : ~obj[o].live }
    BY <1>n, <2>1, <2>2, MinIn
  <2> QED BY <2>3
<1>1. /\ bucket' = bucket /\ counter' = counter /\ handled' = handled /\ failed' = failed
      /\ obj' = [obj EXCEPT ![n] = EsyncAlloc(id)]
      /\ call' = [call EXCEPT ![t] = [Idle EXCEPT !.pc = "bucket", !.id = id,
                                                  !.epoch = epoch, !.new = n]]
  BY <1>n DEF EsyncWait
<1>2. /\ \A u \in Threads : u # t => call'[u] = call[u]
      /\ call' \in [Threads -> Calls]
      /\ call'[t].pc = "bucket" /\ call'[t].id = id /\ call'[t].mode = "WAIT"
      /\ call'[t].sync = None /\ call'[t].new = n
  BY <1>0, <1>1, <1>k DEF Calls, Idle
<1>b. /\ EsyncAlloc(id) \in ObjectType
      /\ EsyncAlloc(id).live /\ ~EsyncAlloc(id).linked
      /\ EsyncAlloc(id).id = id /\ EsyncAlloc(id).refs = 1 /\ EsyncAlloc(id).lock = None
  BY DEF EsyncAlloc, ObjectType
<1>a. /\ \A o \in Objects : o # n => obj'[o] = obj[o]
      /\ obj'[n] = EsyncAlloc(id)
      /\ obj' \in [Objects -> ObjectType]
  BY <1>0, <1>1, <1>b, <1>k
<1>c. /\ obj'[n].live /\ ~obj'[n].linked
      /\ obj'[n].id = id /\ obj'[n].refs = 1 /\ obj'[n].lock = None
  BY <1>a, <1>b
<1>3. KernelType'
  BY <1>1, <1>2, <1>a DEF KernelInv, KernelType
<1>i. call[t].pc = "idle"
  BY DEF Idle
<1>u. /\ \A u \in Threads : call[u].pc \in ObjectSteps => call[u].sync \in Objects /\ call[u].sync # n
      /\ \A u \in Threads : call[u].new # None => call[u].new \in Objects /\ call[u].new # n
  BY <1>0, <1>k DEF KernelInv, SyncOK, CallOK, ObjectOK, Fresh, Calls
<1>4. \A o \in Objects : Users(o)' = Users(o)
  BY <1>2, <1>i DEF Users
<1>5. \A u \in Threads : CallOK(u)'
  <2> TAKE u \in Threads
  <2>1. CASE u = t
    BY <1>0, <1>2, <1>c, <2>1 DEF CallOK, Fresh
  <2>2. CASE u # t
    <3>1. CallOK(u) /\ call'[u] = call[u]
      BY <1>2, <2>2 DEF KernelInv
    <3>2. call[u].new # None => obj'[call[u].new] = obj[call[u].new]
      BY <1>a, <1>u
    <3> QED BY <1>1, <3>1, <3>2 DEF CallOK, Fresh
  <2> QED BY <2>1, <2>2
<1>6. \A u \in Threads : SyncOK(u)'
  <2> TAKE u \in Threads
  <2>1. CASE u = t
    BY <1>2, <2>1 DEF SyncOK, ObjectSteps
  <2>2. CASE u # t
    <3>1. SyncOK(u) /\ call'[u] = call[u]
      BY <1>2, <2>2 DEF KernelInv
    <3>2. call[u].pc \in ObjectSteps => call[u].sync \in Objects /\ obj'[call[u].sync] = obj[call[u].sync]
      BY <1>a, <1>u
    <3>3. \A v \in Threads : call'[v].pc \in UserSteps => call'[v] = call[v]
      BY <1>2 DEF UserSteps
    <3> QED BY <3>1, <3>2, <3>3 DEF SyncOK, ObjectSteps
  <2> QED BY <2>1, <2>2
<1>7. BucketOK'
  BY <1>1, <1>2, <1>i DEF KernelInv, BucketOK
<1>8. \A o \in Objects : ObjectOK(o)'
  <2> TAKE o \in Objects
  <2>1. CASE o = n
    BY <1>2, <1>c, <2>1 DEF ObjectOK
  <2>2. CASE o # n
    <3>1. ObjectOK(o) /\ obj'[o] = obj[o] /\ Users(o)' = Users(o)
      BY <1>a, <1>4, <2>2 DEF KernelInv
    <3>2. \A w \in Threads : call[w].sync = o \/ call[w].new = o => call'[w] = call[w]
      BY <1>2 DEF Idle
    <3>3. obj[o].lock # None => obj[o].lock \in Threads
      BY <1>k DEF ObjectType
    <3> QED BY <3>1, <3>2, <3>3 DEF ObjectOK
  <2> QED BY <2>1, <2>2
<1>9. OwnNew'
  BY <1>2, <1>u DEF KernelInv, OwnNew
<1>10. OneObjectPerId'
  <2>1. \A o \in Objects : obj'[o].linked => obj'[o] = obj[o]
    BY <1>a, <1>c
  <2> QED BY <2>1 DEF KernelInv, OneObjectPerId
<1>11. HandledOK' /\ NoMissedWake'
  <2>1. HandledOK'
    BY <1>1 DEF KernelInv, HandledOK
  <2>2. \A u \in Threads : call'[u].pc = "blocked" => call'[u] = call[u]
    BY <1>2
  <2> QED BY <1>1, <2>1, <2>2 DEF KernelInv, NoMissedWake
<1> QED BY <1>1, <1>3, <1>5, <1>6, <1>7, <1>8, <1>9, <1>10, <1>11 DEF KernelInv

\* esync_wake enters with the counter moved.
LEMMA EsyncWakeInv ==
    ASSUME KernelInv, NEW t \in Threads, call[t] = Idle, NEW id \in Ids, NEW epoch \in Nat,
           NEW mode \in {"ONE", "ALL", "ONE_WITH_OWNER", "THREAD"},
           NEW who \in Threads \cup {None}, EsyncWake(t, id, epoch, mode, who)
    PROVE  KernelInv'
<1> USE EpochAssumption
<1>k. obj \in [Objects -> ObjectType] /\ call \in [Threads -> Calls] /\ counter \in Nat
      /\ handled \in [Ids -> Nat]
  BY DEF KernelInv, KernelType
<1>1. /\ obj' = obj /\ bucket' = bucket /\ handled' = handled /\ failed' = failed
      /\ counter' \in Nat /\ counter' >= counter /\ counter' >= epoch
  BY <1>k DEF EsyncWake, UpdateEpoch
<1>2. /\ \A u \in Threads : u # t => call'[u] = call[u]
      /\ call' \in [Threads -> Calls]
      /\ call'[t].pc = "bucket" /\ call'[t].id = id /\ call'[t].mode # "WAIT"
      /\ call'[t].epoch = epoch /\ call'[t].sync = None /\ call'[t].new = None
  BY <1>k DEF EsyncWake, Calls, Idle
<1>i. call[t].pc = "idle" /\ call[t].sync = None /\ call[t].new = None
  BY DEF Idle
<1>3. KernelType'
  BY <1>1, <1>2 DEF KernelInv, KernelType
<1>4. \A o \in Objects : Users(o)' = Users(o)
  BY <1>2, <1>i DEF Users
<1>5. \A u \in Threads : CallOK(u)'
  <2> TAKE u \in Threads
  <2>1. CASE u = t
    BY <1>1, <1>2, <2>1 DEF CallOK
  <2>2. CASE u # t
    BY <1>1, <1>2, <1>k, <2>2 DEF KernelInv, CallOK, Fresh, Calls
  <2> QED BY <2>1, <2>2
<1>6. \A u \in Threads : SyncOK(u)'
  BY <1>1, <1>2 DEF KernelInv, SyncOK, ObjectSteps, UserSteps
<1>7. BucketOK'
  BY <1>1, <1>2, <1>i DEF KernelInv, BucketOK
<1>8. \A o \in Objects : ObjectOK(o)'
  <2> TAKE o \in Objects
  <2>1. ObjectOK(o) /\ obj'[o] = obj[o] /\ Users(o)' = Users(o)
    BY <1>1, <1>4 DEF KernelInv
  <2>2. \A w \in Threads : call[w].sync = o \/ call[w].new = o => call'[w] = call[w]
    BY <1>2, <1>i
  <2>3. obj[o].lock # None => obj[o].lock \in Threads
    BY <1>k DEF ObjectType
  <2> QED BY <2>1, <2>2, <2>3 DEF ObjectOK
<1>9. OwnNew' /\ OneObjectPerId'
  BY <1>1, <1>2 DEF KernelInv, OwnNew, OneObjectPerId
<1>10. HandledOK'
  BY <1>1, <1>k DEF KernelInv, HandledOK
<1>11. NoMissedWake'
  BY <1>1, <1>2 DEF KernelInv, NoMissedWake
<1> QED BY <1>1, <1>3, <1>5, <1>6, <1>7, <1>8, <1>9, <1>10, <1>11 DEF KernelInv

\* A step inside a call keeps the invariant.
LEMMA InsideInv == ASSUME KernelInv, NEW t \in Threads, Inside(t) PROVE KernelInv'
  BY LockBucketInv, ProbeMatchInv, ProbeInsertInv, ProbeNoneInv, LockElemInv, WaitStaleInv,
     WaitBlockInv, WaitReturnInv, WakeInv, RemoveInv DEF Inside

\* A step that touches no variable of the kernel keeps it too.
LEMMA KernelKept ==
    ASSUME KernelInv, UNCHANGED <<obj, bucket, counter, call, handled, failed>>
    PROVE  KernelInv'
<1>1. \A o : Users(o)' = Users(o)
  BY DEF Users
<1> QED BY <1>1 DEF KernelInv, KernelType, CallOK, Fresh, SyncOK, BucketOK, ObjectOK, OwnNew,
     OneObjectPerId, HandledOK, NoMissedWake

-----------------------------------------------------------------------------
(* The clients, and the theorems *)

Readings == [op : {"wait", "wake"}, id : Ids, epoch : 0 .. MaxEpoch]

ClientType ==
    /\ epochs \in [Ids -> 0 .. MaxEpoch]
    /\ seen \in [Threads -> {None} \cup Readings]

EpochInv == KernelInv /\ ClientType

\* Nothing is allocated and nobody is inside a call at first.
LEMMA InitInv == Init => EpochInv
<1> USE EpochAssumption
<1> SUFFICES ASSUME Init PROVE EpochInv
  OBVIOUS
<1>1. /\ obj = [o \in Objects |-> Unused] /\ bucket = None /\ counter = 0
      /\ call = [t \in Threads |-> Idle] /\ handled = [i \in Ids |-> 0]
  BY DEF Init
<1>f. failed \in BOOLEAN /\ ~failed
  BY DEF Init
<1>2. /\ Idle \in Calls /\ Idle.pc = "idle" /\ Idle.mode = "WAIT"
      /\ Idle.sync = None /\ Idle.new = None
  BY DEF Idle, Calls
<1>3. \A t \in Threads : call[t] = Idle
  BY <1>1
<1>4. \A o \in Objects : obj[o] = Unused
  BY <1>1
<1>5. KernelType
  BY <1>1, <1>2, <1>f, UnusedType DEF KernelType
<1>6. \A t \in Threads : CallOK(t) /\ SyncOK(t)
  BY <1>2, <1>3 DEF CallOK, SyncOK, ObjectSteps
<1>7. BucketOK
  BY <1>1, <1>2, <1>3 DEF BucketOK
<1>8. \A o \in Objects : ObjectOK(o)
  BY <1>4, UnusedType DEF ObjectOK, Unused
<1>9. OwnNew /\ NoMissedWake
  BY <1>2, <1>3 DEF OwnNew, NoMissedWake
<1>10. OneObjectPerId
  BY <1>4, UnusedType DEF OneObjectPerId
<1>11. HandledOK
  BY <1>1 DEF HandledOK
<1>12. ClientType
  BY DEF Init, ClientType
<1> QED BY <1>5, <1>6, <1>7, <1>8, <1>9, <1>10, <1>11, <1>12, <1>f DEF EpochInv, KernelInv

\* The clients' steps keep the invariant.
LEMMA ClientInv == ASSUME EpochInv, NEW t \in Threads, Client(t) PROVE EpochInv'
<1> USE EpochAssumption
<1>0. KernelInv /\ ClientType
  BY DEF EpochInv
<1>1. ASSUME NEW id \in Ids, ReadEpoch(t, id) PROVE EpochInv'
  <2>1. UNCHANGED <<obj, bucket, counter, call, handled, failed>>
    BY <1>1 DEF ReadEpoch
  <2>2. ClientType'
    <3>1. [op |-> "wait", id |-> id, epoch |-> epochs[id]] \in Readings
      BY <1>0 DEF ClientType, Readings
    <3> QED BY <1>0, <1>1, <3>1 DEF ReadEpoch, ClientType
  <2> QED BY <1>0, <2>1, <2>2, KernelKept DEF EpochInv
<1>2. ASSUME NEW id \in Ids, NextEpoch(t, id) PROVE EpochInv'
  <2>1. UNCHANGED <<obj, bucket, counter, call, handled, failed>>
    BY <1>2 DEF NextEpoch
  <2>2. ClientType'
    <3>1. epochs[id] \in 0 .. MaxEpoch /\ epochs[id] < MaxEpoch /\ epochs[id] + 1 \in 0 .. MaxEpoch
      BY <1>0, <1>2 DEF NextEpoch, ClientType
    <3>2. [op |-> "wake", id |-> id, epoch |-> epochs[id] + 1] \in Readings
      BY <3>1 DEF Readings
    <3> QED BY <1>0, <1>2, <3>1, <3>2 DEF NextEpoch, ClientType
  <2> QED BY <1>0, <2>1, <2>2, KernelKept DEF EpochInv
<1>r. seen[t] # None => seen[t].id \in Ids /\ seen[t].epoch \in Nat
  BY <1>0 DEF ClientType, Readings
<1>c. ASSUME seen' = [seen EXCEPT ![t] = None], epochs' = epochs PROVE ClientType'
  BY <1>0, <1>c DEF ClientType
<1>3. ASSUME CallWait(t) PROVE EpochInv'
  <2>1. KernelInv'
    BY <1>0, <1>3, <1>r, EsyncWaitInv DEF CallWait
  <2>2. ClientType'
    BY <1>3, <1>c DEF CallWait
  <2> QED BY <2>1, <2>2 DEF EpochInv
<1>4. ASSUME NEW mode \in {"ONE", "ALL", "ONE_WITH_OWNER", "THREAD"}, NEW who \in Threads \cup {None},
             CallWake(t, mode, who)
      PROVE EpochInv'
  <2>1. KernelInv'
    BY <1>0, <1>4, <1>r, EsyncWakeInv DEF CallWake
  <2>2. ClientType'
    BY <1>4, <1>c DEF CallWake
  <2> QED BY <2>1, <2>2 DEF EpochInv
<1> QED BY <1>1, <1>2, <1>3, <1>4 DEF Client

\* Every step keeps the invariant.
LEMMA StepInv == EpochInv /\ [Next]_vars => EpochInv'
<1> SUFFICES ASSUME EpochInv, [Next]_vars PROVE EpochInv'
  OBVIOUS
<1>0. KernelInv /\ ClientType
  BY DEF EpochInv
<1>1. ASSUME NEW t \in Threads, Inside(t) PROVE EpochInv'
  <2>1. KernelInv'
    BY <1>0, <1>1, InsideInv
  <2>2. UNCHANGED <<epochs, seen>>
    BY <1>1 DEF Inside, LockBucket, ProbeMatch, ProbeInsert, ProbeNone, LockElem, WaitStale,
                WaitBlock, WaitReturn, Wake, Remove
  <2> QED BY <1>0, <2>1, <2>2 DEF EpochInv, ClientType
<1>2. ASSUME NEW t \in Threads, Interrupt(t) PROVE EpochInv'
  <2>1. KernelInv'
    BY <1>0, <1>2, InterruptInv
  <2> QED BY <1>0, <1>2, <2>1 DEF EpochInv, ClientType, Interrupt
<1>3. ASSUME UNCHANGED vars PROVE EpochInv'
  <2>1. KernelInv'
    BY <1>0, <1>3, KernelKept DEF vars
  <2> QED BY <1>0, <1>3, <2>1 DEF EpochInv, ClientType, vars
<1> QED BY <1>1, <1>2, <1>3, ClientInv DEF Next

\* The inductive invariant holds of every behaviour.
THEOREM InvariantHolds == Spec => []EpochInv
  BY InitInv, StepInv, PTL DEF Spec

\* The invariant gives the life of the objects.
LEMMA KernelInvSafe == KernelInv => ObjectsSafe
<1> USE EpochAssumption
<1> SUFFICES ASSUME KernelInv PROVE ObjectsSafe
  OBVIOUS
<1>1. ~failed
  BY DEF KernelInv
<1>2. ASSUME NEW t \in Threads, NEW o \in {call[t].sync, call[t].new} \ {None} PROVE obj[o].live
  <2>1. CASE o = call[t].new
    BY <1>2, <2>1 DEF KernelInv, CallOK, Fresh
  <2>2. CASE o = call[t].sync
    <3>1. call[t].pc \in ObjectSteps
      BY <1>2, <2>2 DEF KernelInv, KernelType, Calls, CallOK, ObjectSteps
    <3>2. o \in Objects /\ obj[o].linked
      BY <2>2, <3>1 DEF KernelInv, SyncOK
    <3> QED BY <3>2 DEF KernelInv, ObjectOK
  <2> QED BY <1>2, <2>1, <2>2
<1>3. \A o \in Objects :
         /\ obj[o].linked => obj[o].refs = 1 + Cardinality(Users(o))
         /\ obj[o].live => obj[o].linked \/ \E t \in Threads : call[t].new = o
  BY DEF KernelInv, ObjectOK
<1>4. \A o, p \in Objects :
         obj[o].linked /\ obj[p].linked /\ obj[o].id = obj[p].id /\ obj[o].id # INVALID => o = p
  BY DEF KernelInv, OneObjectPerId
<1> QED BY <1>1, <1>2, <1>3, <1>4 DEF ObjectsSafe

\* Every variable keeps its type.
THEOREM TypeCorrect == Spec => []TypeOK
<1>1. EpochInv => TypeOK
  BY DEF EpochInv, KernelInv, KernelType, ObjectType, ClientType, Readings, TypeOK
<1> QED BY <1>1, InvariantHolds, PTL

\* esync_put and the hash table: no thread uses a freed object, the references are
\* the table's and the users', an id has one object that can be found, and nothing leaks.
THEOREM ObjectsAreSafe == Spec => []ObjectsSafe
<1>1. EpochInv => ObjectsSafe
  BY KernelInvSafe DEF EpochInv
<1> QED BY <1>1, InvariantHolds, PTL

\* esync_wait and esync_wake: no thread is blocked with an epoch that a wake which
\* left nobody behind had already passed.
THEOREM NoWakeIsMissed == Spec => []NoMissedWake
<1>1. EpochInv => NoMissedWake
  BY DEF EpochInv, KernelInv
<1> QED BY <1>1, InvariantHolds, PTL
=============================================================================
