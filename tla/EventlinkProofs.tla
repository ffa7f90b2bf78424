-------------------------- MODULE EventlinkProofs --------------------------
(***************************************************************************)
(* Proofs about Eventlink, for any number of threads and calls, waits for  *)
(* every count up to UINT64_MAX among them: the base object outlives its   *)
(* users, and signals are neither missed nor made up on the sides that no  *)
(* wait for UINT64_MAX has misled.                                         *)
(*                                                                         *)
(* The invariant has two halves that hardly touch: the life of the base    *)
(* and of its ports, and the counters and wait queues.                     *)
(***************************************************************************)
EXTENDS Eventlink, FiniteSetTheorems, SequenceTheorems, TLAPS

-----------------------------------------------------------------------------
(* The inductive invariant *)

Destroying == {"deallocLocal", "disable", "drop2", "drop1"}
Waiting == {"handoff", "blocked"}

KernReturns == {"SUCCESS", "TERMINATED", "NAME_EXISTS", "INVALID_ARGUMENT", "TIMED_OUT", "ABORTED"}

CallType ==
    [pc : {"idle", "in", "leave", "noSenders", "deallocPort"} \cup Waiting \cup Destroying,
     op : Operations \cup {"none", "no_senders"}, side : Sides, arg : Arguments, ret : Nat,
     kr : KernReturns,
     hand : Threads \cup {None}]

LifeType ==
    /\ active \in BOOLEAN /\ refs \in Nat /\ failed \in BOOLEAN
    /\ port \in [Sides -> {"live", "disabled", "dead"}] /\ right \in [Sides -> BOOLEAN]
    /\ call \in [Threads -> CallType]

\* Which operation may be at which step; one thread destroys an eventlink.
OpOK(t) ==
    /\ call[t].pc = "idle" => call[t].op = "none"
    /\ call[t].op = "none" => call[t].pc \in {"idle", "deallocPort"}
    /\ call[t].pc = "noSenders" => call[t].op = "no_senders"
    /\ call[t].pc = "deallocPort" => call[t].op \in {"none", "no_senders"} /\ ~active
    /\ call[t].pc \in Waiting => call[t].op \in Waits
    /\ call[t].pc \in Destroying =>
          /\ call[t].op \in {"destroy", "no_senders"} /\ ~active
          /\ \A u \in Threads : u # t => call[u].pc \notin Destroying

\* The no-senders notification of a port.
NoSender(t) == call[t].op = "no_senders" \/ call[t].pc = "deallocPort"

\* It comes once, when no right is left and no message is under way.
NoSenderOK(t) ==
    NoSender(t) =>
        /\ ~right[call[t].side]
        /\ \A u \in Threads : u # t /\ call[u].side = call[t].side =>
              call[u].op \notin Messages /\ ~NoSender(u)

\* A thread that is going to kill its port finds it alive.
PortOK(t) ==
    (NoSender(t) /\ call[t].pc = "in") \/ call[t].pc \in {"deallocLocal", "deallocPort"} =>
        port[call[t].side] # "dead"

\* A port leads to the eventlink until a destroy has reached it.
LivePorts ==
    /\ active => \A s \in Sides : port[s] = "live"
    /\ \A s \in Sides : port[s] = "live" =>
          \/ active
          \/ \E t \in Threads : \/ call[t].pc = "deallocLocal"
                                \/ call[t].pc = "disable" /\ call[t].side = Remote(s)

RefsOK == refs = Cardinality(Holders) + PortRefs

LifeInv ==
    /\ LifeType /\ ~failed
    /\ \A t \in Threads : OpOK(t) /\ NoSenderOK(t) /\ PortOK(t)
    /\ LivePorts /\ RefsOK

WaitResults == {None, "AWAKENED", "RESTART", "TIMED_OUT", "INTERRUPTED"}

SignalType ==
    /\ sync \in [Sides -> Nat] /\ wait \in [Sides -> 0 .. MAX]
    /\ assoc \in [Sides -> Threads \cup {None, WILD}]
    /\ waitq \in [Sides -> Seq(Threads)]
    /\ wr \in [Threads -> WaitResults] /\ misled \in SUBSET Sides

\* t has gone to wait on s and nothing has woken it.
Asleep(t, s) ==
    /\ active /\ assoc[s] # None
    /\ call[t].side = s /\ call[t].pc \in Waiting /\ wr[t] = None

\* t waits on s alone: the wait counter is its count, and the signals have not passed
\* it.  On a wild side its count is not MAX, so the wait counter tells that it waits.
OnQueue(t, s) ==
    /\ waitq[s] = <<t>> /\ Asleep(t, s) /\ assoc[s] \in {t, WILD}
    /\ wait[s] = call[t].arg /\ sync[s] <= call[t].arg
    /\ assoc[s] = WILD => call[t].arg # MAX

\* Of a misled side it is known that every thread on its queue sleeps, and is there
\* once; of every other, that one thread at most is.
QueueOK(s) ==
    /\ IsInjective(waitq[s])
    /\ \A t \in Range(waitq[s]) : Asleep(t, s)
    /\ s \in misled \/ waitq[s] = <<>> \/ \E t \in Threads : OnQueue(t, s)

WaitOK(t) ==
    /\ call[t].op \in Waits /\ call[t].pc \in {"in"} \cup Waiting => call[t].arg \in 0 .. MAX
    /\ call[t].pc = "in" /\ call[t].op = "associate" => call[t].arg \in Threads \cup {WILD}
    /\ wr[t] # None => call[t].pc \in Waiting
    /\ wr[t] = "AWAKENED" /\ call[t].side \notin misled => call[t].arg < sync[call[t].side]
    /\ call[t].pc = "leave" /\ call[t].op \in Waits /\ call[t].kr = "SUCCESS" /\ call[t].side \notin misled =>
          call[t].arg \in Nat /\ call[t].arg < call[t].ret /\ call[t].ret <= sync[call[t].side]

\* The signals that are under way have room.
Pending(s) == { t \in Threads : call[t].pc = "in" /\ call[t].op \in Signals /\ call[t].side = s }
SyncOK(s) == sync[Remote(s)] + Cardinality(Pending(s)) <= MaxSync

SignalInv ==
    /\ SignalType
    /\ \A s \in Sides : QueueOK(s) /\ SyncOK(s)
    /\ \A t \in Threads : WaitOK(t)

EventlinkInv == LifeInv /\ SignalInv

-----------------------------------------------------------------------------
(* Sides and references *)

\* The remote side is the other one.
LEMMA RemoteSide == \A s \in Sides : Remote(s) \in Sides /\ Remote(s) # s /\ Remote(Remote(s)) = s
  BY DEF Sides, Remote

\* The calls that hold a reference can be counted.
LEMMA HoldersFinite == IsFiniteSet(Holders) /\ Cardinality(Holders) \in Nat
<1>1. Holders \subseteq Threads
  BY DEF Holders
<1> QED BY <1>1, EventlinkAssumption, FS_Subset, FS_CardinalityType

\* The references of the ports, when one thread at most destroys.
PortRefsCases ==
    /\ active => PortRefs = 2
    /\ ~active /\ (\A t \in Threads : call[t].pc \notin Destroying) => PortRefs = 0
    /\ \A d \in Threads :
         ~active /\ (\A u \in Threads : u # d => call[u].pc \notin Destroying) =>
             /\ call[d].pc \in {"deallocLocal", "disable", "drop2"} => PortRefs = 2
             /\ call[d].pc = "drop1" => PortRefs = 1

\* They are what they look like.
LEMMA PortRefsValue == PortRefsCases
<1> DEFINE Two == { t \in Threads : call[t].pc \in {"deallocLocal", "disable", "drop2"} }
<1> DEFINE One == { t \in Threads : call[t].pc = "drop1" }
<1>1. active => PortRefs = 2
  BY DEF PortRefs
<1>2. ~active => PortRefs = 2 * Cardinality(Two) + Cardinality(One)
  BY DEF PortRefs
<1>3. ASSUME ~active, \A t \in Threads : call[t].pc \notin Destroying PROVE PortRefs = 0
  <2>1. Two = {} /\ One = {}
    BY <1>3 DEF Destroying
  <2> QED BY <1>2, <1>3, <2>1, FS_EmptySet
<1>4. ASSUME NEW d \in Threads, ~active, \A u \in Threads : u # d => call[u].pc \notin Destroying
      PROVE  /\ call[d].pc \in {"deallocLocal", "disable", "drop2"} => PortRefs = 2
             /\ call[d].pc = "drop1" => PortRefs = 1
  <2>0. Cardinality({d}) = 1 /\ Cardinality({}) = 0
    BY FS_Singleton, FS_EmptySet
  <2>1. CASE call[d].pc \in {"deallocLocal", "disable", "drop2"}
    <3>1. Two = {d} /\ One = {}
      BY <1>4, <2>1 DEF Destroying
    <3>2. PortRefs = 2 * 1 + 0
      BY <1>2, <1>4, <2>0, <3>1
    <3> QED BY <2>1, <3>2
  <2>2. CASE call[d].pc = "drop1"
    <3>1. One = {d} /\ Two = {}
      BY <1>4, <2>2 DEF Destroying
    <3>2. PortRefs = 2 * 0 + 1
      BY <1>2, <1>4, <2>0, <3>1
    <3> QED BY <2>2, <3>2
  <2> QED BY <2>1, <2>2
<1> QED BY <1>1, <1>3, <1>4 DEF PortRefsCases

\* ... after a step, too.
LEMMA PortRefsNext == PortRefsCases'
  BY PortRefsValue, PTL

\* They are a number, and two at least while a port is live.
LEMMA PortRefsBound ==
    ASSUME LifeInv
    PROVE  PortRefs \in Nat /\ \A s \in Sides : port[s] = "live" => PortRefs = 2
<1>0. PortRefsCases /\ LivePorts /\ \A t \in Threads : OpOK(t)
  BY PortRefsValue DEF LifeInv
<1>1. PortRefs \in Nat
  <2>1. CASE active
    BY <1>0, <2>1 DEF PortRefsCases
  <2>2. CASE \A t \in Threads : call[t].pc \notin Destroying
    BY <1>0, <2>2, <2>1 DEF PortRefsCases
  <2>3. ASSUME ~active, NEW d \in Threads, call[d].pc \in Destroying PROVE PortRefs \in Nat
    <3>1. \A u \in Threads : u # d => call[u].pc \notin Destroying
      BY <1>0, <2>3 DEF OpOK
    <3> QED BY <1>0, <2>3, <3>1 DEF PortRefsCases, Destroying
  <2> QED BY <2>1, <2>2, <2>3
<1>2. ASSUME NEW s \in Sides, port[s] = "live" PROVE PortRefs = 2
  <2>1. CASE active
    BY <1>0, <2>1 DEF PortRefsCases
  <2>2. ASSUME ~active, NEW d \in Threads, call[d].pc \in {"deallocLocal", "disable"} PROVE PortRefs = 2
    <3>1. \A u \in Threads : u # d => call[u].pc \notin Destroying
      BY <1>0, <2>2 DEF OpOK, Destroying
    <3> QED BY <1>0, <2>2, <3>1 DEF PortRefsCases
  <2> QED BY <1>0, <1>2, <2>1, <2>2 DEF LivePorts
<1> QED BY <1>1, <1>2

-----------------------------------------------------------------------------
(* The life of the base *)

\* What the steps of the counters and of the wait queues are to the life of the base.
NeutralLife(t) ==
    /\ active' = active /\ refs' = refs /\ port' = port /\ right' = right /\ failed' = failed
    /\ call' \in [Threads -> CallType]
    /\ \A u \in Threads : u # t => call'[u] = call[u]
    /\ call'[t].op = call[t].op /\ call'[t].side = call[t].side
    /\ call[t].op \notin {"none", "destroy", "no_senders"}
    /\ call[t].pc \in {"in"} \cup Waiting
    /\ call'[t].pc \in {"leave"} \cup Waiting
    /\ call'[t].pc \in Waiting => call[t].op \in Waits

\* They keep the invariant.
LEMMA NeutralLifeInv == ASSUME LifeInv, NEW t \in Threads, NeutralLife(t) PROVE LifeInv'
<1> USE EventlinkAssumption
<1>0. LifeType /\ LivePorts /\ RefsOK /\ ~failed /\ \A u \in Threads : OpOK(u) /\ NoSenderOK(u) /\ PortOK(u)
  BY DEF LifeInv
<1>1. /\ active' = active /\ refs' = refs /\ port' = port /\ right' = right /\ failed' = failed
      /\ call' \in [Threads -> CallType]
      /\ \A u \in Threads : u # t => call'[u] = call[u]
      /\ call'[t].op = call[t].op /\ call'[t].side = call[t].side
      /\ call[t].op \notin {"none", "destroy", "no_senders"}
      /\ call[t].pc \in {"in", "handoff", "blocked"}
      /\ call'[t].pc \in {"leave", "handoff", "blocked"}
      /\ call'[t].pc \in Waiting => call[t].op \in Waits
  BY DEF NeutralLife, Waiting
<1>2. LifeType'
  BY <1>0, <1>1 DEF LifeType
<1>3. \A u \in Threads : OpOK(u)'
  BY <1>0, <1>1 DEF OpOK, Destroying
<1>4. \A u \in Threads : NoSender(u)' <=> NoSender(u)
  BY <1>1 DEF NoSender
<1>5. \A u \in Threads : NoSenderOK(u)'
  BY <1>0, <1>1, <1>4 DEF NoSenderOK
<1>6. \A u \in Threads : PortOK(u)'
  BY <1>0, <1>1, <1>4 DEF PortOK, NoSender
<1>7. LivePorts'
  BY <1>0, <1>1 DEF LivePorts
<1>8. RefsOK'
  <2>1. Holders' = Holders
    BY <1>1 DEF Holders
  <2>2. PortRefs' = PortRefs
    BY <1>1 DEF PortRefs
  <2> QED BY <1>0, <1>1, <2>1, <2>2 DEF RefsOK
<1> QED BY <1>0, <1>1, <1>2, <1>3, <1>5, <1>6, <1>7, <1>8 DEF LifeInv

\* A step that leaves the base and the calls alone keeps it as well.
LEMMA LifeKept ==
    ASSUME LifeInv, active' = active, refs' = refs, port' = port, right' = right,
           failed' = failed, call' = call
    PROVE  LifeInv'
<1>1. Holders' = Holders /\ PortRefs' = PortRefs
  BY DEF Holders, PortRefs
<1>2. \A u \in Threads : NoSender(u)' <=> NoSender(u)
  BY DEF NoSender
<1> QED BY <1>1, <1>2 DEF LifeInv, LifeType, OpOK, NoSenderOK, PortOK, LivePorts, RefsOK

\* A call enters through a live port, while the task has a right to it: no
\* notification of that port can have come.
LEMMA EnterLife ==
    ASSUME LifeInv, NEW t \in Threads, NEW op, NEW s, NEW arg, Enter(t, op, s, arg)
    PROVE  LifeInv'
<1> USE EventlinkAssumption
<1>0. LifeType /\ LivePorts /\ RefsOK /\ ~failed /\ \A u \in Threads : OpOK(u) /\ NoSenderOK(u) /\ PortOK(u)
  BY DEF LifeInv
<1>1. /\ op \in Operations \ {"drop"} /\ s \in Sides /\ arg \in Arguments
      /\ call[t] = Idle /\ right[s] /\ port[s] = "live"
      /\ active' = active /\ refs' = refs + 1 /\ port' = port
      /\ call' = [call EXCEPT ![t] = [Idle EXCEPT !.pc = "in", !.op = op, !.side = s, !.arg = arg]]
  BY DEF Enter, link
<1>r. right' \in [Sides -> BOOLEAN] /\ \A q \in Sides : ~right[q] => ~right'[q]
  BY <1>0, <1>1 DEF Enter, LifeType
<1>2. /\ call' \in [Threads -> CallType]
      /\ \A u \in Threads : u # t => call'[u] = call[u]
      /\ call'[t].pc = "in" /\ call'[t].op = op /\ call'[t].side = s
  BY <1>0, <1>1 DEF LifeType, CallType, KernReturns, Idle
<1>i. call[t].pc = "idle" /\ call[t].op = "none" /\ op \notin {"none", "no_senders"}
  BY <1>1 DEF Idle, Operations, Waits
<1>f. ~failed' /\ failed' \in BOOLEAN
  <2>1. refs # 0
    BY <1>0, <1>1, PortRefsBound, HoldersFinite DEF RefsOK
  <2>2. failed' = (failed \/ refs = 0)
    BY DEF Enter
  <2> QED BY <1>0, <2>1, <2>2
<1>3. LifeType'
  BY <1>0, <1>1, <1>2, <1>f, <1>r DEF LifeType
<1>4. \A u \in Threads : OpOK(u)'
  BY <1>0, <1>1, <1>2, <1>i DEF OpOK, Destroying, Waiting
<1>5. \A u \in Threads : NoSender(u)' <=> NoSender(u)
  BY <1>2, <1>i DEF NoSender
<1>6. \A u \in Threads : NoSenderOK(u)'
  <2> TAKE u \in Threads
  <2>1. u # t /\ NoSender(u) => call[u].side # s /\ call[u].side \in Sides
    BY <1>0, <1>1 DEF NoSenderOK, LifeType, CallType
  <2>2. ~NoSender(t)
    BY <1>i DEF NoSender
  <2> QED BY <1>0, <1>2, <1>5, <1>r, <2>1, <2>2 DEF NoSenderOK
<1>7. \A u \in Threads : PortOK(u)'
  <2>1. ~NoSender(t)
    BY <1>i DEF NoSender
  <2> QED BY <1>0, <1>1, <1>2, <1>5, <2>1 DEF PortOK
<1>8. LivePorts'
  BY <1>0, <1>1, <1>2, <1>i DEF LivePorts
<1>9. RefsOK'
  <2>1. Holders' = Holders \cup {t} /\ t \notin Holders
    BY <1>2, <1>i DEF Holders
  <2>2. Cardinality(Holders') = Cardinality(Holders) + 1
    BY <2>1, HoldersFinite, FS_AddElement
  <2>3. PortRefs' = PortRefs
    BY <1>1, <1>2, <1>i DEF PortRefs
  <2> QED BY <1>0, <1>1, <2>2, <2>3, HoldersFinite, PortRefsBound DEF RefsOK
<1> QED BY <1>3, <1>4, <1>6, <1>7, <1>8, <1>9, <1>f DEF LifeInv

\* A destroy that finds the eventlink active is the only one; a notification that
\* comes second still finds its port.
LEMMA DestroyLockedLife == ASSUME LifeInv, NEW t \in Threads, DestroyLocked(t) PROVE LifeInv'
<1> USE EventlinkAssumption
<1>0. LifeType /\ LivePorts /\ RefsOK /\ ~failed /\ \A u \in Threads : OpOK(u) /\ NoSenderOK(u) /\ PortOK(u)
  BY DEF LifeInv
<1>1. /\ call[t].pc = "in" /\ call[t].op \in {"destroy", "no_senders"}
      /\ refs' = refs /\ port' = port /\ right' = right /\ failed' = failed
  BY DEF DestroyLocked
<1>2. CASE active
  <2>1. active' = FALSE /\ call' = [call EXCEPT ![t].pc = "deallocLocal"]
    BY <1>2 DEF DestroyLocked
  <2>2. /\ call' \in [Threads -> CallType]
        /\ \A u \in Threads : u # t => call'[u] = call[u]
        /\ call'[t].pc = "deallocLocal" /\ call'[t].op = call[t].op /\ call'[t].side = call[t].side
    BY <1>0, <2>1 DEF LifeType, CallType, Destroying
  <2>3. LifeType'
    <3>1. active' \in BOOLEAN
      BY <2>1
    <3> QED BY <1>0, <1>1, <2>2, <3>1 DEF LifeType
  <2>4. \A u \in Threads : call[u].pc \notin Destroying /\ call[u].pc # "deallocPort"
    BY <1>0, <1>2 DEF OpOK
  <2>5. \A u \in Threads : OpOK(u)'
    BY <1>0, <1>1, <2>1, <2>2, <2>4 DEF OpOK, Destroying, Waiting
  <2>6. \A u \in Threads : NoSender(u)' <=> NoSender(u)
    BY <1>1, <2>2 DEF NoSender
  <2>7. \A u \in Threads : NoSenderOK(u)'
    BY <1>0, <1>1, <2>2, <2>6 DEF NoSenderOK
  <2>8. \A u \in Threads : PortOK(u)'
    <3>1. \A s \in Sides : port[s] = "live"
      BY <1>0, <1>2 DEF LivePorts
    <3>2. \A u \in Threads : call'[u].side \in Sides
      BY <2>2 DEF CallType
    <3> QED BY <1>1, <3>1, <3>2 DEF PortOK
  <2>9. LivePorts'
    BY <2>1, <2>2 DEF LivePorts
  <2>10. RefsOK'
    <3>1. Holders' = Holders
      BY <1>1, <2>2 DEF Holders
    <3>2. \A u \in Threads : u # t => call'[u].pc \notin Destroying
      BY <2>2, <2>4
    <3>3. PortRefs = 2 /\ PortRefs' = 2
      BY <1>2, <2>1, <2>2, <3>2, PortRefsValue, PortRefsNext DEF PortRefsCases
    <3> QED BY <1>0, <1>1, <3>1, <3>3 DEF RefsOK
  <2> QED BY <1>0, <1>1, <2>3, <2>5, <2>7, <2>8, <2>9, <2>10 DEF LifeInv
<1>3. CASE ~active
  <2>1. /\ active' = active
        /\ call' = [call EXCEPT ![t].pc = IF call[t].op = "no_senders" THEN "deallocPort" ELSE "leave"]
    BY <1>3 DEF DestroyLocked
  <2>2. /\ call' \in [Threads -> CallType]
        /\ \A u \in Threads : u # t => call'[u] = call[u]
        /\ call'[t].op = call[t].op /\ call'[t].side = call[t].side
        /\ call[t].op = "no_senders" => call'[t].pc = "deallocPort"
        /\ call[t].op = "destroy" => call'[t].pc = "leave"
    BY <1>0, <1>1, <2>1 DEF LifeType, CallType
  <2>3. LifeType'
    BY <1>0, <1>1, <2>1, <2>2 DEF LifeType
  <2>5. \A u \in Threads : OpOK(u)'
    BY <1>0, <1>1, <1>3, <2>1, <2>2 DEF OpOK, Destroying, Waiting
  <2>6. \A u \in Threads : NoSender(u)' <=> NoSender(u)
    BY <1>1, <2>2 DEF NoSender
  <2>7. \A u \in Threads : NoSenderOK(u)'
    BY <1>0, <1>1, <2>2, <2>6 DEF NoSenderOK
  <2>8. \A u \in Threads : PortOK(u)'
    BY <1>0, <1>1, <2>2 DEF PortOK, NoSender
  <2>9. LivePorts'
    BY <1>0, <1>1, <2>1, <2>2 DEF LivePorts
  <2>10. RefsOK'
    <3>1. Holders' = Holders
      BY <1>1, <2>2 DEF Holders
    <3>2. PortRefs' = PortRefs
      BY <1>1, <2>1, <2>2 DEF PortRefs
    <3> QED BY <1>0, <1>1, <3>1, <3>2 DEF RefsOK
  <2> QED BY <1>0, <1>1, <2>3, <2>5, <2>7, <2>8, <2>9, <2>10 DEF LifeInv
<1> QED BY <1>2, <1>3

\* No two threads are about to kill one port.
LEMMA DeallocPortLife == ASSUME LifeInv, NEW t \in Threads, DeallocPort(t) PROVE LifeInv'
<1> USE EventlinkAssumption
<1>0. LifeType /\ LivePorts /\ RefsOK /\ ~failed /\ \A u \in Threads : OpOK(u) /\ NoSenderOK(u) /\ PortOK(u)
  BY DEF LifeInv
<1>1. PICK s \in Sides : s = call[t].side
  BY <1>0 DEF LifeType, CallType
<1>2. /\ call[t].pc \in {"deallocLocal", "deallocPort"}
      /\ active' = active /\ refs' = refs /\ port' = [port EXCEPT ![s] = "dead"] /\ right' = right
  BY <1>1 DEF DeallocPort, link
<1>p. /\ port' \in [Sides -> {"live", "disabled", "dead"}]
      /\ \A q \in Sides : q # s => port'[q] = port[q]
      /\ port'[s] = "dead"
  BY <1>0, <1>2 DEF LifeType
<1>3. /\ call' \in [Threads -> CallType]
      /\ \A u \in Threads : u # t => call'[u] = call[u]
  <2>1. call' = [call EXCEPT ![t] = CASE call[t].pc = "deallocLocal" -> [call[t] EXCEPT !.pc = "disable"]
                                     [] call[t].pc = "deallocPort" /\ call[t].op = "no_senders" ->
                          [call[t] EXCEPT !.pc = "leave"]
                                     [] OTHER -> Idle]
    BY DEF DeallocPort
  <2>2. Idle \in CallType
    BY DEF Idle, CallType, KernReturns, Operations, Sides, Arguments, Waits
  <2>3. [call[t] EXCEPT !.pc = "disable"] \in CallType /\ [call[t] EXCEPT !.pc = "leave"] \in CallType
    BY <1>0 DEF LifeType, CallType, Destroying
  <2> QED BY <1>0, <2>1, <2>2, <2>3 DEF LifeType
<1>4. /\ call[t].pc = "deallocLocal" =>
            call'[t].pc = "disable" /\ call'[t].op = call[t].op /\ call'[t].side = s
      /\ call[t].pc = "deallocPort" /\ call[t].op = "no_senders" =>
            call'[t].pc = "leave" /\ call'[t].op = "no_senders" /\ call'[t].side = s
      /\ call[t].pc = "deallocPort" /\ call[t].op = "none" =>
            call'[t].pc = "idle" /\ call'[t].op = "none"
  <2>1. call'[t] = CASE call[t].pc = "deallocLocal" -> [call[t] EXCEPT !.pc = "disable"]
                     [] call[t].pc = "deallocPort" /\ call[t].op = "no_senders" ->
                          [call[t] EXCEPT !.pc = "leave"]
                     [] OTHER -> Idle
    BY <1>0 DEF DeallocPort, LifeType
  <2>2. call[t] \in CallType
    BY <1>0 DEF LifeType
  <2>3. CASE call[t].pc = "deallocLocal"
    <3>1. call'[t] = [call[t] EXCEPT !.pc = "disable"]
      BY <2>1, <2>3
    <3> QED BY <1>1, <2>2, <2>3, <3>1 DEF CallType
  <2>4. CASE call[t].pc = "deallocPort" /\ call[t].op = "no_senders"
    <3>1. call'[t] = [call[t] EXCEPT !.pc = "leave"]
      BY <2>1, <2>4
    <3> QED BY <1>1, <2>2, <2>4, <3>1 DEF CallType
  <2>5. CASE call[t].pc = "deallocPort" /\ call[t].op = "none"
    <3>1. call'[t] = Idle
      BY <2>1, <2>5
    <3> QED BY <2>5, <3>1 DEF Idle
  <2> QED BY <2>3, <2>4, <2>5
<1>5. ~active /\ (call[t].pc = "deallocPort" => call[t].op \in {"none", "no_senders"})
  BY <1>0, <1>2 DEF OpOK, Destroying
<1>f. ~failed' /\ failed' \in BOOLEAN
  <2>1. port[s] # "dead"
    BY <1>0, <1>1, <1>2 DEF PortOK
  <2>2. failed' = (failed \/ port[s] = "dead")
    BY <1>1 DEF DeallocPort
  <2> QED BY <1>0, <2>1, <2>2
<1>6. LifeType'
  BY <1>0, <1>2, <1>3, <1>f, <1>p DEF LifeType
<1>7. \A u \in Threads : OpOK(u)'
  BY <1>0, <1>2, <1>3, <1>4, <1>5 DEF OpOK, Destroying, Waiting
<1>8. \A u \in Threads : NoSender(u)' => NoSender(u) /\ call'[u].side = call[u].side
  BY <1>1, <1>2, <1>3, <1>4, <1>5 DEF NoSender
<1>9. \A u \in Threads : NoSenderOK(u)'
  <2>1. call'[t].op \in Messages => call[t].op \in Messages /\ call'[t].side = call[t].side
    BY <1>1, <1>2, <1>4, <1>5 DEF Messages
  <2> QED BY <1>0, <1>2, <1>3, <1>8, <2>1 DEF NoSenderOK
<1>10. \A u \in Threads : PortOK(u)'
  <2> TAKE u \in Threads
  <2>1. CASE u = t
    BY <1>2, <1>4, <1>5, <2>1 DEF PortOK, NoSender
  <2>2. CASE u # t /\ call[u].side # s
    <3>1. call[u].side \in Sides
      BY <1>0 DEF LifeType, CallType
    <3> QED BY <1>0, <1>3, <1>p, <2>2, <3>1 DEF PortOK, NoSender
  <2>3. CASE u # t /\ call[u].side = s
    <3>1. CASE NoSender(t)
      <4>1. call[u].op \notin Messages /\ ~NoSender(u)
        BY <1>0, <1>1, <2>3, <3>1 DEF NoSenderOK
      <4>2. call[u].pc # "deallocLocal"
        BY <1>0, <4>1 DEF OpOK, Destroying, Messages, NoSender
      <4> QED BY <1>3, <2>3, <4>1, <4>2 DEF PortOK, NoSender
    <3>2. CASE ~NoSender(t)
      <4>1. call[t].pc = "deallocLocal" /\ call[t].op \in Messages
        BY <1>0, <1>2, <3>2 DEF NoSender, OpOK, Destroying, Messages
      <4>2. ~NoSender(u)
        BY <1>0, <1>1, <2>3, <4>1 DEF NoSenderOK
      <4>3. call[u].pc # "deallocLocal"
        BY <1>0, <2>3, <4>1 DEF OpOK, Destroying
      <4> QED BY <1>3, <2>3, <4>2, <4>3 DEF PortOK, NoSender
    <3> QED BY <3>1, <3>2
  <2> QED BY <2>1, <2>2, <2>3
<1>11. LivePorts'
  <2>1. ASSUME NEW q \in Sides, port'[q] = "live"
        PROVE  \E d \in Threads : \/ call'[d].pc = "deallocLocal"
                                  \/ call'[d].pc = "disable" /\ call'[d].side = Remote(q)
    <3>1. q # s /\ port[q] = "live"
      BY <1>p, <2>1
    <3>2. s = Remote(q)
      BY <3>1 DEF Sides, Remote
    <3>3. PICK d \in Threads : \/ call[d].pc = "deallocLocal"
                               \/ call[d].pc = "disable" /\ call[d].side = Remote(q)
      <4>1. LivePorts /\ ~active
        BY <1>0, <1>5
      <4> QED BY <3>1, <4>1 DEF LivePorts
    <3>4. CASE d = t
      BY <1>2, <1>4, <3>2, <3>3, <3>4
    <3>5. CASE d # t
      BY <1>3, <3>3, <3>5
    <3> QED BY <3>4, <3>5
  <2> QED BY <1>2, <1>5, <2>1 DEF LivePorts
<1>12. RefsOK'
  <2>1. Holders' = Holders
    BY <1>2, <1>3, <1>4, <1>5 DEF Holders
  <2>2. PortRefs' = PortRefs
    BY <1>2, <1>3, <1>4, <1>5 DEF PortRefs
  <2> QED BY <1>0, <1>2, <2>1, <2>2 DEF RefsOK
<1> QED BY <1>6, <1>7, <1>9, <1>10, <1>11, <1>12, <1>f DEF LifeInv

\* Once the remote port is disabled no port leads to the eventlink.
LEMMA DisableRemoteLife == ASSUME LifeInv, NEW t \in Threads, DisableRemote(t) PROVE LifeInv'
<1> USE EventlinkAssumption
<1>0. LifeType /\ LivePorts /\ RefsOK /\ ~failed /\ \A u \in Threads : OpOK(u) /\ NoSenderOK(u) /\ PortOK(u)
  BY DEF LifeInv
<1>1. PICK r \in Sides : r = Remote(call[t].side) /\ call[t].side = Remote(r)
  BY <1>0 DEF LifeType, CallType, Remote, Sides
<1>2. /\ call[t].pc = "disable" /\ call' = [call EXCEPT ![t].pc = "drop2"]
      /\ active' = active /\ refs' = refs /\ right' = right /\ failed' = failed
      /\ port' = IF port[r] = "live" THEN [port EXCEPT ![r] = "disabled"] ELSE port
  BY <1>1 DEF DisableRemote, link
<1>p. /\ port' \in [Sides -> {"live", "disabled", "dead"}]
      /\ \A q \in Sides : q # r => port'[q] = port[q]
      /\ port'[r] # "live" /\ (port[r] # "dead" => port'[r] # "dead")
  BY <1>0, <1>2 DEF LifeType
<1>3. /\ call' \in [Threads -> CallType]
      /\ \A u \in Threads : u # t => call'[u] = call[u]
      /\ call'[t].pc = "drop2" /\ call'[t].op = call[t].op /\ call'[t].side = call[t].side
  BY <1>0, <1>2 DEF LifeType, CallType, Destroying
<1>4. LifeType'
  BY <1>0, <1>2, <1>3, <1>p DEF LifeType
<1>5. /\ \A u \in Threads : u # t => call[u].pc \notin Destroying
      /\ ~active /\ call[t].op \in {"destroy", "no_senders"}
  BY <1>0, <1>2 DEF OpOK, Destroying
<1>6. \A u \in Threads : OpOK(u)'
  BY <1>0, <1>2, <1>3, <1>5 DEF OpOK, Destroying, Waiting
<1>7. \A u \in Threads : NoSender(u)' <=> NoSender(u)
  BY <1>2, <1>3 DEF NoSender
<1>8. \A u \in Threads : NoSenderOK(u)'
  BY <1>0, <1>2, <1>3, <1>7 DEF NoSenderOK
<1>9. \A u \in Threads : PortOK(u)'
  <2>1. \A u \in Threads : call'[u].side \in Sides
    BY <1>3 DEF CallType
  <2> QED BY <1>0, <1>2, <1>3, <1>7, <1>p, <2>1 DEF PortOK
<1>10. LivePorts'
  <2>1. ASSUME NEW q \in Sides, port[q] = "live" PROVE q = r
    <3>1. PICK d \in Threads : call[d].pc = "deallocLocal" \/ (call[d].pc = "disable" /\ call[d].side = Remote(q))
      BY <1>0, <1>5, <2>1 DEF LivePorts
    <3>2. d = t
      BY <1>5, <3>1 DEF Destroying
    <3>3. Remote(r) = Remote(q)
      BY <1>1, <1>2, <3>1, <3>2
    <3> QED BY <3>3, RemoteSide
  <2>2. \A q \in Sides : port'[q] # "live"
    BY <1>p, <2>1
  <2> QED BY <1>2, <1>5, <2>2 DEF LivePorts
<1>11. RefsOK'
  <2>1. Holders' = Holders
    BY <1>2, <1>3 DEF Holders
  <2>2. PortRefs' = PortRefs
    BY <1>2, <1>3 DEF PortRefs
  <2> QED BY <1>0, <1>2, <2>1, <2>2 DEF RefsOK
<1> QED BY <1>0, <1>2, <1>4, <1>6, <1>8, <1>9, <1>10, <1>11 DEF LifeInv

\* A thread that gives a reference back has one, and the ports keep theirs while
\* the eventlink is active: the assertion of ipc_eventlink_deallocate holds.
LEMMA DeallocateSafe ==
    ASSUME LifeInv, NEW t \in Holders, Deallocate
    PROVE  refs \in Nat /\ refs # 0 /\ refs' = refs - 1 /\ ~failed' /\ failed' \in BOOLEAN
<1>1. Cardinality(Holders) \in Nat /\ Cardinality(Holders) # 0
  BY HoldersFinite, FS_EmptySet
<1>2. refs = Cardinality(Holders) + PortRefs /\ PortRefs \in Nat /\ (active => PortRefs = 2)
  BY PortRefsBound, PortRefsValue DEF LifeInv, RefsOK, PortRefsCases
<1>3. refs \in Nat /\ refs # 0 /\ ~(refs = 1 /\ active)
  BY <1>1, <1>2
<1>4. failed' = (failed \/ refs = 0 \/ (refs = 1 /\ active)) /\ ~failed
  BY DEF Deallocate, LifeInv
<1>5. failed' = FALSE
  BY <1>3, <1>4
<1>6. refs' = refs - 1
  BY DEF Deallocate
<1> QED BY <1>3, <1>5, <1>6

\* The two references of the ports are there to be dropped.
LEMMA DropPortRefLife == ASSUME LifeInv, NEW t \in Threads, DropPortRef(t) PROVE LifeInv'
<1> USE EventlinkAssumption
<1>0. LifeType /\ LivePorts /\ RefsOK /\ ~failed /\ \A u \in Threads : OpOK(u) /\ NoSenderOK(u) /\ PortOK(u)
  BY DEF LifeInv
<1>1. /\ call[t].pc \in {"drop2", "drop1"} /\ Deallocate
      /\ call' = [call EXCEPT ![t].pc = IF call[t].pc = "drop2" THEN "drop1" ELSE "leave"]
      /\ active' = active /\ port' = port /\ right' = right
  BY DEF DropPortRef, link
<1>2. /\ call' \in [Threads -> CallType]
      /\ \A u \in Threads : u # t => call'[u] = call[u]
      /\ call[t].pc = "drop2" => call'[t].pc = "drop1"
      /\ call[t].pc = "drop1" => call'[t].pc = "leave"
      /\ call'[t].op = call[t].op /\ call'[t].side = call[t].side
  BY <1>0, <1>1 DEF LifeType, CallType, Destroying
<1>3. /\ \A u \in Threads : u # t => call[u].pc \notin Destroying
      /\ ~active /\ call[t].op \in {"destroy", "no_senders"}
  BY <1>0, <1>1 DEF OpOK, Destroying
<1>4. t \in Holders
  BY <1>1, <1>3 DEF Holders
<1>5. refs \in Nat /\ refs # 0 /\ refs' = refs - 1 /\ ~failed' /\ failed' \in BOOLEAN
  BY <1>1, <1>4, DeallocateSafe
<1>6. LifeType'
  BY <1>0, <1>1, <1>2, <1>5 DEF LifeType
<1>7. \A u \in Threads : OpOK(u)'
  BY <1>0, <1>1, <1>2, <1>3 DEF OpOK, Destroying, Waiting
<1>8. \A u \in Threads : NoSender(u)' <=> NoSender(u)
  BY <1>1, <1>2 DEF NoSender
<1>9. \A u \in Threads : NoSenderOK(u)'
  BY <1>0, <1>1, <1>2, <1>8 DEF NoSenderOK
<1>10. \A u \in Threads : PortOK(u)'
  BY <1>0, <1>1, <1>2, <1>8 DEF PortOK
<1>11. LivePorts'
  BY <1>0, <1>1, <1>2 DEF LivePorts
<1>12. RefsOK'
  <2>1. Holders' = Holders
    BY <1>1, <1>2, <1>3 DEF Holders
  <2>2. ~active' /\ \A u \in Threads : u # t => call'[u].pc \notin Destroying
    BY <1>1, <1>2, <1>3
  <2>3. PortRefs' = PortRefs - 1 /\ PortRefs \in Nat
    <3>1. CASE call[t].pc = "drop2"
      BY <1>2, <1>3, <2>2, <3>1, PortRefsValue, PortRefsNext DEF PortRefsCases
    <3>2. CASE call[t].pc = "drop1"
      <4>1. \A u \in Threads : call'[u].pc \notin Destroying
        BY <1>2, <2>2, <3>2 DEF Destroying
      <4>2. PortRefs' = 0
        BY <2>2, <4>1, PortRefsNext DEF PortRefsCases
      <4>3. PortRefs = 1
        BY <1>3, <3>2, PortRefsValue DEF PortRefsCases
      <4> QED BY <4>2, <4>3
    <3> QED BY <1>1, <3>1, <3>2
  <2> QED BY <1>0, <1>5, <2>1, <2>3, HoldersFinite DEF RefsOK
<1> QED BY <1>5, <1>6, <1>7, <1>9, <1>10, <1>11, <1>12 DEF LifeInv

\* A message that leaves with the last right starts the only notification.
LEMMA LeaveLife == ASSUME LifeInv, NEW t \in Threads, Leave(t) PROVE LifeInv'
<1> USE EventlinkAssumption
<1>0. LifeType /\ LivePorts /\ RefsOK /\ ~failed /\ \A u \in Threads : OpOK(u) /\ NoSenderOK(u) /\ PortOK(u)
  BY DEF LifeInv
<1>1. PICK s \in Sides : s = call[t].side
  BY <1>0 DEF LifeType, CallType
<1>2. /\ call[t].pc = "leave" /\ Deallocate
      /\ active' = active /\ port' = port /\ right' = right
      /\ \/ /\ call[t].op \in Messages /\ LastRight(t, s, right)
            /\ call' = [call EXCEPT ![t] = [Idle EXCEPT !.pc = "noSenders", !.op = "no_senders", !.side = s]]
         \/ call' = [call EXCEPT ![t] = Idle]
  BY <1>1 DEF Leave, link
<1>3. call' \in [Threads -> CallType] /\ \A u \in Threads : u # t => call'[u] = call[u]
  <2>1. Idle \in CallType /\ [Idle EXCEPT !.pc = "noSenders", !.op = "no_senders", !.side = s] \in CallType
    BY DEF Idle, CallType, KernReturns, Operations, Sides, Arguments, Waits
  <2> QED BY <1>0, <1>2, <2>1 DEF LifeType
<1>4. \/ /\ call[t].op \in Messages /\ LastRight(t, s, right)
         /\ call'[t].pc = "noSenders" /\ call'[t].op = "no_senders" /\ call'[t].side = s
      \/ call'[t].pc = "idle" /\ call'[t].op = "none"
  <2>1. CASE call' = [call EXCEPT ![t] = Idle]
    <3>1. call'[t] = Idle
      BY <1>0, <2>1 DEF LifeType
    <3> QED BY <3>1 DEF Idle
  <2>2. CASE call' = [call EXCEPT ![t] = [Idle EXCEPT !.pc = "noSenders", !.op = "no_senders", !.side = s]]
    <3>1. call'[t] = [Idle EXCEPT !.pc = "noSenders", !.op = "no_senders", !.side = s]
      BY <1>0, <2>2 DEF LifeType
    <3>2. call'[t].pc = "noSenders" /\ call'[t].op = "no_senders" /\ call'[t].side = s
      BY <3>1 DEF Idle
    <3>3. (call[t].op \in Messages /\ LastRight(t, s, right)) \/ call'[t] = Idle
      BY <1>0, <1>2 DEF LifeType
    <3> QED BY <3>2, <3>3 DEF Idle
  <2> QED BY <1>2, <2>1, <2>2
<1>5. t \in Holders
  BY <1>0, <1>2 DEF Holders, OpOK
<1>6. refs \in Nat /\ refs # 0 /\ refs' = refs - 1 /\ ~failed' /\ failed' \in BOOLEAN
  BY <1>2, <1>5, DeallocateSafe
<1>7. LifeType'
  BY <1>0, <1>2, <1>3, <1>6 DEF LifeType
<1>8. \A u \in Threads : OpOK(u)'
  BY <1>0, <1>2, <1>3, <1>4 DEF OpOK, Destroying, Waiting
<1>9. \A u \in Threads : u # t => (NoSender(u)' <=> NoSender(u))
  BY <1>3 DEF NoSender
<1>10. \A u \in Threads : NoSenderOK(u)'
  <2>1. CASE call'[t].op = "none" /\ call'[t].pc = "idle"
    <3>1. ~NoSender(t)' /\ call'[t].op \notin Messages
      BY <2>1 DEF NoSender, Messages
    <3> QED BY <1>0, <1>2, <1>3, <1>9, <3>1 DEF NoSenderOK
  <2>2. CASE /\ call[t].op \in Messages /\ LastRight(t, s, right)
             /\ call'[t].op = "no_senders" /\ call'[t].side = s
    <3>1. \A u \in Threads : u # t /\ call[u].side = s => ~NoSender(u) /\ call[u].op \notin Messages
      BY <1>0, <1>1, <2>2 DEF NoSenderOK, LastRight
    <3>2. ~right'[s] /\ call'[t].op \notin Messages
      BY <1>2, <2>2 DEF LastRight, Messages
    <3> TAKE u \in Threads
    <3>3. CASE u = t
      BY <1>3, <1>9, <2>2, <3>1, <3>2, <3>3 DEF NoSenderOK
    <3>4. CASE u # t
      <4>1. NoSender(u)' => NoSender(u) /\ call[u].side # s /\ call'[u] = call[u]
        BY <1>3, <1>9, <3>1, <3>4
      <4> QED BY <1>0, <1>2, <1>3, <1>9, <2>2, <3>4, <4>1 DEF NoSenderOK
    <3> QED BY <3>3, <3>4
  <2> QED BY <1>4, <2>1, <2>2
<1>11. \A u \in Threads : PortOK(u)'
  BY <1>0, <1>2, <1>3, <1>4, <1>9 DEF PortOK
<1>12. LivePorts'
  BY <1>0, <1>2, <1>3 DEF LivePorts
<1>13. RefsOK'
  <2>1. Holders' = Holders \ {t}
    BY <1>3, <1>4 DEF Holders
  <2>2. Cardinality(Holders') = Cardinality(Holders) - 1
    BY <1>5, <2>1, HoldersFinite, FS_RemoveElement
  <2>3. PortRefs' = PortRefs
    BY <1>2, <1>3, <1>4 DEF PortRefs
  <2> QED BY <1>0, <1>6, <2>2, <2>3, HoldersFinite, PortRefsBound DEF RefsOK
<1> QED BY <1>6, <1>7, <1>8, <1>10, <1>11, <1>12, <1>13 DEF LifeInv

\* So does a task that drops it: while the task had it there was no notification.
LEMMA DropRightLife == ASSUME LifeInv, NEW t \in Threads, NEW s \in Sides, DropRight(t, s) PROVE LifeInv'
<1> USE EventlinkAssumption
<1>0. LifeType /\ LivePorts /\ RefsOK /\ ~failed /\ \A u \in Threads : OpOK(u) /\ NoSenderOK(u) /\ PortOK(u)
  BY DEF LifeInv
<1>1. /\ call[t] = Idle /\ right[s]
      /\ active' = active /\ refs' = refs /\ port' = port /\ failed' = failed
      /\ right' = [right EXCEPT ![s] = FALSE]
  BY DEF DropRight, link
<1>r. right' \in [Sides -> BOOLEAN] /\ \A q \in Sides : ~right[q] => ~right'[q]
  BY <1>0, <1>1 DEF LifeType
<1>s. ~right'[s]
  BY <1>0, <1>1 DEF LifeType
<1>i. call[t].pc = "idle" /\ call[t].op = "none" /\ ~NoSender(t)
  BY <1>1 DEF Idle, NoSender
<1>n. \A u \in Threads : NoSender(u) => call[u].side # s
  BY <1>0, <1>1 DEF NoSenderOK
<1>2. CASE call' = call
  <2>1. LifeType'
    BY <1>0, <1>1, <1>2, <1>r DEF LifeType
  <2>2. \A u \in Threads : (NoSender(u)' <=> NoSender(u)) /\ call[u].side \in Sides
    BY <1>0, <1>2 DEF NoSender, LifeType, CallType
  <2>3. \A u \in Threads : NoSenderOK(u)'
    BY <1>0, <1>2, <1>r, <2>2 DEF NoSenderOK
  <2>4. LivePorts' /\ \A u \in Threads : OpOK(u)' /\ PortOK(u)'
    BY <1>0, <1>1, <1>2, <2>2 DEF LivePorts, OpOK, PortOK
  <2>5. Holders' = Holders /\ PortRefs' = PortRefs
    BY <1>1, <1>2 DEF Holders, PortRefs
  <2>6. RefsOK'
    BY <1>0, <1>1, <2>5 DEF RefsOK
  <2> QED BY <1>0, <1>1, <2>1, <2>3, <2>4, <2>6 DEF LifeInv
<1>3. CASE call' # call
  <2>1. /\ LastRight(t, s, right')
        /\ call' = [call EXCEPT ![t] = [Idle EXCEPT !.pc = "noSenders", !.op = "no_senders", !.side = s]]
    BY <1>3 DEF DropRight
  <2>2. [Idle EXCEPT !.pc = "noSenders", !.op = "no_senders", !.side = s] \in CallType
    BY DEF Idle, CallType, KernReturns, Operations, Sides, Arguments, Waits
  <2>3. call' \in [Threads -> CallType] /\ \A u \in Threads : u # t => call'[u] = call[u]
    BY <1>0, <2>1, <2>2 DEF LifeType
  <2>4. call'[t] = [Idle EXCEPT !.pc = "noSenders", !.op = "no_senders", !.side = s]
    BY <1>0, <2>1 DEF LifeType
  <2>5. call'[t].pc = "noSenders" /\ call'[t].op = "no_senders" /\ call'[t].side = s
    BY <2>4 DEF Idle
  <2>6. LifeType'
    BY <1>0, <1>1, <2>3, <1>r DEF LifeType
  <2>7. \A u \in Threads : OpOK(u)'
    BY <1>0, <1>1, <2>3, <2>5 DEF OpOK, Destroying, Waiting
  <2>8. \A u \in Threads : u # t => (NoSender(u)' <=> NoSender(u))
    BY <2>3 DEF NoSender
  <2>9. \A u \in Threads : u # t => ~(call[u].op \in Messages /\ call[u].side = s)
    BY <2>1 DEF LastRight
  <2>10. \A u \in Threads : NoSenderOK(u)'
    <3> TAKE u \in Threads
    <3>1. CASE u = t
      BY <1>n, <1>s, <2>3, <2>5, <2>8, <2>9, <3>1 DEF NoSenderOK
    <3>2. CASE u # t
      <4>1. NoSender(u)' => NoSender(u) /\ call[u].side # s /\ call'[u] = call[u] /\ call[u].side \in Sides
        BY <1>0, <1>n, <2>3, <2>8, <3>2 DEF LifeType, CallType
      <4> QED BY <1>0, <1>r, <2>3, <2>5, <2>8, <3>2, <4>1 DEF NoSenderOK
    <3> QED BY <3>1, <3>2
  <2>11. \A u \in Threads : PortOK(u)'
    BY <1>0, <1>1, <2>3, <2>5, <2>8 DEF PortOK
  <2>12. LivePorts'
    BY <1>0, <1>1, <1>i, <2>3 DEF LivePorts
  <2>13. RefsOK'
    <3>1. Holders' = Holders
      BY <1>i, <2>3, <2>5 DEF Holders
    <3>2. PortRefs' = PortRefs
      BY <1>1, <1>i, <2>3, <2>5 DEF PortRefs
    <3> QED BY <1>0, <1>1, <3>1, <3>2 DEF RefsOK
  <2> QED BY <1>0, <1>1, <2>6, <2>7, <2>10, <2>11, <2>12, <2>13 DEF LifeInv
<1> QED BY <1>2, <1>3

\* The notification takes a reference from a live port only.
LEMMA NoSendersLife == ASSUME LifeInv, NEW t \in Threads, NoSenders(t) PROVE LifeInv'
<1> USE EventlinkAssumption
<1>0. LifeType /\ LivePorts /\ RefsOK /\ ~failed /\ \A u \in Threads : OpOK(u) /\ NoSenderOK(u) /\ PortOK(u)
  BY DEF LifeInv
<1>1. PICK s \in Sides : s = call[t].side
  BY <1>0 DEF LifeType, CallType
<1>2. /\ call[t].pc = "noSenders"
      /\ active' = active /\ port' = port /\ right' = right
  BY DEF NoSenders, link
<1>i. call[t].op = "no_senders" /\ call[t] \in CallType
  BY <1>0, <1>2 DEF OpOK, LifeType
<1>3. \/ port[s] = "dead" /\ call' = [call EXCEPT ![t] = Idle] /\ refs' = refs /\ failed' = failed
      \/ /\ port[s] = "disabled"
         /\ call' = [call EXCEPT ![t] = [call[t] EXCEPT !.pc = "deallocPort", !.op = "none"]]
         /\ refs' = refs /\ failed' = failed
      \/ /\ port[s] = "live" /\ call' = [call EXCEPT ![t].pc = "in"]
         /\ refs' = refs + 1 /\ failed' = (failed \/ refs = 0)
  BY <1>1 DEF NoSenders
<1>4. /\ call' \in [Threads -> CallType] /\ (\A u \in Threads : u # t => call'[u] = call[u])
      /\ \/ port[s] = "dead" /\ call'[t].pc = "idle" /\ call'[t].op = "none"
         \/ port[s] = "disabled" /\ call'[t].pc = "deallocPort" /\ call'[t].op = "none" /\ call'[t].side = s
         \/ port[s] = "live" /\ call'[t].pc = "in" /\ call'[t].op = "no_senders" /\ call'[t].side = s
  <2>1. CASE port[s] = "dead"
    <3>1. call' = [call EXCEPT ![t] = Idle]
      BY <1>3, <2>1
    <3>2. Idle \in CallType
      BY DEF Idle, CallType, KernReturns, Operations, Sides, Arguments, Waits
    <3>3. call' \in [Threads -> CallType] /\ (\A u \in Threads : u # t => call'[u] = call[u]) /\ call'[t] = Idle
      BY <1>0, <3>1, <3>2 DEF LifeType
    <3> QED BY <2>1, <3>3 DEF Idle
  <2>2. CASE port[s] = "disabled"
    <3>1. call' = [call EXCEPT ![t] = [call[t] EXCEPT !.pc = "deallocPort", !.op = "none"]]
      BY <1>3, <2>2
    <3>2. [call[t] EXCEPT !.pc = "deallocPort", !.op = "none"] \in CallType
      BY <1>i DEF CallType
    <3>3. /\ call' \in [Threads -> CallType] /\ (\A u \in Threads : u # t => call'[u] = call[u])
          /\ call'[t] = [call[t] EXCEPT !.pc = "deallocPort", !.op = "none"]
      BY <1>0, <3>1, <3>2 DEF LifeType
    <3>4. call'[t].pc = "deallocPort" /\ call'[t].op = "none" /\ call'[t].side = s
      BY <1>1, <1>i, <3>3 DEF CallType
    <3> QED BY <2>2, <3>3, <3>4
  <2>3. CASE port[s] = "live"
    <3>1. call' = [call EXCEPT ![t].pc = "in"]
      BY <1>3, <2>3
    <3>2. [call[t] EXCEPT !.pc = "in"] \in CallType
      BY <1>i DEF CallType
    <3>3. /\ call' \in [Threads -> CallType] /\ (\A u \in Threads : u # t => call'[u] = call[u])
          /\ call'[t] = [call[t] EXCEPT !.pc = "in"]
      BY <1>0, <3>1, <3>2 DEF LifeType
    <3>4. call'[t].pc = "in" /\ call'[t].op = "no_senders" /\ call'[t].side = s
      BY <1>1, <1>i, <3>3 DEF CallType
    <3> QED BY <2>3, <3>3, <3>4
  <2> QED BY <1>3, <2>1, <2>2, <2>3
<1>f. ~failed' /\ failed' \in BOOLEAN /\ refs' \in Nat
  <2>1. port[s] = "live" => refs # 0
    BY <1>0, PortRefsBound, HoldersFinite DEF RefsOK
  <2>2. failed' = failed \/ (refs # 0 /\ failed' = (failed \/ refs = 0))
    BY <1>3, <2>1
  <2>3. refs' \in Nat
    BY <1>0, <1>3 DEF LifeType
  <2>4. failed = FALSE
    BY <1>0 DEF LifeType
  <2>5. CASE failed' = failed
    BY <2>3, <2>4, <2>5
  <2>6. CASE refs # 0 /\ failed' = (failed \/ refs = 0)
    <3>1. failed' = FALSE
      BY <2>4, <2>6
    <3> QED BY <2>3, <3>1
  <2> QED BY <2>2, <2>5, <2>6
<1>5. LifeType'
  BY <1>0, <1>2, <1>4, <1>f DEF LifeType
<1>6. port[s] = "disabled" => ~active
  BY <1>0 DEF LivePorts
<1>7. \A u \in Threads : OpOK(u)'
  BY <1>0, <1>2, <1>4, <1>6 DEF OpOK, Destroying, Waiting
<1>8. \A u \in Threads : NoSender(u)' => NoSender(u) /\ call'[u].side = call[u].side
  BY <1>1, <1>4, <1>i DEF NoSender
<1>9. \A u \in Threads : NoSenderOK(u)'
  <2>1. call'[t].op \notin Messages
    BY <1>4 DEF Messages
  <2> QED BY <1>0, <1>2, <1>4, <1>8, <2>1 DEF NoSenderOK
<1>10. \A u \in Threads : PortOK(u)'
  <2> TAKE u \in Threads
  <2>1. CASE u = t
    BY <1>2, <1>4, <2>1 DEF PortOK
  <2>2. CASE u # t
    BY <1>0, <1>2, <1>4, <2>2 DEF PortOK, NoSender
  <2> QED BY <2>1, <2>2
<1>11. LivePorts'
  BY <1>0, <1>2, <1>4 DEF LivePorts
<1>12. RefsOK'
  <2>1. PortRefs' = PortRefs
    BY <1>2, <1>4 DEF PortRefs
  <2>2. t \notin Holders
    BY <1>2 DEF Holders
  <2>3. CASE port[s] = "live"
    <3>1. Holders' = Holders \cup {t}
      BY <1>4, <2>3 DEF Holders
    <3>2. Cardinality(Holders') = Cardinality(Holders) + 1
      BY <2>2, <3>1, HoldersFinite, FS_AddElement
    <3>3. refs' = refs + 1
      BY <1>3, <2>3
    <3> QED BY <1>0, <2>1, <3>2, <3>3, HoldersFinite, PortRefsBound DEF RefsOK
  <2>4. CASE port[s] # "live"
    <3>1. Holders' = Holders
      BY <1>2, <1>4, <2>4 DEF Holders
    <3>2. refs' = refs
      BY <1>3, <2>4
    <3> QED BY <1>0, <2>1, <3>1, <3>2 DEF RefsOK
  <2> QED BY <2>3, <2>4
<1> QED BY <1>5, <1>7, <1>9, <1>10, <1>11, <1>12, <1>f DEF LifeInv

\* A new eventlink, when every thread is idle.
Fresh ==
    /\ active = TRUE /\ refs = 2 /\ failed = FALSE
    /\ port = [s \in Sides |-> "live"] /\ right = [s \in Sides |-> TRUE]
    /\ call = [t \in Threads |-> Idle]

\* It satisfies the invariant.
FreshIsFine == Fresh => LifeInv

\* The two references are those of its ports.
LEMMA FreshLife == FreshIsFine
<1> SUFFICES ASSUME Fresh PROVE LifeInv
  BY DEF FreshIsFine
<1>1. \A t \in Threads : call[t].pc = "idle" /\ call[t].op = "none"
  BY DEF Fresh, Idle
<1>2. LifeType /\ ~failed
  <2>1. Idle \in CallType
    BY DEF Idle, CallType, KernReturns, Operations, Sides, Arguments, Waits
  <2>2. active \in BOOLEAN /\ failed \in BOOLEAN /\ ~failed
    BY DEF Fresh
  <2>3. port \in [Sides -> {"live", "disabled", "dead"}] /\ right \in [Sides -> BOOLEAN]
    BY DEF Fresh
  <2> QED BY <2>1, <2>2, <2>3 DEF LifeType, Fresh
<1>3. \A t \in Threads : OpOK(t) /\ NoSenderOK(t) /\ PortOK(t)
  BY <1>1 DEF OpOK, NoSenderOK, PortOK, NoSender, Destroying, Waiting
<1>4. LivePorts
  BY DEF LivePorts, Fresh
<1>5. RefsOK
  <2>1. Holders = {}
    BY <1>1 DEF Holders
  <2> QED BY <2>1, PortRefsValue, FS_EmptySet DEF RefsOK, Fresh, PortRefsCases
<1> QED BY <1>2, <1>3, <1>4, <1>5 DEF LifeInv

\* ... after a step, too.
LEMMA FreshLifeNext == FreshIsFine'
  BY FreshLife, PTL

\* mach_eventlink_create makes a new one.
LEMMA CreateLife == ASSUME LifeInv, Create PROVE LifeInv'
<1>1. call' = [t \in Threads |-> Idle]
  BY DEF Create, LifeInv, LifeType
<1>2. failed' = FALSE
  BY DEF Create, LifeInv, LifeType
<1>3. Fresh'
  BY <1>1, <1>2 DEF Create, Fresh
<1> QED BY <1>3, FreshLifeNext DEF FreshIsFine

-----------------------------------------------------------------------------
(* Signals and wait queues *)

\* What a queue loses at its head is off it.
LEMMA TailQueue ==
    ASSUME NEW q \in Seq(Threads), q # <<>>, IsInjective(q)
    PROVE  /\ Head(q) \in Range(q) /\ Head(q) \in Threads /\ Tail(q) \in Seq(Threads)
           /\ IsInjective(Tail(q)) /\ Range(Tail(q)) \subseteq Range(q) \ {Head(q)}
<1>1. Len(q) \in Nat \ {0} /\ DOMAIN q = 1 .. Len(q) /\ Head(q) = q[1]
  OBVIOUS
<1>2. /\ Tail(q) \in Seq(Threads) /\ DOMAIN Tail(q) = 1 .. Len(q) - 1
      /\ \A i \in 1 .. Len(q) - 1 : Tail(q)[i] = q[i + 1]
  BY <1>1
<1>3. \A i, j \in 1 .. Len(q) : q[i] = q[j] => i = j
  BY <1>1 DEF IsInjective
<1>4. \A i \in 1 .. Len(q) - 1 : i + 1 \in 1 .. Len(q) /\ i + 1 # 1
  BY <1>1
<1>5. \A i, j \in 1 .. Len(q) - 1 : Tail(q)[i] = Tail(q)[j] => i = j
  <2> TAKE i, j \in 1 .. Len(q) - 1
  <2> HAVE Tail(q)[i] = Tail(q)[j]
  <2>1. i + 1 = j + 1
    BY <1>2, <1>3, <1>4
  <2> QED BY <1>1, <2>1
<1>6. \A i \in 1 .. Len(q) - 1 : Tail(q)[i] \in Range(q) /\ Tail(q)[i] # q[1]
  BY <1>1, <1>2, <1>3, <1>4 DEF Range
<1>7. IsInjective(Tail(q)) /\ \A x \in Range(Tail(q)) : x \in Range(q) /\ x # q[1]
  BY <1>2, <1>5, <1>6 DEF IsInjective, Range
<1>8. Head(q) \in Range(q) /\ Head(q) \in Threads
  BY <1>1 DEF Range
<1> QED BY <1>1, <1>2, <1>7, <1>8

\* So is what it loses elsewhere.
LEMMA RemoveQueue ==
    ASSUME NEW q \in Seq(Threads), IsInjective(q), NEW k \in 1 .. Len(q)
    PROVE  /\ RemoveAt(q, k) \in Seq(Threads) /\ IsInjective(RemoveAt(q, k))
           /\ Range(RemoveAt(q, k)) \subseteq Range(q) \ {q[k]}
           /\ q = <<q[k]>> => RemoveAt(q, k) = <<>>
<1> DEFINE rest == RemoveAt(q, k)
<1> DEFINE from(i) == IF i < k THEN i ELSE i + 1
<1>1. Len(q) \in Nat /\ DOMAIN q = 1 .. Len(q) /\ k \in Nat /\ 1 <= k /\ k <= Len(q)
  OBVIOUS
<1>n. Len(q) \in Nat
  OBVIOUS
<1>l. PICK l \in Nat : l = Len(q)
  BY <1>n, Zenon
<1>2. /\ rest \in Seq(Threads) /\ DOMAIN rest = 1 .. Len(q) - 1
      /\ \A i \in 1 .. Len(q) - 1 : rest[i] = q[from(i)]
  <2>1. PICK a \in Seq(Threads) : /\ a = SubSeq(q, 1, k - 1) /\ Len(a) = k - 1
                                  /\ \A i \in 1 .. k - 1 : a[i] = q[i]
    <3>1. /\ SubSeq(q, 1, k - 1) \in Seq(Threads) /\ Len(SubSeq(q, 1, k - 1)) = k - 1
          /\ \A i \in 1 .. k - 1 : SubSeq(q, 1, k - 1)[i] = q[i]
      BY <1>1
    <3> QED BY <3>1
  <2>2. PICK b \in Seq(Threads) : /\ b = SubSeq(q, k + 1, Len(q)) /\ Len(b) = Len(q) - k
                                  /\ \A i \in 1 .. Len(q) - k : b[i] = q[k + i]
    <3>0. k + 1 \in Nat /\ l \in Nat
      BY <1>1, <1>l
    <3>1. PICK m \in Nat : m = k + 1
      BY <3>0
    <3>2. \A i \in m .. l : q[i] \in Threads
      BY <1>1, <1>l, <3>1
    <3>3. /\ SubSeq(q, m, l) \in Seq(Threads)
          /\ Len(SubSeq(q, m, l)) = IF m <= l THEN l - m + 1 ELSE 0
          /\ \A i \in 1 .. l - m + 1 : SubSeq(q, m, l)[i] = q[m + i - 1]
      BY <1>l, <3>2, SubSeqProperties
    <3>4. Len(SubSeq(q, m, l)) = l - k
      <4>1. l - k = IF m <= l THEN l - m + 1 ELSE 0
        <5>1. k <= l /\ k \in Nat /\ l \in Nat /\ m = k + 1
          BY <1>1, <1>l, <3>1
        <5>2. CASE k = l
          BY <5>1, <5>2
        <5>3. CASE k < l
          BY <5>1, <5>3
        <5> QED BY <5>1, <5>2, <5>3
      <4> QED BY <3>3, <4>1
    <3>5. ASSUME NEW i \in 1 .. l - k PROVE SubSeq(q, m, l)[i] = q[k + i]
      <4>1. i \in 1 .. l - m + 1 /\ m + i - 1 = k + i
        BY <1>1, <1>l, <3>1
      <4> QED BY <3>3, <4>1
    <3> QED BY <1>l, <3>1, <3>3, <3>4, <3>5
  <2>3. rest = a \o b
    BY <2>1, <2>2 DEF RemoveAt
  <2>4. /\ rest \in Seq(Threads) /\ Len(rest) = Len(q) - 1
        /\ \A i \in 1 .. Len(q) - 1 : rest[i] = IF i <= k - 1 THEN a[i] ELSE b[i - (k - 1)]
    <3>0. (k - 1) + (l - k) = l - 1
      BY <1>1, <1>l
    <3>1. Len(a) + Len(b) = Len(q) - 1
      BY <1>l, <2>1, <2>2, <3>0
    <3> QED BY <2>1, <2>3, <3>1, ConcatProperties
  <2>5. ASSUME NEW i \in 1 .. Len(q) - 1 PROVE rest[i] = q[from(i)]
    <3>1. CASE i < k
      <4>1. i \in 1 .. k - 1 /\ i <= k - 1 /\ from(i) = i
        BY <1>1, <3>1
      <4> QED BY <2>1, <2>4, <4>1
    <3>2. CASE ~(i < k)
      <4>1. PICK n \in 1 .. Len(q) - k : n = i - (k - 1) /\ k + n = i + 1 /\ ~(i <= k - 1) /\ from(i) = i + 1
        BY <1>1, <3>2
      <4> QED BY <2>2, <2>4, <4>1
    <3> QED BY <3>1, <3>2
  <2>6. DOMAIN rest = 1 .. Len(q) - 1
    BY <2>4
  <2> QED BY <2>4, <2>5, <2>6
<1>3. \A i, j \in 1 .. Len(q) : q[i] = q[j] => i = j
  BY <1>1 DEF IsInjective
<1>4. \A i \in 1 .. Len(q) - 1 : from(i) \in 1 .. Len(q) /\ from(i) # k
  BY <1>1
<1>5. \A i, j \in 1 .. Len(q) - 1 : from(i) = from(j) => i = j
  BY <1>1
<1> HIDE DEF from, rest
<1>6. \A i, j \in 1 .. Len(q) - 1 : rest[i] = rest[j] => i = j
  BY <1>2, <1>3, <1>4, <1>5
<1>7. \A i \in 1 .. Len(q) - 1 : rest[i] \in Range(q) /\ rest[i] # q[k]
  BY <1>1, <1>2, <1>3, <1>4 DEF Range
<1>8. IsInjective(rest) /\ \A x \in Range(rest) : x \in Range(q) /\ x # q[k]
  BY <1>2, <1>6, <1>7 DEF IsInjective, Range
<1>9. ASSUME q = <<q[k]>> PROVE rest = <<>>
  <2>1. Len(q) = 1
    BY <1>9
  <2> QED BY <1>2, <2>1
<1> QED BY <1>2, <1>8, <1>9 DEF rest

\* A thread that joins a queue it is not on comes last.
LEMMA AppendQueue ==
    ASSUME NEW q \in Seq(Threads), IsInjective(q), NEW t \in Threads, t \notin Range(q)
    PROVE  /\ Append(q, t) \in Seq(Threads) /\ IsInjective(Append(q, t))
           /\ Range(Append(q, t)) \subseteq Range(q) \cup {t}
<1> DEFINE n == Len(q) + 1
<1>1. Len(q) \in Nat /\ DOMAIN q = 1 .. Len(q)
  OBVIOUS
<1>2. /\ Append(q, t) \in Seq(Threads) /\ DOMAIN Append(q, t) = 1 .. n
      /\ (\A i \in 1 .. Len(q) : Append(q, t)[i] = q[i]) /\ Append(q, t)[n] = t
  BY <1>1
<1>3. \A i, j \in 1 .. Len(q) : q[i] = q[j] => i = j
  BY <1>1 DEF IsInjective
<1>4. \A i \in 1 .. Len(q) : q[i] \in Range(q) /\ q[i] # t
  BY <1>1 DEF Range
<1>5. \A i \in 1 .. n : i \in 1 .. Len(q) \/ i = n
  BY <1>1
<1> HIDE DEF n
<1>6. \A i, j \in 1 .. n : Append(q, t)[i] = Append(q, t)[j] => i = j
  BY <1>2, <1>3, <1>4, <1>5
<1>7. \A i \in 1 .. n : Append(q, t)[i] \in Range(q) \cup {t}
  BY <1>2, <1>4, <1>5
<1>8. IsInjective(Append(q, t))
  BY <1>2, <1>6 DEF IsInjective
<1>9. Range(Append(q, t)) \subseteq Range(q) \cup {t}
  <2>1. ASSUME NEW x \in Range(Append(q, t)) PROVE x \in Range(q) \cup {t}
    <3>1. PICK i \in 1 .. n : x = Append(q, t)[i]
      BY <1>2, <2>1 DEF Range
    <3> QED BY <1>7, <3>1
  <2> QED BY <2>1
<1> QED BY <1>2, <1>8, <1>9

\* Who is on a queue, and that a queue of one is in order.
LEMMA QueueMembers ==
    /\ \A q \in Seq(Threads) : \A u : Contains(q, u) <=> u \in Range(q)
    /\ \A u : Range(<<u>>) = {u} /\ IsInjective(<<u>>)
    /\ Range(<<>>) = {} /\ IsInjective(<<>>)
    /\ \A u, v : <<u>> = <<v>> => u = v
    /\ \A u : <<u>> # <<>>
<1>1. ASSUME NEW q \in Seq(Threads), NEW u PROVE Contains(q, u) <=> u \in Range(q)
  <2>1. DOMAIN q = 1 .. Len(q)
    OBVIOUS
  <2> QED BY <2>1 DEF Contains, Range
<1>2. ASSUME NEW u PROVE Range(<<u>>) = {u} /\ IsInjective(<<u>>) /\ <<u>> # <<>> /\ <<u>>[1] = u
  BY DEF Range, IsInjective
<1>3. Range(<<>>) = {} /\ IsInjective(<<>>)
  BY DEF Range, IsInjective
<1>4. ASSUME NEW u, NEW v, <<u>> = <<v>> PROVE u = v
  BY <1>4
<1> QED BY <1>1, <1>2, <1>3, <1>4

\* What any step of t may do to the queues.  A thread on one was there before, and
\* sleeps on, or it is t.  Unless the side is misled, its queue is emptied, or left as it
\* is while the signals have not passed it, or t is the one that waits on it.  And who
\* is woken was on a queue.
QueueStep(t) ==
    /\ SignalType' /\ misled \subseteq misled'
    /\ \A u \in Threads : u # t => call'[u] = call[u]
    /\ \A q \in Sides : sync[q] <= sync'[q]
    /\ \A q \in Sides : IsInjective(waitq'[q])
    /\ \A q \in Sides : \A u \in Range(waitq'[q]) :
         \/ u = t /\ Asleep(t, q)'
         \/ /\ u # t /\ u \in Range(waitq[q]) /\ wr'[u] = wr[u]
            /\ assoc'[q] = assoc[q] /\ active' = active
    /\ \A q \in Sides :
         \/ q \in misled'
         \/ waitq'[q] = <<>>
         \/ OnQueue(t, q)'
         \/ /\ waitq[q] # <<t>> /\ waitq'[q] = waitq[q] /\ wait'[q] = wait[q]
            /\ assoc'[q] = assoc[q] /\ active' = active /\ sync'[q] <= wait[q]
    /\ \A u \in Threads : u # t =>
         \/ wr'[u] = wr[u]
         \/ \E q \in Sides : /\ u \in Range(waitq[q])
                             /\ \/ wr'[u] = "RESTART"
                                \/ wr'[u] = "AWAKENED" /\ (q \in misled \/ (OnQueue(u, q) /\ wait[q] < sync'[q]))

\* Threads on a queue are threads.
LEMMA QueueThreads == ASSUME SignalType, NEW q \in Sides PROVE waitq[q] \in Seq(Threads) /\ Range(waitq[q]) \subseteq Threads
<1>1. waitq[q] \in Seq(Threads)
  BY DEF SignalType
<1>2. \A i \in DOMAIN waitq[q] : waitq[q][i] \in Threads
  BY <1>1
<1> QED BY <1>1, <1>2 DEF Range

\* ... after a step, too.
LEMMA QueueThreadsNext ==
    ASSUME SignalType', NEW q \in Sides PROVE waitq'[q] \in Seq(Threads) /\ Range(waitq'[q]) \subseteq Threads
<1>1. waitq'[q] \in Seq(Threads)
  BY DEF SignalType
<1>2. \A i \in DOMAIN waitq'[q] : waitq'[q][i] \in Threads
  BY <1>1
<1> QED BY <1>1, <1>2 DEF Range

\* It keeps the queues, and the waits of the others, in order.
LEMMA QueueStepInv ==
    ASSUME EventlinkInv, NEW t \in Threads, QueueStep(t)
    PROVE  (\A q \in Sides : QueueOK(q)') /\ (\A u \in Threads : u # t => WaitOK(u)')
<1> USE EventlinkAssumption
<1>0. /\ SignalType /\ (\A s \in Sides : QueueOK(s)) /\ \A u \in Threads : WaitOK(u)
      /\ \A u \in Threads : call[u] \in CallType
  BY DEF EventlinkInv, SignalInv, LifeInv, LifeType
<1>1. /\ SignalType' /\ misled \subseteq misled'
      /\ \A u \in Threads : u # t => call'[u] = call[u]
      /\ \A q \in Sides : sync[q] <= sync'[q]
  BY DEF QueueStep
<1>2. ASSUME NEW q \in Sides PROVE QueueOK(q)'
  <2>0. ASSUME NEW u \in Range(waitq'[q]) PROVE Asleep(u, q)'
    <3>1. CASE u = t /\ Asleep(t, q)'
      BY <3>1
    <3>2. CASE /\ u # t /\ u \in Range(waitq[q]) /\ wr'[u] = wr[u]
               /\ assoc'[q] = assoc[q] /\ active' = active
      <4>1. Asleep(u, q) /\ u \in Threads
        BY <1>0, <3>2, QueueThreads DEF QueueOK
      <4>2. call'[u] = call[u]
        BY <1>1, <3>2, <4>1
      <4> QED BY <3>2, <4>1, <4>2 DEF Asleep
    <3> QED BY <2>0, <3>1, <3>2 DEF QueueStep
  <2>i. IsInjective(waitq'[q])
    BY DEF QueueStep
  <2>m. CASE q \in misled'
    BY <2>0, <2>i, <2>m DEF QueueOK
  <2>1. CASE waitq'[q] = <<>>
    BY <2>0, <2>i, <2>1 DEF QueueOK
  <2>2. CASE OnQueue(t, q)'
    BY <2>0, <2>i, <2>2 DEF QueueOK
  <2>3. CASE /\ q \notin misled' /\ waitq'[q] # <<>>
             /\ waitq[q] # <<t>> /\ waitq'[q] = waitq[q] /\ wait'[q] = wait[q]
             /\ assoc'[q] = assoc[q] /\ active' = active /\ sync'[q] <= wait[q]
    <3>1. PICK u \in Threads : OnQueue(u, q)
      BY <1>0, <1>1, <2>3 DEF QueueOK
    <3>2. u # t /\ waitq[q] = <<u>>
      BY <2>3, <3>1 DEF OnQueue
    <3>3. u \in Range(waitq'[q])
      BY <2>3, <3>2, QueueMembers
    <3>4. Asleep(u, q)'
      BY <2>0, <3>3
    <3>5. call'[u] = call[u]
      BY <1>1, <3>2
    <3>6. OnQueue(u, q)'
      BY <2>3, <3>1, <3>4, <3>5 DEF OnQueue
    <3> QED BY <2>0, <2>i, <3>6 DEF QueueOK
  <2> QED BY <2>m, <2>1, <2>2, <2>3 DEF QueueStep
<1>3. ASSUME NEW u \in Threads, u # t PROVE WaitOK(u)'
  <2>1. call'[u] = call[u] /\ call[u].side \in Sides /\ WaitOK(u)
    BY <1>0, <1>1, <1>3 DEF CallType
  <2>2. PICK x \in Sides : x = call[u].side
    BY <2>1
  <2>3. sync[x] <= sync'[x] /\ sync[x] \in Nat /\ sync'[x] \in Nat
    BY <1>0, <1>1 DEF SignalType
  <2>4. call[u].arg \in Nat /\ call[u].arg < sync[x] => call[u].arg < sync'[x]
    BY <2>3
  <2>5. call[u].ret \in Nat /\ call[u].ret <= sync[x] => call[u].ret <= sync'[x]
    BY <2>3
  <2>6. call[u].ret \in Nat
    BY <1>0 DEF CallType
  <2>m. x \notin misled' => x \notin misled
    BY <1>1
  <2>7. CASE wr'[u] = wr[u]
    <3>1. wr[u] = "AWAKENED" /\ x \notin misled => call[u].pc \in Waiting /\ call[u].arg < sync[x]
      BY <2>1, <2>2, EventlinkAssumption DEF WaitOK
    <3>2. call[u].pc \in Waiting => call[u].arg \in Nat
      <4>1. call[u].pc \in Waiting => call[u].op \in Waits
        BY DEF EventlinkInv, LifeInv, OpOK
      <4>2. \A n \in 0 .. MAX : n \in Nat
        OBVIOUS
      <4> QED BY <2>1, <4>1, <4>2 DEF WaitOK
    <3>3. wr'[u] = "AWAKENED" /\ call'[u].side \notin misled' => call'[u].arg < sync'[call'[u].side]
      BY <2>1, <2>2, <2>4, <2>7, <2>m, <3>1, <3>2
    <3>4. call'[u].pc = "leave" /\ call'[u].op \in Waits /\ call'[u].kr = "SUCCESS" /\ call'[u].side \notin misled' =>
            call'[u].arg \in Nat /\ call'[u].arg < call'[u].ret /\ call'[u].ret <= sync'[call'[u].side]
      BY <2>1, <2>2, <2>5, <2>6, <2>m DEF WaitOK
    <3> QED BY <2>1, <2>7, <3>3, <3>4 DEF WaitOK
  <2>8. ASSUME NEW q \in Sides, u \in Range(waitq[q]),
               \/ wr'[u] = "RESTART"
               \/ wr'[u] = "AWAKENED" /\ (q \in misled \/ (OnQueue(u, q) /\ wait[q] < sync'[q]))
        PROVE  WaitOK(u)'
    <3>1. call[u].pc \in Waiting /\ x = q
      BY <1>0, <2>2, <2>8 DEF QueueOK, Asleep
    <3>2. call[u].pc # "leave"
      BY <3>1 DEF Waiting
    <3>3. wr'[u] = "AWAKENED" /\ x \notin misled' => call[u].arg < sync'[x]
      BY <2>8, <2>m, <3>1 DEF OnQueue
    <3> QED BY <2>1, <2>2, <3>1, <3>2, <3>3 DEF WaitOK
  <2> QED BY <1>3, <2>7, <2>8 DEF QueueStep
<1> QED BY <1>2, <1>3

\* A thread that does not sleep is on no queue, and a queue it is not on is in order.
LEMMA NotQueued ==
    ASSUME EventlinkInv, NEW t \in Threads, call[t].pc \notin Waiting \/ wr[t] # None, NEW q \in Sides
    PROVE  /\ t \notin Range(waitq[q]) /\ waitq[q] # <<t>>
           /\ q \notin misled /\ waitq[q] # <<>> => sync[q] <= wait[q]
<1>1. QueueOK(q)
  BY DEF EventlinkInv, SignalInv
<1>2. t \notin Range(waitq[q])
  BY <1>1 DEF QueueOK, Asleep
<1>3. waitq[q] # <<t>>
  BY <1>2, QueueMembers
<1>4. q \notin misled /\ waitq[q] # <<>> => sync[q] <= wait[q]
  BY <1>1 DEF QueueOK, OnQueue
<1> QED BY <1>2, <1>3, <1>4

\* Nobody waits on a side that is not associated, and nobody on two sides.
LEMMA QueueSides ==
    ASSUME EventlinkInv
    PROVE  /\ \A q \in Sides : assoc[q] = None => waitq[q] = <<>>
           /\ \A p, q \in Sides : \A u : u \in Range(waitq[p]) /\ u \in Range(waitq[q]) => p = q
<1>0. SignalType /\ \A q \in Sides : QueueOK(q)
  BY DEF EventlinkInv, SignalInv
<1>1. ASSUME NEW q \in Sides, assoc[q] = None, waitq[q] # <<>> PROVE FALSE
  <2>1. Head(waitq[q]) \in Range(waitq[q])
    BY <1>0, <1>1, QueueThreads, TailQueue DEF QueueOK
  <2> QED BY <1>0, <1>1, <2>1 DEF QueueOK, Asleep
<1>2. ASSUME NEW p \in Sides, NEW q \in Sides, NEW u, u \in Range(waitq[p]), u \in Range(waitq[q]) PROVE p = q
  BY <1>0, <1>2 DEF QueueOK, Asleep
<1> QED BY <1>1, <1>2

\* A step that leaves the counters and the queues alone is one of these, when t is on no queue.
LEMMA QueuesKept ==
    ASSUME EventlinkInv, NEW t \in Threads, call[t].pc \notin Waiting \/ wr[t] # None,
           sync' = sync, wait' = wait, waitq' = waitq, active' = active, misled' = misled,
           \A q \in Sides : assoc'[q] = assoc[q] \/ waitq[q] = <<>>,
           SignalType', \A u \in Threads : u # t => call'[u] = call[u] /\ wr'[u] = wr[u]
    PROVE  QueueStep(t)
<1> USE EventlinkAssumption
<1>0. SignalType /\ \A s \in Sides : QueueOK(s)
  BY DEF EventlinkInv, SignalInv
<1>1. \A q \in Sides : sync[q] <= sync'[q]
  BY <1>0 DEF SignalType
<1>2. ASSUME NEW q \in Sides, NEW u \in Range(waitq'[q])
      PROVE  /\ u # t /\ u \in Range(waitq[q]) /\ wr'[u] = wr[u]
             /\ assoc'[q] = assoc[q] /\ active' = active
  <2>1. u \in Range(waitq[q]) /\ u \in Threads /\ waitq[q] # <<>>
    BY <1>0, <1>2, QueueThreads, QueueMembers
  <2>2. u # t
    BY <2>1, NotQueued
  <2> QED BY <2>1, <2>2
<1>3. \A q \in Sides : IsInjective(waitq'[q])
  BY <1>0 DEF QueueOK
<1>4. ASSUME NEW q \in Sides
      PROVE  \/ q \in misled'
             \/ waitq'[q] = <<>>
             \/ /\ waitq[q] # <<t>> /\ waitq'[q] = waitq[q] /\ wait'[q] = wait[q]
                /\ assoc'[q] = assoc[q] /\ active' = active /\ sync'[q] <= wait[q]
  BY NotQueued
<1> QED BY <1>1, <1>2, <1>3, <1>4 DEF QueueStep

\* Signals that are under way can be counted.
LEMMA PendingFinite == \A s : IsFiniteSet(Pending(s)) /\ Cardinality(Pending(s)) \in Nat
<1> TAKE s
<1>1. Pending(s) \subseteq Threads
  BY DEF Pending
<1> QED BY <1>1, EventlinkAssumption, FS_Subset, FS_CardinalityType

\* No counter passes the bound.
LEMMA SyncBound == ASSUME EventlinkInv, NEW q \in Sides PROVE sync[q] \in Nat /\ sync[q] <= MaxSync
<1>1. PICK k \in Nat : k = Cardinality(Pending(Remote(q)))
  BY PendingFinite
<1>2. SyncOK(Remote(q)) /\ Remote(Remote(q)) = q /\ sync[q] \in Nat
  BY RemoteSide DEF EventlinkInv, SignalInv, SignalType
<1>3. sync[q] + k <= MaxSync
  BY <1>1, <1>2 DEF SyncOK
<1> QED BY <1>1, <1>2, <1>3, EventlinkAssumption

\* A step that counts no signal and starts none keeps their room.
LEMMA SyncKept ==
    ASSUME EventlinkInv, NEW q \in Sides, sync'[Remote(q)] = sync[Remote(q)], Pending(q)' \subseteq Pending(q)
    PROVE  SyncOK(q)'
<1>1. SyncOK(q) /\ sync[Remote(q)] \in Nat
  BY RemoteSide DEF EventlinkInv, SignalInv, SignalType
<1>2. PICK m \in Nat : m = Cardinality(Pending(q)')
  BY PendingFinite, FS_Subset, FS_CardinalityType
<1>3. m <= Cardinality(Pending(q))
  BY <1>2, PendingFinite, FS_Subset
<1>4. sync[Remote(q)] + m <= MaxSync
  BY <1>1, <1>2, <1>3, PendingFinite, EventlinkAssumption DEF SyncOK
<1> QED BY <1>2, <1>4 DEF SyncOK

\* A thread that is not inside a signal after its step starts none.
LEMMA PendingShrinks ==
    ASSUME NEW t \in Threads, \A u \in Threads : u # t => call'[u] = call[u],
           call'[t].pc # "in" \/ call'[t].op \notin Signals
    PROVE  \A q \in Sides : Pending(q)' \subseteq Pending(q)
  BY DEF Pending

\* The parts of a step's proof, together.
LEMMA SignalParts ==
    ASSUME EventlinkInv, NEW t \in Threads, QueueStep(t), WaitOK(t)', \A q \in Sides : SyncOK(q)'
    PROVE  SignalInv'
<1>1. (\A q \in Sides : QueueOK(q)') /\ (\A u \in Threads : u # t => WaitOK(u)')
  BY QueueStepInv
<1>2. SignalType'
  BY DEF QueueStep
<1> QED BY <1>1, <1>2 DEF SignalInv

\* A step that leaves everything but t's call, and ends no wait, keeps the signals.
QuietStep(t) ==
    /\ sync' = sync /\ wait' = wait /\ assoc' = assoc /\ waitq' = waitq /\ active' = active /\ wr' = wr /\ misled' = misled
    /\ \A u \in Threads : u # t => call'[u] = call[u]
    /\ call[t].pc \notin Waiting /\ call'[t].pc \notin Waiting
    /\ call'[t].pc = "in" => call'[t].op \notin Signals \cup Waits \cup {"associate"}
    /\ call'[t].pc = "leave" => call'[t].op \notin Waits \/ call'[t].kr # "SUCCESS"

\* So do the steps of a destroy and of the end of a call.
LEMMA QuietSignal == ASSUME EventlinkInv, NEW t \in Threads, QuietStep(t) PROVE SignalInv'
<1>0. SignalType /\ WaitOK(t)
  BY DEF EventlinkInv, SignalInv
<1>1. /\ sync' = sync /\ wait' = wait /\ assoc' = assoc /\ waitq' = waitq /\ active' = active /\ wr' = wr /\ misled' = misled
      /\ \A u \in Threads : u # t => call'[u] = call[u]
      /\ call[t].pc \notin Waiting /\ call'[t].pc \notin Waiting
      /\ call'[t].pc = "in" => call'[t].op \notin Signals \cup Waits \cup {"associate"}
      /\ call'[t].pc = "leave" => call'[t].op \notin Waits \/ call'[t].kr # "SUCCESS"
  BY DEF QuietStep
<1>2. SignalType'
  BY <1>0, <1>1 DEF SignalType
<1>3. QueueStep(t)
  BY <1>1, <1>2, QueuesKept
<1>4. WaitOK(t)'
  <2>1. wr[t] = None
    BY <1>0, <1>1 DEF WaitOK
  <2> QED BY <1>1, <2>1, EventlinkAssumption DEF WaitOK
<1>5. \A q \in Sides : Pending(q)' \subseteq Pending(q)
  BY <1>1, PendingShrinks
<1>6. \A q \in Sides : SyncOK(q)'
  BY <1>1, <1>5, SyncKept
<1> QED BY <1>3, <1>4, <1>6, SignalParts

-----------------------------------------------------------------------------
(* The end of a call *)

\* t's call is over but for its reference.
Returns(t, kr, count) == call' = [call EXCEPT ![t] = Return(t, kr, count)]

\* What that changes.
LEMMA ReturnsFacts ==
    ASSUME EventlinkInv, NEW t \in Threads, NEW kr \in KernReturns, NEW count \in Nat, Returns(t, kr, count)
    PROVE  /\ call' \in [Threads -> CallType] /\ \A u \in Threads : u # t => call'[u] = call[u]
           /\ call'[t].pc = "leave" /\ call'[t].op = call[t].op /\ call'[t].side = call[t].side
           /\ call'[t].kr = kr /\ call'[t].ret = count
           /\ count # 0 => call'[t].arg = call[t].arg
<1>1. call \in [Threads -> CallType] /\ call[t] \in CallType
  BY DEF EventlinkInv, LifeInv, LifeType
<1>2. PICK a \in Arguments : a = IF count = 0 THEN None ELSE call[t].arg
  BY <1>1 DEF CallType, Arguments
<1>3. Return(t, kr, count) = [call[t] EXCEPT !.pc = "leave", !.kr = kr, !.ret = count, !.hand = None, !.arg = a]
  BY <1>2 DEF Return
<1>4. Return(t, kr, count) \in CallType
  BY <1>1, <1>3 DEF CallType
<1>5. /\ Return(t, kr, count).pc = "leave" /\ Return(t, kr, count).op = call[t].op
      /\ Return(t, kr, count).side = call[t].side /\ Return(t, kr, count).kr = kr
      /\ Return(t, kr, count).ret = count /\ Return(t, kr, count).arg = a
  BY <1>1, <1>3 DEF CallType
<1>6. call' = [call EXCEPT ![t] = Return(t, kr, count)]
  BY DEF Returns
<1>7. call' \in [Threads -> CallType] /\ (\A u \in Threads : u # t => call'[u] = call[u])
  BY <1>1, <1>4, <1>6
<1>8. call'[t] = Return(t, kr, count)
  BY <1>1, <1>6
<1>9. count # 0 => a = call[t].arg
  BY <1>2
<1> QED BY <1>5, <1>7, <1>8, <1>9

\* A call that returns keeps the base alive.
LEMMA ReturnsLife ==
    ASSUME EventlinkInv, NEW t \in Threads, NEW kr \in KernReturns, NEW count \in Nat, Returns(t, kr, count),
           active' = active, refs' = refs, port' = port, right' = right, failed' = failed,
           call[t].pc \in {"in"} \cup Waiting, call[t].op \notin {"none", "destroy", "no_senders"}
    PROVE  LifeInv'
<1>1. NeutralLife(t)
  BY ReturnsFacts DEF NeutralLife, Waiting
<1> QED BY <1>1, NeutralLifeInv DEF EventlinkInv

\* mach_eventlink_associate changes the thread of a side nobody waits on.
LEMMA AssociateInv == ASSUME EventlinkInv, NEW t \in Threads, Associate(t) PROVE EventlinkInv'
<1> USE EventlinkAssumption
<1>0. /\ SignalType /\ WaitOK(t) /\ (\A q \in Sides : QueueOK(q)) /\ call[t] \in CallType
  BY DEF EventlinkInv, SignalInv, LifeInv, LifeType
<1>1. /\ call[t].pc = "in" /\ call[t].op = "associate"
      /\ sync' = sync /\ wait' = wait /\ waitq' = waitq /\ active' = active /\ wr' = wr /\ misled' = misled
      /\ refs' = refs /\ port' = port /\ right' = right /\ failed' = failed
  BY DEF Associate, In
<1>2. PICK s \in Sides : s = call[t].side
  BY <1>0 DEF CallType
<1>3. \E kr \in KernReturns : Returns(t, kr, 0)
  BY DEF Associate, Finish, Returns, KernReturns
<1>4. /\ LifeInv' /\ \A u \in Threads : u # t => call'[u] = call[u]
      /\ call'[t].pc = "leave" /\ call'[t].op = "associate"
  BY <1>1, <1>3, ReturnsLife, ReturnsFacts
<1>5. assoc' = assoc \/ (assoc[s] = None /\ assoc' = [assoc EXCEPT ![s] = call[t].arg])
  BY <1>2 DEF Associate
<1>6. SignalType'
  <2>1. call[t].arg \in Threads \cup {WILD}
    BY <1>0, <1>1 DEF WaitOK
  <2>2. assoc' \in [Sides -> Threads \cup {None, WILD}]
    BY <1>0, <1>5, <2>1 DEF SignalType
  <2> QED BY <1>0, <1>1, <2>2 DEF SignalType
<1>7. \A q \in Sides : assoc'[q] = assoc[q] \/ waitq[q] = <<>>
  <2>1. assoc[s] = None => waitq[s] = <<>>
    BY QueueSides
  <2> QED BY <1>0, <1>5, <2>1 DEF SignalType
<1>8. QueueStep(t)
  BY <1>1, <1>4, <1>6, <1>7, QueuesKept DEF Waiting
<1>9. WaitOK(t)'
  BY <1>0, <1>1, <1>4 DEF WaitOK, Waiting, Waits
<1>10. \A q \in Sides : SyncOK(q)'
  BY <1>1, <1>4, SyncKept, PendingShrinks
<1> QED BY <1>4, <1>8, <1>9, <1>10, SignalParts DEF EventlinkInv

\* What a forced wake does to the queues.
LEMMA ForceWakeupFacts ==
    ASSUME EventlinkInv, NEW sides \in SUBSET Sides, ForceWakeup(sides)
    PROVE  /\ wait' \in [Sides -> 0 .. MAX] /\ waitq' \in [Sides -> Seq(Threads)] /\ wr' \in [Threads -> WaitResults]
           /\ \A q \in Sides : q \in sides => waitq'[q] = <<>>
           /\ \A q \in Sides : q \notin sides => waitq'[q] = waitq[q] /\ wait'[q] = wait[q]
           /\ \A u \in Threads : wr'[u] = wr[u] \/ (wr'[u] = "RESTART" /\ \E q \in sides : u \in Range(waitq[q]))
<1> USE EventlinkAssumption
<1>0. SignalType /\ \A q \in Sides : QueueOK(q)
  BY DEF EventlinkInv, SignalInv
<1>1. /\ wait' = [s \in Sides |-> IF s \in sides THEN MAX ELSE wait[s]]
      /\ wr' = [t \in Threads |-> IF \E s \in sides : Contains(waitq[s], t) THEN "RESTART" ELSE wr[t]]
      /\ waitq' = [s \in Sides |-> IF s \in sides THEN <<>> ELSE waitq[s]]
  BY DEF ForceWakeup
<1>2. \A u \in Threads : \A q \in sides : Contains(waitq[q], u) => u \in Range(waitq[q])
  BY <1>0, QueueThreads, QueueMembers
<1>3. MAX \in 0 .. MAX /\ <<>> \in Seq(Threads)
  OBVIOUS
<1>4. wait' \in [Sides -> 0 .. MAX] /\ waitq' \in [Sides -> Seq(Threads)] /\ wr' \in [Threads -> WaitResults]
  BY <1>0, <1>1, <1>3 DEF SignalType, WaitResults
<1> QED BY <1>1, <1>2, <1>4

\* mach_eventlink_disassociate wakes who waits.
LEMMA DisassociateInv == ASSUME EventlinkInv, NEW t \in Threads, Disassociate(t) PROVE EventlinkInv'
<1> USE EventlinkAssumption
<1>0. /\ SignalType /\ WaitOK(t) /\ (\A q \in Sides : QueueOK(q)) /\ call[t] \in CallType
  BY DEF EventlinkInv, SignalInv, LifeInv, LifeType
<1>1. /\ call[t].pc = "in" /\ call[t].op = "disassociate"
      /\ sync' = sync /\ active' = active /\ misled' = misled
      /\ refs' = refs /\ port' = port /\ right' = right /\ failed' = failed
  BY DEF Disassociate, In
<1>2. PICK s \in Sides : s = call[t].side
  BY <1>0 DEF CallType
<1>3. \E kr \in KernReturns : Returns(t, kr, 0)
  BY DEF Disassociate, Finish, Returns, KernReturns
<1>4. /\ LifeInv' /\ \A u \in Threads : u # t => call'[u] = call[u]
      /\ call'[t].pc = "leave" /\ call'[t].op = "disassociate"
  BY <1>1, <1>3, ReturnsLife, ReturnsFacts
<1>5. \A q \in Sides : SyncOK(q)'
  BY <1>1, <1>4, SyncKept, PendingShrinks
<1>6. CASE assoc' = assoc /\ wait' = wait /\ waitq' = waitq /\ wr' = wr
  <2>1. QuietStep(t)
    BY <1>1, <1>4, <1>6 DEF QuietStep, Waiting, Waits
  <2> QED BY <1>4, <2>1, QuietSignal DEF EventlinkInv
<1>7. CASE assoc' = [assoc EXCEPT ![s] = None] /\ ForceWakeup({s})
  <2>1. /\ wait' \in [Sides -> 0 .. MAX] /\ waitq' \in [Sides -> Seq(Threads)] /\ wr' \in [Threads -> WaitResults]
        /\ waitq'[s] = <<>>
        /\ \A q \in Sides : q # s => waitq'[q] = waitq[q] /\ wait'[q] = wait[q]
        /\ \A u \in Threads : wr'[u] = wr[u] \/ (wr'[u] = "RESTART" /\ u \in Range(waitq[s]))
    BY <1>7, ForceWakeupFacts
  <2>2. SignalType'
    BY <1>0, <1>1, <1>7, <2>1 DEF SignalType
  <2>t. \A q \in Sides : t \notin Range(waitq[q]) /\ waitq[q] # <<t>>
    BY <1>1, NotQueued DEF Waiting
  <2>3. ASSUME NEW q \in Sides, q # s
        PROVE  /\ assoc'[q] = assoc[q] /\ waitq'[q] = waitq[q] /\ wait'[q] = wait[q]
               /\ q \notin misled /\ waitq[q] # <<>> => sync[q] <= wait[q]
    BY <1>0, <1>1, <1>7, <2>1, <2>3, NotQueued DEF SignalType, Waiting
  <2>4. \A q \in Sides : sync[q] <= sync'[q]
    BY <1>0, <1>1 DEF SignalType
  <2>i. \A q \in Sides : IsInjective(waitq'[q])
    BY <1>0, <2>1, QueueMembers DEF QueueOK
  <2>m. ASSUME NEW q \in Sides, NEW u \in Range(waitq'[q])
        PROVE  /\ u # t /\ u \in Range(waitq[q]) /\ wr'[u] = wr[u]
               /\ assoc'[q] = assoc[q] /\ active' = active
    <3>1. q # s
      BY <2>1, <2>m, QueueMembers
    <3>2. u \in Range(waitq[q]) /\ u \in Threads
      BY <1>0, <2>3, <2>m, <3>1, QueueThreads
    <3>3. u \notin Range(waitq[s])
      BY <3>1, <3>2, QueueSides
    <3> QED BY <1>1, <2>1, <2>3, <2>t, <3>1, <3>2, <3>3
  <2>n. ASSUME NEW q \in Sides
        PROVE  \/ q \in misled'
               \/ waitq'[q] = <<>>
               \/ /\ waitq[q] # <<t>> /\ waitq'[q] = waitq[q] /\ wait'[q] = wait[q]
                  /\ assoc'[q] = assoc[q] /\ active' = active /\ sync'[q] <= wait[q]
    BY <1>1, <2>1, <2>3, <2>t
  <2>5. QueueStep(t)
    BY <1>1, <1>4, <2>1, <2>2, <2>4, <2>i, <2>m, <2>n DEF QueueStep
  <2>6. WaitOK(t)'
    BY <1>0, <1>1, <1>4, <2>1, <2>t DEF WaitOK, Waiting, Waits
  <2> QED BY <1>4, <1>5, <2>5, <2>6, SignalParts DEF EventlinkInv
<1> QED BY <1>2, <1>6, <1>7 DEF Disassociate

\* A destroy wakes everyone.
LEMMA DestroyLockedInv == ASSUME EventlinkInv, NEW t \in Threads, DestroyLocked(t) PROVE EventlinkInv'
<1> USE EventlinkAssumption
<1>0. /\ SignalType /\ WaitOK(t) /\ (\A q \in Sides : QueueOK(q)) /\ call \in [Threads -> CallType]
  BY DEF EventlinkInv, SignalInv, LifeInv, LifeType
<1>1. LifeInv' /\ sync' = sync /\ misled' = misled /\ call[t].pc = "in" /\ call[t].op \in {"destroy", "no_senders"}
  BY DestroyLockedLife DEF EventlinkInv, DestroyLocked
<1>2. /\ \A u \in Threads : u # t => call'[u] = call[u]
      /\ call'[t].op = call[t].op /\ call'[t].pc \in {"deallocLocal", "deallocPort", "leave"}
  <2>1. PICK pc \in {"deallocLocal", "deallocPort", "leave"} : call' = [call EXCEPT ![t].pc = pc]
    BY DEF DestroyLocked
  <2> QED BY <1>0, <2>1 DEF CallType
<1>3. CASE ~active
  <2>1. QuietStep(t)
    BY <1>1, <1>2, <1>3 DEF DestroyLocked, QuietStep, Waiting, Waits
  <2> QED BY <1>1, <2>1, QuietSignal DEF EventlinkInv
<1>4. CASE active
  <2> DEFINE associated == { s \in Sides : assoc[s] # None }
  <2>1. ForceWakeup(associated) /\ assoc' = [s \in Sides |-> None]
    BY <1>4 DEF DestroyLocked
  <2>2. associated \in SUBSET Sides /\ \A q \in Sides : q \notin associated => waitq[q] = <<>>
    BY QueueSides
  <2> HIDE DEF associated
  <2>3. /\ wait' \in [Sides -> 0 .. MAX] /\ waitq' \in [Sides -> Seq(Threads)] /\ wr' \in [Threads -> WaitResults]
        /\ \A q \in Sides : waitq'[q] = <<>>
        /\ \A u \in Threads : wr'[u] = wr[u] \/ (wr'[u] = "RESTART" /\ \E q \in Sides : u \in Range(waitq[q]))
    BY <2>1, <2>2, ForceWakeupFacts
  <2>4. SignalType'
    BY <1>0, <1>1, <2>1, <2>3 DEF SignalType
  <2>5. \A q \in Sides : sync[q] <= sync'[q]
    BY <1>0, <1>1 DEF SignalType
  <2>6. QueueStep(t)
    <3>1. \A q \in Sides : IsInjective(waitq'[q]) /\ Range(waitq'[q]) = {}
      BY <2>3, QueueMembers
    <3> QED BY <1>1, <1>2, <2>3, <2>4, <2>5, <3>1 DEF QueueStep
  <2>7. WaitOK(t)'
    <3>1. \A q \in Sides : t \notin Range(waitq[q])
      BY <1>1, NotQueued DEF Waiting
    <3> QED BY <1>0, <1>1, <1>2, <2>3, <3>1 DEF WaitOK, Waiting, Waits
  <2>8. \A q \in Sides : SyncOK(q)'
    BY <1>1, <1>2, SyncKept, PendingShrinks
  <2> QED BY <1>1, <2>6, <2>7, <2>8, SignalParts DEF EventlinkInv
<1> QED BY <1>3, <1>4

-----------------------------------------------------------------------------
(* Signals and waits *)

\* What ipc_eventlink_signal_internal_locked does to side r, given the counters and
\* queues it works on: nothing but count, or it takes the first that waits there off
\* the queue, which is the only one unless the side is misled.
SignalDone(r, waits, queues) ==
    /\ sync' \in [Sides -> Nat] /\ wait' \in [Sides -> 0 .. MAX] /\ waitq' \in [Sides -> Seq(Threads)]
    /\ sync'[r] = sync[r] + 1
    /\ \A q \in Sides : q # r => sync'[q] = sync[q] /\ wait'[q] = waits[q] /\ waitq'[q] = queues[q]
    /\ IsInjective(waitq'[r]) /\ Range(waitq'[r]) \subseteq Range(waitq[r]) \ {Woken(r, waits, queues)}
    /\ \/ Woken(r, waits, queues) = None
       \/ Woken(r, waits, queues) \in Threads /\ Woken(r, waits, queues) \in Range(waitq[r])
    /\ \/ r \in misled
       \/ /\ Woken(r, waits, queues) = None
          /\ waitq'[r] = <<>> \/ (waitq'[r] = waitq[r] /\ wait'[r] = wait[r] /\ sync'[r] <= wait[r])
       \/ /\ OnQueue(Woken(r, waits, queues), r)
          /\ waitq'[r] = <<>> /\ wait[r] < sync'[r]

\* It does.
LEMMA SignalEffect ==
    ASSUME EventlinkInv, NEW r \in Sides,
           NEW waits \in [Sides -> 0 .. MAX], NEW queues \in [Sides -> Seq(Threads)],
           waits[r] = wait[r], queues[r] = waitq[r], SignalLocked(r, waits, queues)
    PROVE  SignalDone(r, waits, queues)
<1> USE EventlinkAssumption
<1>0. SignalType /\ QueueOK(r)
  BY DEF EventlinkInv, SignalInv
<1> DEFINE hit == Wakes(r, waits)
<1> DEFINE woken == IF hit /\ queues[r] # <<>> THEN Head(queues[r]) ELSE None
<1>1. /\ sync' = [sync EXCEPT ![r] = sync[r] + 1]
      /\ wait' = IF hit THEN [waits EXCEPT ![r] = MAX] ELSE waits
      /\ waitq' = IF woken # None THEN [queues EXCEPT ![r] = Tail(queues[r])] ELSE queues
      /\ Woken(r, waits, queues) = woken
  BY DEF SignalLocked, Woken
<1>2. sync[r] \in Nat /\ wait[r] \in 0 .. MAX /\ (hit <=> sync[r] + 1 > wait[r])
  BY <1>0 DEF SignalType, Wakes
<1>3. /\ sync' \in [Sides -> Nat] /\ sync'[r] = sync[r] + 1
      /\ \A q \in Sides : q # r => sync'[q] = sync[q]
  BY <1>0, <1>1, <1>2 DEF SignalType
<1>4. CASE ~hit
  <2>1. woken = None
    BY <1>4
  <2>2. waitq' = queues /\ wait' = waits
    BY <1>1, <1>4, <2>1
  <2>3. sync'[r] <= wait[r]
    BY <1>2, <1>3, <1>4
  <2>4. IsInjective(waitq[r]) /\ None \notin Range(waitq[r])
    BY <1>0, QueueThreads DEF QueueOK
  <2>5. Range(waitq'[r]) \subseteq Range(waitq[r]) \ {None} /\ waitq'[r] = waitq[r] /\ wait'[r] = wait[r]
    BY <2>2, <2>4
  <2> HIDE DEF hit, woken
  <2> QED BY <1>1, <1>3, <2>1, <2>2, <2>3, <2>4, <2>5 DEF SignalDone
<1>5. CASE hit
  <2>1. wait' = [waits EXCEPT ![r] = MAX] /\ MAX \in 0 .. MAX
    BY <1>1, <1>5
  <2>2. wait' \in [Sides -> 0 .. MAX] /\ \A q \in Sides : q # r => wait'[q] = waits[q]
    BY <2>1
  <2>3. wait[r] < sync'[r]
    BY <1>2, <1>3, <1>5
  <2>4. CASE queues[r] = <<>>
    <3>1. woken = None
      BY <2>4
    <3>2. waitq' = queues
      BY <1>1, <3>1
    <3>3. IsInjective(waitq'[r]) /\ Range(waitq'[r]) = {} /\ waitq'[r] = <<>>
      BY <2>4, <3>2, QueueMembers
    <3> HIDE DEF hit, woken
    <3> QED BY <1>1, <1>3, <2>2, <2>4, <3>1, <3>2, <3>3 DEF SignalDone
  <2>5. CASE queues[r] # <<>>
    <3>1. PICK u \in Threads : u = Head(queues[r]) /\ u # None
      BY <1>0, <2>5, TailQueue DEF QueueOK
    <3>2. woken = u
      BY <1>5, <2>5, <3>1
    <3>3. /\ u \in Range(waitq[r]) /\ Tail(queues[r]) \in Seq(Threads)
          /\ IsInjective(Tail(queues[r])) /\ Range(Tail(queues[r])) \subseteq Range(waitq[r]) \ {u}
      BY <1>0, <2>5, <3>1, TailQueue DEF QueueOK
    <3>4. waitq' = [queues EXCEPT ![r] = Tail(queues[r])]
      BY <1>1, <3>1, <3>2
    <3>5. /\ waitq' \in [Sides -> Seq(Threads)] /\ waitq'[r] = Tail(queues[r])
          /\ \A q \in Sides : q # r => waitq'[q] = queues[q]
      BY <3>3, <3>4
    <3>6. Woken(r, waits, queues) = u
      BY <1>1, <3>2
    <3>7. CASE r \in misled
      <4> HIDE DEF hit, woken
      <4> QED BY <1>3, <2>2, <3>3, <3>5, <3>6, <3>7 DEF SignalDone
    <3>8. CASE r \notin misled
      <4>1. PICK v \in Threads : OnQueue(v, r)
        BY <1>0, <2>5, <3>8 DEF QueueOK
      <4>2. queues[r] = <<v>>
        BY <4>1 DEF OnQueue
      <4>3. v = u /\ Tail(queues[r]) = <<>>
        BY <3>1, <4>2
      <4>4. OnQueue(u, r) /\ waitq'[r] = <<>>
        BY <3>5, <4>1, <4>3
      <4> HIDE DEF hit, woken
      <4> QED BY <1>3, <2>2, <2>3, <3>3, <3>5, <3>6, <4>4 DEF SignalDone
    <3> QED BY <3>7, <3>8
  <2> QED BY <2>4, <2>5
<1> QED BY <1>4, <1>5

\* A signal by t that is over makes room for itself.
LEMMA SyncSignalled ==
    ASSUME EventlinkInv, NEW t \in Threads, NEW s \in Sides, t \in Pending(s),
           \A u \in Threads : u # t => call'[u] = call[u], call'[t].pc # "in",
           \A q \in Sides : q # Remote(s) => sync'[q] = sync[q],
           sync'[Remote(s)] = sync[Remote(s)] + 1
    PROVE  \A q \in Sides : SyncOK(q)'
<1> TAKE q \in Sides
<1>1. CASE q # s
  <2>1. Remote(q) \in Sides /\ Remote(q) # Remote(s)
    BY <1>1, RemoteSide
  <2>2. Pending(q)' \subseteq Pending(q)
    BY PendingShrinks
  <2> QED BY <2>1, <2>2, SyncKept
<1>2. CASE q = s
  <2>1. Pending(s)' = Pending(s) \ {t}
    BY DEF Pending
  <2>2. PICK m \in Nat : m = Cardinality(Pending(s)') /\ m = Cardinality(Pending(s)) - 1
    BY <2>1, PendingFinite, FS_RemoveElement, FS_CardinalityType
  <2>3. PICK k \in Nat : k = Cardinality(Pending(s))
    BY PendingFinite
  <2>4. sync[Remote(s)] \in Nat /\ sync[Remote(s)] + k <= MaxSync
    BY <2>3, RemoteSide DEF EventlinkInv, SignalInv, SignalType, SyncOK
  <2>5. sync'[Remote(s)] + m <= MaxSync
    BY <2>2, <2>3, <2>4, EventlinkAssumption
  <2> QED BY <1>2, <2>2, <2>5 DEF SyncOK
<1> QED BY <1>1, <1>2

\* A signal of t to the remote side, when t itself waits on no queue.
LEMMA PlainSignal ==
    ASSUME EventlinkInv, NEW t \in Threads, NEW s \in Sides, s = call[t].side,
           call[t].pc = "in", call[t].op \in Signals,
           SignalLocked(Remote(s), wait, waitq), assoc' = assoc, active' = active, misled' = misled,
           wr' = [u \in Threads |-> IF u = Woken(Remote(s), wait, waitq) THEN "AWAKENED" ELSE wr[u]],
           \A u \in Threads : u # t => call'[u] = call[u], call'[t].pc = "leave"
    PROVE  QueueStep(t) /\ (\A q \in Sides : SyncOK(q)') /\ wr'[t] = None /\ sync'[s] = sync[s]
<1> USE EventlinkAssumption
<1>0. /\ SignalType /\ WaitOK(t) /\ \A q \in Sides : QueueOK(q)
  BY DEF EventlinkInv, SignalInv
<1>r. PICK r \in Sides : r = Remote(s) /\ r # s
  BY RemoteSide
<1>1. SignalDone(r, wait, waitq)
  BY <1>0, <1>r, SignalEffect DEF SignalType
<1>w. PICK w : w = Woken(r, wait, waitq)
  OBVIOUS
<1>e. /\ sync' \in [Sides -> Nat] /\ wait' \in [Sides -> 0 .. MAX] /\ waitq' \in [Sides -> Seq(Threads)]
      /\ sync'[r] = sync[r] + 1
      /\ \A q \in Sides : q # r => sync'[q] = sync[q] /\ wait'[q] = wait[q] /\ waitq'[q] = waitq[q]
      /\ IsInjective(waitq'[r]) /\ Range(waitq'[r]) \subseteq Range(waitq[r]) \ {w}
      /\ w = None \/ (w \in Threads /\ w \in Range(waitq[r]))
      /\ \/ r \in misled
         \/ w = None /\ (waitq'[r] = <<>> \/ (waitq'[r] = waitq[r] /\ wait'[r] = wait[r] /\ sync'[r] <= wait[r]))
         \/ OnQueue(w, r) /\ waitq'[r] = <<>> /\ wait[r] < sync'[r]
  BY <1>1, <1>w DEF SignalDone
<1>2. SignalType'
  <2>1. wr' \in [Threads -> WaitResults]
    BY <1>0 DEF SignalType, WaitResults
  <2> QED BY <1>0, <1>e, <2>1 DEF SignalType
<1>3. ASSUME NEW q \in Sides
      PROVE  /\ t \notin Range(waitq[q]) /\ waitq[q] # <<t>>
             /\ q \notin misled /\ waitq[q] # <<>> => sync[q] <= wait[q]
  BY NotQueued DEF Waiting
<1>4. ASSUME NEW q \in Sides PROVE sync[q] <= sync'[q]
  <2>1. sync[q] \in Nat
    BY <1>0 DEF SignalType
  <2>2. \A n \in Nat : n <= n /\ n <= n + 1
    OBVIOUS
  <2>3. sync'[q] = sync[q] \/ sync'[q] = sync[q] + 1
    BY <1>e
  <2> QED BY <2>1, <2>2, <2>3
<1>5. ASSUME NEW q \in Sides
      PROVE  \/ q \in misled'
             \/ waitq'[q] = <<>>
             \/ /\ waitq[q] # <<t>> /\ waitq'[q] = waitq[q] /\ wait'[q] = wait[q]
                /\ assoc'[q] = assoc[q] /\ active' = active /\ sync'[q] <= wait[q]
  <2>1. CASE q = r
    BY <1>e, <1>3, <2>1
  <2>2. CASE q # r
    BY <1>e, <1>3, <2>2
  <2> QED BY <2>1, <2>2
<1>6. \A u \in Threads : wr'[u] = wr[u] \/ (u = w /\ wr'[u] = "AWAKENED")
  BY <1>r, <1>w
<1>7. \A u \in Threads : u # w => wr'[u] = wr[u]
  BY <1>r, <1>w
<1>i. \A q \in Sides : IsInjective(waitq'[q])
  BY <1>0, <1>e DEF QueueOK
<1>m. ASSUME NEW q \in Sides, NEW u \in Range(waitq'[q])
      PROVE  /\ u # t /\ u \in Range(waitq[q]) /\ wr'[u] = wr[u]
             /\ assoc'[q] = assoc[q] /\ active' = active
  <2>1. u \in Range(waitq[q]) /\ (q = r => u # w)
    BY <1>e, <1>m
  <2>2. u \in Threads /\ u # t
    BY <1>0, <1>3, <2>1, QueueThreads
  <2>3. u # w
    <3>1. SUFFICES ASSUME u = w, w \in Range(waitq[r]) PROVE FALSE
      BY <1>e, <2>2
    <3>2. q = r
      BY <2>1, <3>1, QueueSides
    <3> QED BY <2>1, <3>1, <3>2
  <2> QED BY <1>7, <2>1, <2>2, <2>3
<1>8. QueueStep(t)
  <2>1. ASSUME NEW u \in Threads, u = w
        PROVE  u \in Range(waitq[r]) /\ (r \in misled \/ (OnQueue(u, r) /\ wait[r] < sync'[r]))
    BY <1>e, <2>1, EventlinkAssumption
  <2> QED BY <1>2, <1>4, <1>5, <1>6, <1>i, <1>m, <2>1 DEF QueueStep
<1>9. wr'[t] = None
  <2>1. t # w
    BY <1>3, <1>e
  <2>2. wr[t] = None
    BY <1>0 DEF WaitOK, Waiting
  <2> QED BY <1>7, <2>1, <2>2
<1>10. \A q \in Sides : SyncOK(q)'
  <2>1. t \in Pending(s)
    BY DEF Pending
  <2> QED BY <1>e, <1>r, <2>1, SyncSignalled
<1> QED BY <1>e, <1>8, <1>9, <1>10, <1>r

\* mach_eventlink_signal_trap.
LEMMA SignalStepInv == ASSUME EventlinkInv, NEW t \in Threads, Signal(t) PROVE EventlinkInv'
<1> USE EventlinkAssumption
<1>0. /\ SignalType /\ WaitOK(t) /\ (\A q \in Sides : QueueOK(q)) /\ OpOK(t)
      /\ call \in [Threads -> CallType] /\ call[t] \in CallType
  BY DEF EventlinkInv, SignalInv, LifeInv, LifeType
<1>s. PICK s \in Sides : s = call[t].side
  BY <1>0 DEF CallType
<1>1. /\ call[t].pc = "in" /\ call[t].op = "signal"
      /\ assoc' = assoc /\ active' = active /\ misled' = misled
      /\ refs' = refs /\ port' = port /\ right' = right /\ failed' = failed
  BY DEF Signal, In
<1>2. \E kr \in KernReturns : Returns(t, kr, 0)
  BY DEF Signal, Finish, Returns, KernReturns
<1>3. /\ LifeInv' /\ \A u \in Threads : u # t => call'[u] = call[u]
      /\ call'[t].pc = "leave" /\ call'[t].op = "signal"
  BY <1>1, <1>2, ReturnsLife, ReturnsFacts
<1>4. CASE ~active
  <2>1. QuietStep(t)
    BY <1>1, <1>3, <1>4 DEF Signal, QuietStep, Waiting, Waits
  <2> QED BY <1>3, <2>1, QuietSignal DEF EventlinkInv
<1>5. CASE active
  <2>1. /\ SignalLocked(Remote(s), wait, waitq)
        /\ wr' = [u \in Threads |-> IF u = Woken(Remote(s), wait, waitq) THEN "AWAKENED" ELSE wr[u]]
    BY <1>5, <1>s DEF Signal
  <2>2. QueueStep(t) /\ (\A q \in Sides : SyncOK(q)') /\ wr'[t] = None
    BY <1>1, <1>3, <1>s, <2>1, PlainSignal DEF Signals
  <2>3. WaitOK(t)'
    BY <1>3, <2>2 DEF WaitOK, Waiting, Waits
  <2> QED BY <1>3, <2>2, <2>3, SignalParts DEF EventlinkInv
<1> QED BY <1>4, <1>5

\* A wait that is refused.
LEMMA WaitRefusedInv == ASSUME EventlinkInv, NEW t \in Threads, WaitRefused(t) PROVE EventlinkInv'
<1> USE EventlinkAssumption
<1>0. /\ SignalType /\ WaitOK(t) /\ (\A q \in Sides : QueueOK(q)) /\ OpOK(t)
      /\ call \in [Threads -> CallType] /\ call[t] \in CallType
  BY DEF EventlinkInv, SignalInv, LifeInv, LifeType
<1>s. PICK s \in Sides : s = call[t].side
  BY <1>0 DEF CallType
<1>1. /\ call[t].pc = "in" /\ call[t].op \in Waits
      /\ sync' = sync /\ wait' = wait /\ assoc' = assoc /\ waitq' = waitq /\ active' = active /\ wr' = wr /\ misled' = misled
      /\ refs' = refs /\ port' = port /\ right' = right /\ failed' = failed
  BY DEF WaitRefused, InWait, link
<1>2. \E kr \in KernReturns : kr # "SUCCESS" /\ Returns(t, kr, 0)
  BY DEF WaitRefused, Finish, Returns, KernReturns
<1>3. /\ LifeInv' /\ \A u \in Threads : u # t => call'[u] = call[u]
      /\ call'[t].pc = "leave" /\ call'[t].kr # "SUCCESS"
  BY <1>1, <1>2, ReturnsLife, ReturnsFacts DEF Waits
<1>4. QuietStep(t)
  BY <1>1, <1>3 DEF QuietStep, Waiting
<1> QED BY <1>3, <1>4, QuietSignal DEF EventlinkInv

\* A wait that is answered at once returns a count its side has.
LEMMA WaitNoBlockInv == ASSUME EventlinkInv, NEW t \in Threads, WaitNoBlock(t) PROVE EventlinkInv'
<1> USE EventlinkAssumption
<1>0. /\ SignalType /\ WaitOK(t) /\ (\A q \in Sides : QueueOK(q)) /\ OpOK(t)
      /\ call \in [Threads -> CallType] /\ call[t] \in CallType
  BY DEF EventlinkInv, SignalInv, LifeInv, LifeType
<1>s. PICK s \in Sides : s = call[t].side
  BY <1>0 DEF CallType
<1>1. /\ call[t].pc = "in" /\ call[t].op \in Waits /\ call[t].arg \in 0 .. MAX
      /\ sync[s] \in Nat /\ call[t].arg \in Nat
  BY <1>0 DEF WaitNoBlock, InWait, WaitOK, SignalType
<1>2. PICK kr \in KernReturns : WaitAnswered(t, kr) /\ (kr = "SUCCESS" => call[t].arg < sync[s])
  <2>1. "SUCCESS" \in KernReturns /\ "TIMED_OUT" \in KernReturns
    BY DEF KernReturns
  <2> QED BY <1>s, <2>1 DEF WaitNoBlock
<1>3. assoc' = assoc /\ active' = active /\ misled' = misled /\ refs' = refs /\ port' = port /\ right' = right /\ failed' = failed
  BY <1>2 DEF WaitAnswered
<1>4. PICK count \in Nat : count = IF kr = "SUCCESS" THEN sync[s] ELSE 0
  BY <1>1
<1>5. Returns(t, kr, count)
  BY <1>2, <1>4, <1>s DEF WaitAnswered, Returns
<1>6. /\ LifeInv' /\ \A u \in Threads : u # t => call'[u] = call[u]
      /\ call'[t].pc = "leave" /\ call'[t].op = call[t].op /\ call'[t].side = s /\ call'[t].kr = kr
      /\ call'[t].ret = count /\ (count # 0 => call'[t].arg = call[t].arg)
  BY <1>1, <1>3, <1>5, <1>s, ReturnsLife, ReturnsFacts DEF Waits
<1>7. kr = "SUCCESS" => call'[t].arg = call[t].arg /\ call'[t].ret = sync[s]
  <2>1. kr = "SUCCESS" => count # 0 /\ count = sync[s]
    BY <1>1, <1>2, <1>4
  <2> QED BY <1>6, <2>1
<1>8. ASSUME wr'[t] = None, sync'[s] = sync[s] PROVE WaitOK(t)'
  <2>1. kr = "SUCCESS" => sync[s] <= sync[s]
    BY <1>1
  <2> QED BY <1>1, <1>2, <1>6, <1>7, <1>8, <2>1 DEF WaitOK, Waiting
<1>9. CASE call[t].op \in Signals
  <2>1. /\ SignalLocked(Remote(s), wait, waitq)
        /\ wr' = [u \in Threads |-> IF u = Woken(Remote(s), wait, waitq) THEN "AWAKENED" ELSE wr[u]]
    BY <1>2, <1>9, <1>s DEF WaitAnswered
  <2>2. QueueStep(t) /\ (\A q \in Sides : SyncOK(q)') /\ wr'[t] = None /\ sync'[s] = sync[s]
    BY <1>1, <1>3, <1>6, <1>9, <1>s, <2>1, PlainSignal DEF Signals
  <2> QED BY <1>6, <1>8, <2>2, SignalParts DEF EventlinkInv
<1>10. CASE call[t].op \notin Signals
  <2>1. sync' = sync /\ wait' = wait /\ waitq' = waitq /\ wr' = wr
    BY <1>2, <1>10 DEF WaitAnswered
  <2>2. SignalType'
    BY <1>0, <1>3, <2>1 DEF SignalType
  <2>3. QueueStep(t)
    BY <1>1, <1>3, <1>6, <2>1, <2>2, QueuesKept DEF Waiting
  <2>4. wr'[t] = None
    BY <1>0, <1>1, <2>1 DEF WaitOK, Waiting
  <2>5. WaitOK(t)'
    BY <1>8, <2>1, <2>4
  <2>6. \A q \in Sides : SyncOK(q)'
    BY <1>6, <2>1, SyncKept, PendingShrinks
  <2> QED BY <1>6, <2>3, <2>5, <2>6, SignalParts DEF EventlinkInv
<1> QED BY <1>9, <1>10

\* A thread that blocks is the only one on its queue: the side is its own, or the
\* wait counter of a wild side says that nobody waits.  When a thread has waited there
\* for MAX, it may be one of many.
LEMMA WaitBlockInv == ASSUME EventlinkInv, NEW t \in Threads, WaitBlock(t) PROVE EventlinkInv'
<1> USE EventlinkAssumption
<1>0. /\ SignalType /\ WaitOK(t) /\ (\A q \in Sides : QueueOK(q)) /\ OpOK(t)
      /\ call \in [Threads -> CallType] /\ call[t] \in CallType
  BY DEF EventlinkInv, SignalInv, LifeInv, LifeType
<1>s. PICK s \in Sides : s = call[t].side
  BY <1>0 DEF CallType
<1>r. PICK r \in Sides : r = Remote(s) /\ r # s
  BY RemoteSide
<1>a. PICK a \in 0 .. MAX : a = call[t].arg
  BY <1>0 DEF WaitBlock, InWait, WaitOK
<1> DEFINE waits == [wait EXCEPT ![s] = a]
<1> DEFINE queues == [waitq EXCEPT ![s] = Append(waitq[s], t)]
<1> DEFINE woken == IF call[t].op = "signal_wait" THEN Woken(r, waits, queues) ELSE None
<1>1. /\ call[t].pc = "in" /\ call[t].op \in Waits /\ MayWait(t, s) /\ a >= sync[s]
      /\ assoc' = assoc /\ active' = active
      /\ misled' = IF a = MAX /\ assoc[s] = WILD THEN misled \cup {s} ELSE misled
      /\ refs' = refs /\ port' = port /\ right' = right /\ failed' = failed
  BY <1>s, <1>a DEF WaitBlock, InWait
<1>2. /\ IF call[t].op = "signal_wait" THEN SignalLocked(r, waits, queues)
         ELSE wait' = waits /\ waitq' = queues /\ sync' = sync
      /\ call' = [call EXCEPT ![t].pc = IF woken = None THEN "blocked" ELSE "handoff", ![t].hand = woken]
      /\ wr' = [u \in Threads |-> IF u = woken THEN "AWAKENED" ELSE IF u = t THEN None ELSE wr[u]]
  BY <1>s, <1>r, <1>a DEF WaitBlock
<1>m. /\ misled' \in SUBSET Sides /\ misled \subseteq misled'
      /\ r \in misled' <=> r \in misled
      /\ s \notin misled' => s \notin misled /\ (assoc[s] = WILD => a # MAX)
  <2>1. misled \in SUBSET Sides
    BY <1>0 DEF SignalType
  <2> QED BY <1>1, <1>r, <2>1
<1>t. \A q \in Sides : /\ t \notin Range(waitq[q]) /\ waitq[q] # <<t>>
                       /\ q \notin misled /\ waitq[q] # <<>> => sync[q] <= wait[q]
  BY <1>1, NotQueued DEF Waiting
<1>3. ASSUME s \notin misled' PROVE waitq[s] = <<>>
  <2>1. SUFFICES ASSUME NEW u \in Threads, OnQueue(u, s) PROVE FALSE
    BY <1>0, <1>3, <1>m DEF QueueOK
  <2>2. u # t
    BY <1>1, <2>1 DEF OnQueue, Asleep, Waiting
  <2>3. assoc[s] = WILD /\ wait[s] = MAX
    BY <1>1, <2>1, <2>2 DEF OnQueue, MayWait
  <2> QED BY <2>1, <2>3 DEF OnQueue
<1>4. /\ waits \in [Sides -> 0 .. MAX] /\ waits[r] = wait[r] /\ waits[s] = a
  BY <1>0, <1>r DEF SignalType
<1>5. /\ queues \in [Sides -> Seq(Threads)] /\ queues[r] = waitq[r] /\ IsInjective(queues[s])
      /\ Range(queues[s]) \subseteq Range(waitq[s]) \cup {t}
      /\ s \notin misled' => queues[s] = <<t>>
  <2>1. /\ Append(waitq[s], t) \in Seq(Threads) /\ IsInjective(Append(waitq[s], t))
        /\ Range(Append(waitq[s], t)) \subseteq Range(waitq[s]) \cup {t}
    BY <1>0, <1>t, QueueThreads, AppendQueue DEF QueueOK
  <2>2. s \notin misled' => Append(waitq[s], t) = <<t>>
    <3>1. Append(<<>>, t) = <<t>>
      OBVIOUS
    <3> QED BY <1>3, <3>1
  <2>3. waitq \in [Sides -> Seq(Threads)]
    BY <1>0 DEF SignalType
  <2>4. queues \in [Sides -> Seq(Threads)] /\ queues[r] = waitq[r] /\ queues[s] = Append(waitq[s], t)
    BY <1>r, <2>1, <2>3
  <2> QED BY <2>1, <2>2, <2>4
<1> HIDE DEF waits, queues
<1>6. /\ sync' \in [Sides -> Nat] /\ wait' \in [Sides -> 0 .. MAX] /\ waitq' \in [Sides -> Seq(Threads)]
      /\ sync'[s] = sync[s] /\ wait'[s] = a /\ waitq'[s] = queues[s]
      /\ sync'[r] = IF call[t].op = "signal_wait" THEN sync[r] + 1 ELSE sync[r]
      /\ IsInjective(waitq'[r]) /\ Range(waitq'[r]) \subseteq Range(waitq[r]) \ {woken}
      /\ woken = None \/ (woken \in Threads /\ woken \in Range(waitq[r]))
      /\ \/ r \in misled
         \/ woken = None /\ (waitq'[r] = <<>> \/ (waitq'[r] = waitq[r] /\ wait'[r] = wait[r] /\ sync'[r] <= wait[r]))
         \/ OnQueue(woken, r) /\ waitq'[r] = <<>> /\ wait[r] < sync'[r]
  <2>1. CASE call[t].op = "signal_wait"
    <3>1. SignalLocked(r, waits, queues) /\ woken = Woken(r, waits, queues)
      BY <1>2, <2>1
    <3>2. SignalDone(r, waits, queues)
      BY <1>4, <1>5, <3>1, SignalEffect
    <3> HIDE DEF woken
    <3> QED BY <1>4, <1>5, <1>r, <2>1, <3>1, <3>2 DEF SignalDone
  <2>2. CASE call[t].op # "signal_wait"
    <3>1. wait' = waits /\ waitq' = queues /\ sync' = sync /\ woken = None
      BY <1>2, <2>2
    <3>2. IsInjective(waitq[r]) /\ None \notin Range(waitq[r])
      BY <1>0, QueueThreads DEF QueueOK
    <3>3. waitq'[r] = waitq[r] /\ wait'[r] = wait[r] /\ sync'[r] = sync[r]
      BY <1>4, <1>5, <3>1
    <3>4. r \in misled \/ waitq'[r] = <<>> \/ sync'[r] <= wait[r]
      BY <1>t, <3>3
    <3> HIDE DEF woken
    <3> QED BY <1>0, <1>4, <1>5, <2>2, <3>1, <3>2, <3>3, <3>4 DEF SignalType
  <2> QED BY <2>1, <2>2
<1>7. woken \in Threads \cup {None} /\ woken # t
  BY <1>6, <1>t
<1> HIDE DEF woken
<1>8. /\ call' \in [Threads -> CallType] /\ \A u \in Threads : u # t => call'[u] = call[u]
      /\ call'[t].pc \in Waiting /\ call'[t].op = call[t].op /\ call'[t].side = s /\ call'[t].arg = a
  <2>1. PICK pc \in Waiting : pc = IF woken = None THEN "blocked" ELSE "handoff"
    BY DEF Waiting
  <2>2. call' = [call EXCEPT ![t].pc = pc, ![t].hand = woken]
    BY <1>2, <2>1
  <2>3. call' = [call EXCEPT ![t] = [call[t] EXCEPT !.pc = pc, !.hand = woken]]
    BY <1>0, <2>2
  <2>4. [call[t] EXCEPT !.pc = pc, !.hand = woken] \in CallType
    BY <1>0, <1>7, <2>1 DEF CallType
  <2>5. /\ call' \in [Threads -> CallType] /\ (\A u \in Threads : u # t => call'[u] = call[u])
        /\ call'[t] = [call[t] EXCEPT !.pc = pc, !.hand = woken]
    BY <1>0, <2>3, <2>4
  <2>6. call'[t].pc = pc /\ call'[t].op = call[t].op /\ call'[t].side = s /\ call'[t].arg = a
    BY <1>0, <1>s, <1>a, <2>5 DEF CallType
  <2> QED BY <2>1, <2>5, <2>6
<1>9. LifeInv'
  <2>1. NeutralLife(t)
    BY <1>1, <1>8, <1>s DEF NeutralLife, Waits
  <2> QED BY <2>1, NeutralLifeInv DEF EventlinkInv
<1>10. /\ wr' \in [Threads -> WaitResults] /\ wr'[t] = None
       /\ \A u \in Threads : u # t => wr'[u] = wr[u] \/ (u = woken /\ wr'[u] = "AWAKENED")
       /\ \A u \in Threads : u # t /\ u # woken => wr'[u] = wr[u]
  BY <1>0, <1>2, <1>7 DEF SignalType, WaitResults
<1>11. SignalType'
  BY <1>0, <1>1, <1>6, <1>10, <1>m DEF SignalType
<1>12. Asleep(t, s)' /\ (s \notin misled' => OnQueue(t, s)')
  <2>1. sync[s] \in Nat /\ sync[s] <= a
    BY <1>0, <1>1 DEF SignalType
  <2>2. active /\ assoc[s] \in {t, WILD} /\ assoc[s] # None
    BY <1>1 DEF MayWait
  <2>3. Asleep(t, s)'
    BY <1>1, <1>8, <1>10, <2>2 DEF Asleep
  <2>4. s \notin misled' => waitq'[s] = <<t>> /\ (assoc[s] = WILD => a # MAX)
    BY <1>5, <1>6, <1>m
  <2> QED BY <1>1, <1>6, <1>8, <2>1, <2>2, <2>3, <2>4 DEF OnQueue
<1>13. QueueStep(t)
  <2>0. \A q \in Sides : q = s \/ q = r
    BY <1>r DEF Sides
  <2>1. ASSUME NEW q \in Sides PROVE sync[q] <= sync'[q]
    <3>1. sync[q] \in Nat
      BY <1>0 DEF SignalType
    <3>2. \A n \in Nat : n <= n /\ n <= n + 1
      OBVIOUS
    <3> QED BY <1>6, <2>0, <3>1, <3>2
  <2>2. ASSUME NEW q \in Sides
        PROVE  \/ q \in misled'
               \/ waitq'[q] = <<>>
               \/ OnQueue(t, q)'
               \/ /\ waitq[q] # <<t>> /\ waitq'[q] = waitq[q] /\ wait'[q] = wait[q]
                  /\ assoc'[q] = assoc[q] /\ active' = active /\ sync'[q] <= wait[q]
    <3>1. CASE q = s
      BY <1>12, <3>1
    <3>2. CASE q = r
      BY <1>1, <1>6, <1>m, <1>t, <3>2
    <3> QED BY <2>0, <3>1, <3>2
  <2>3. ASSUME NEW u \in Threads, u = woken
        PROVE  u \in Range(waitq[r]) /\ (r \in misled \/ (OnQueue(u, r) /\ wait[r] < sync'[r]))
    BY <1>6, <2>3
  <2>4. \A q \in Sides : IsInjective(waitq'[q])
    BY <1>5, <1>6, <2>0
  <2>5. ASSUME NEW q \in Sides, NEW u \in Range(waitq'[q])
        PROVE  \/ u = t /\ Asleep(t, q)'
               \/ /\ u # t /\ u \in Range(waitq[q]) /\ wr'[u] = wr[u]
                  /\ assoc'[q] = assoc[q] /\ active' = active
    <3>1. CASE q = r
      <4>1. u \in Range(waitq[r]) /\ u # woken
        BY <1>6, <2>5, <3>1
      <4>2. u \in Threads /\ u # t
        BY <1>0, <1>t, <4>1, QueueThreads
      <4> QED BY <1>1, <1>10, <3>1, <4>1, <4>2
    <3>2. CASE q = s /\ u = t
      BY <1>12, <3>2
    <3>3. CASE q = s /\ u # t
      <4>1. u \in Range(waitq[s])
        BY <1>5, <1>6, <2>5, <3>3
      <4>2. u \in Threads
        BY <1>0, <4>1, QueueThreads
      <4>3. u # woken
        BY <1>6, <1>r, <4>1, <4>2, QueueSides
      <4> QED BY <1>1, <1>10, <3>3, <4>1, <4>2, <4>3
    <3> QED BY <2>0, <3>1, <3>2, <3>3
  <2> QED BY <1>8, <1>10, <1>11, <1>m, <2>1, <2>2, <2>3, <2>4, <2>5 DEF QueueStep
<1>14. WaitOK(t)'
  BY <1>1, <1>8, <1>10 DEF WaitOK, Waiting
<1>15. \A q \in Sides : SyncOK(q)'
  <2>0. call'[t].pc # "in"
    BY <1>8 DEF Waiting
  <2>1. CASE call[t].op = "signal_wait"
    <3>1. t \in Pending(s)
      BY <1>1, <1>s, <2>1 DEF Pending, Signals
    <3>2. sync'[r] = sync[r] + 1 /\ \A q \in Sides : q # r => sync'[q] = sync[q]
      BY <1>6, <1>r, <2>1 DEF Sides
    <3> QED BY <1>8, <1>r, <2>0, <3>1, <3>2, SyncSignalled
  <2>2. CASE call[t].op # "signal_wait"
    <3>1. \A q \in Sides : sync'[q] = sync[q]
      BY <1>6, <1>r, <2>2 DEF Sides
    <3> QED BY <1>8, <2>0, <3>1, RemoteSide, SyncKept, PendingShrinks
  <2> QED BY <2>1, <2>2
<1> QED BY <1>9, <1>13, <1>14, <1>15, SignalParts DEF EventlinkInv

\* The handoff does not touch the wait.
LEMMA HandoffInv == ASSUME EventlinkInv, NEW t \in Threads, Handoff(t) PROVE EventlinkInv'
<1> USE EventlinkAssumption
<1>0. /\ SignalType /\ WaitOK(t) /\ (\A q \in Sides : QueueOK(q)) /\ OpOK(t)
      /\ call \in [Threads -> CallType] /\ call[t] \in CallType
  BY DEF EventlinkInv, SignalInv, LifeInv, LifeType
<1>s. PICK s \in Sides : s = call[t].side
  BY <1>0 DEF CallType
<1>1. /\ call[t].pc = "handoff" /\ call' = [call EXCEPT ![t] = [call[t] EXCEPT !.pc = "blocked", !.hand = None]]
      /\ sync' = sync /\ wait' = wait /\ assoc' = assoc /\ waitq' = waitq /\ active' = active /\ wr' = wr /\ misled' = misled
      /\ refs' = refs /\ port' = port /\ right' = right /\ failed' = failed
  BY <1>0 DEF Handoff, link
<1>2. [call[t] EXCEPT !.pc = "blocked", !.hand = None] \in CallType
  BY <1>0 DEF CallType, Waiting
<1>3. /\ call' \in [Threads -> CallType] /\ (\A u \in Threads : u # t => call'[u] = call[u])
      /\ call'[t] = [call[t] EXCEPT !.pc = "blocked", !.hand = None]
  BY <1>0, <1>1, <1>2
<1>4. /\ call'[t].pc = "blocked" /\ call'[t].op = call[t].op /\ call'[t].side = s
      /\ call'[t].arg = call[t].arg /\ call[t].op \in Waits
  BY <1>0, <1>1, <1>s, <1>3 DEF CallType, OpOK, Waiting
<1>5. LifeInv'
  <2>1. NeutralLife(t)
    BY <1>1, <1>3, <1>4, <1>s DEF NeutralLife, Waits, Waiting
  <2> QED BY <2>1, NeutralLifeInv DEF EventlinkInv
<1>6. SignalType'
  BY <1>0, <1>1 DEF SignalType
<1>7. QueueStep(t)
  <2>1. ASSUME NEW q \in Sides PROVE sync[q] <= sync'[q]
    BY <1>0, <1>1 DEF SignalType
  <2>2. ASSUME NEW q \in Sides
        PROVE  \/ q \in misled'
               \/ waitq'[q] = <<>>
               \/ OnQueue(t, q)'
               \/ /\ waitq[q] # <<t>> /\ waitq'[q] = waitq[q] /\ wait'[q] = wait[q]
                  /\ assoc'[q] = assoc[q] /\ active' = active /\ sync'[q] <= wait[q]
    <3>1. CASE waitq[q] = <<>> \/ q \in misled
      BY <1>1, <3>1
    <3>2. CASE OnQueue(t, q)
      BY <1>1, <1>4, <1>s, <3>2 DEF OnQueue, Asleep, Waiting
    <3>3. ASSUME NEW u \in Threads, u # t, OnQueue(u, q) PROVE waitq[q] # <<t>> /\ sync[q] <= wait[q]
      BY <3>3, QueueMembers DEF OnQueue
    <3> QED BY <1>0, <1>1, <3>1, <3>2, <3>3 DEF QueueOK
  <2>3. ASSUME NEW q \in Sides, NEW u \in Range(waitq'[q])
        PROVE  \/ u = t /\ Asleep(t, q)'
               \/ /\ u # t /\ u \in Range(waitq[q]) /\ wr'[u] = wr[u]
                  /\ assoc'[q] = assoc[q] /\ active' = active
    <3>1. u \in Range(waitq[q]) /\ Asleep(u, q)
      BY <1>0, <1>1, <2>3 DEF QueueOK
    <3>2. CASE u = t
      BY <1>1, <1>4, <1>s, <3>1, <3>2 DEF Asleep, Waiting
    <3> QED BY <1>1, <3>1, <3>2
  <2>4. \A q \in Sides : IsInjective(waitq'[q])
    BY <1>0, <1>1 DEF QueueOK
  <2> QED BY <1>1, <1>3, <1>6, <2>1, <2>2, <2>3, <2>4 DEF QueueStep
<1>8. WaitOK(t)'
  BY <1>0, <1>1, <1>4, <1>s DEF WaitOK, Waiting
<1>9. \A q \in Sides : SyncOK(q)'
  BY <1>1, <1>3, <1>4, SyncKept, PendingShrinks
<1> QED BY <1>5, <1>7, <1>8, <1>9, SignalParts DEF EventlinkInv

\* A wait that times out or is aborted takes its thread off the queue.
LEMMA WaitEndsInv == ASSUME EventlinkInv, NEW t \in Threads, WaitEnds(t) PROVE EventlinkInv'
<1> USE EventlinkAssumption
<1>0. /\ SignalType /\ WaitOK(t) /\ (\A q \in Sides : QueueOK(q)) /\ OpOK(t)
      /\ call \in [Threads -> CallType] /\ call[t] \in CallType
  BY DEF EventlinkInv, SignalInv, LifeInv, LifeType
<1>s. PICK s \in Sides : s = call[t].side
  BY <1>0 DEF CallType
<1>1. /\ call[t].pc \in Waiting /\ call' = call
      /\ sync' = sync /\ wait' = wait /\ assoc' = assoc /\ active' = active /\ misled' = misled
      /\ refs' = refs /\ port' = port /\ right' = right /\ failed' = failed
  BY DEF WaitEnds, Waiting
<1>2. PICK i \in 1 .. Len(waitq[s]) : waitq[s][i] = t /\ waitq' = [waitq EXCEPT ![s] = RemoveAt(waitq[s], i)]
  BY <1>s DEF WaitEnds
<1>r. PICK result \in {"TIMED_OUT", "INTERRUPTED"} : wr' = [wr EXCEPT ![t] = result]
  BY DEF WaitEnds
<1>3. waitq[s] \in Seq(Threads) /\ IsInjective(waitq[s])
  BY <1>0, QueueThreads DEF QueueOK
<1>4. PICK rest \in Seq(Threads) :
        /\ rest = RemoveAt(waitq[s], i) /\ IsInjective(rest)
        /\ Range(rest) \subseteq Range(waitq[s]) \ {t} /\ (waitq[s] = <<t>> => rest = <<>>)
  BY <1>2, <1>3, RemoveQueue
<1>5. /\ waitq' \in [Sides -> Seq(Threads)] /\ waitq'[s] = rest
      /\ \A q \in Sides : q # s => waitq'[q] = waitq[q]
  BY <1>0, <1>2, <1>4 DEF SignalType
<1>t. t \in Range(waitq[s])
  BY <1>2, <1>3 DEF Range
<1>6. LifeInv'
  BY <1>1, LifeKept DEF EventlinkInv
<1>7. SignalType'
  <2>2. wr' \in [Threads -> WaitResults]
    BY <1>0, <1>r DEF SignalType, WaitResults
  <2> QED BY <1>0, <1>1, <1>5, <2>2 DEF SignalType
<1>8. QueueStep(t)
  <2>1. ASSUME NEW q \in Sides PROVE sync[q] <= sync'[q]
    BY <1>0, <1>1 DEF SignalType
  <2>2. ASSUME NEW q \in Sides
        PROVE  \/ q \in misled'
               \/ waitq'[q] = <<>>
               \/ /\ waitq[q] # <<t>> /\ waitq'[q] = waitq[q] /\ wait'[q] = wait[q]
                  /\ assoc'[q] = assoc[q] /\ active' = active /\ sync'[q] <= wait[q]
    <3>1. CASE q \in misled \/ (waitq[q] = <<>> /\ q # s)
      BY <1>1, <1>5, <3>1
    <3>2. ASSUME NEW u \in Threads, OnQueue(u, q), q = s PROVE waitq'[q] = <<>>
      <4>1. waitq[s] = <<u>>
        BY <3>2 DEF OnQueue
      <4>2. u = t
        BY <1>t, <4>1, QueueMembers
      <4> QED BY <1>4, <1>5, <3>2, <4>1, <4>2
    <3>3. ASSUME NEW u \in Threads, OnQueue(u, q), q # s PROVE waitq[q] # <<t>> /\ sync[q] <= wait[q]
      <4>1. waitq[q] = <<u>> /\ u # t
        BY <1>s, <3>3 DEF OnQueue, Asleep
      <4> QED BY <3>3, <4>1, QueueMembers DEF OnQueue
    <3>4. waitq[s] # <<>>
      BY <1>t, QueueMembers
    <3> QED BY <1>0, <1>1, <1>5, <3>1, <3>2, <3>3, <3>4 DEF QueueOK
  <2>3. \A u \in Threads : u # t => wr'[u] = wr[u]
    BY <1>0, <1>r DEF SignalType
  <2>4. \A q \in Sides : IsInjective(waitq'[q])
    BY <1>0, <1>4, <1>5 DEF QueueOK
  <2>5. ASSUME NEW q \in Sides, NEW u \in Range(waitq'[q])
        PROVE  /\ u # t /\ u \in Range(waitq[q]) /\ wr'[u] = wr[u]
               /\ assoc'[q] = assoc[q] /\ active' = active
    <3>1. u \in Range(waitq[q]) /\ (q = s => u # t)
      BY <1>4, <1>5, <2>5
    <3>2. u \in Threads
      BY <1>0, <3>1, QueueThreads
    <3>3. u # t
      BY <1>t, <3>1, QueueSides
    <3> QED BY <1>1, <2>3, <3>1, <3>2, <3>3
  <2> QED BY <1>1, <1>7, <2>1, <2>2, <2>3, <2>4, <2>5 DEF QueueStep
<1>9. WaitOK(t)'
  <2>1. wr'[t] \in {"TIMED_OUT", "INTERRUPTED"}
    BY <1>0, <1>r DEF SignalType
  <2> QED BY <1>0, <1>1, <2>1 DEF WaitOK, Waiting
<1>10. \A q \in Sides : SyncOK(q)'
  <2>1. \A q \in Sides : Pending(q)' \subseteq Pending(q)
    BY <1>1 DEF Pending
  <2> QED BY <1>1, <2>1, SyncKept
<1> QED BY <1>6, <1>8, <1>9, <1>10, SignalParts DEF EventlinkInv

\* A thread that was woken returns a count its side has passed.
LEMMA WaitReturnInv == ASSUME EventlinkInv, NEW t \in Threads, WaitReturn(t) PROVE EventlinkInv'
<1> USE EventlinkAssumption
<1>0. /\ SignalType /\ WaitOK(t) /\ (\A q \in Sides : QueueOK(q)) /\ OpOK(t)
      /\ call \in [Threads -> CallType] /\ call[t] \in CallType
  BY DEF EventlinkInv, SignalInv, LifeInv, LifeType
<1>s. PICK s \in Sides : s = call[t].side
  BY <1>0 DEF CallType
<1>1. /\ call[t].pc = "blocked" /\ wr[t] # None /\ wr' = [wr EXCEPT ![t] = None]
      /\ sync' = sync /\ wait' = wait /\ assoc' = assoc /\ waitq' = waitq /\ active' = active /\ misled' = misled
      /\ refs' = refs /\ port' = port /\ right' = right /\ failed' = failed
  BY DEF WaitReturn, link
<1>2. call[t].op \in Waits /\ call[t].arg \in 0 .. MAX /\ call[t].arg \in Nat
  BY <1>0, <1>1 DEF OpOK, WaitOK, Waiting
<1>3. PICK kr \in KernReturns, count \in Nat :
        /\ Returns(t, kr, count)
        /\ kr = "SUCCESS" => wr[t] = "AWAKENED" /\ count = (call[t].arg + 1) % (MAX + 1)
  <2>1. CASE wr[t] = "AWAKENED"
    <3>1. Returns(t, "SUCCESS", (call[t].arg + 1) % (MAX + 1))
      BY <2>1 DEF WaitReturn, Returns
    <3>2. "SUCCESS" \in KernReturns /\ (call[t].arg + 1) % (MAX + 1) \in Nat
      BY <1>2 DEF KernReturns
    <3> QED BY <2>1, <3>1, <3>2
  <2>2. CASE wr[t] = "RESTART"
    <3>1. Returns(t, "TERMINATED", 0)
      BY <2>2 DEF WaitReturn, Returns, Finish
    <3> QED BY <3>1 DEF KernReturns
  <2>i. CASE wr[t] = "INTERRUPTED"
    <3>1. Returns(t, "ABORTED", 0)
      BY <2>i DEF WaitReturn, Returns, Finish
    <3> QED BY <3>1 DEF KernReturns
  <2>3. CASE wr[t] \notin {"AWAKENED", "RESTART", "INTERRUPTED"}
    <3>1. Returns(t, "TIMED_OUT", 0)
      BY <2>3 DEF WaitReturn, Returns, Finish
    <3> QED BY <3>1 DEF KernReturns
  <2> QED BY <2>1, <2>2, <2>i, <2>3
<1>4. /\ LifeInv' /\ \A u \in Threads : u # t => call'[u] = call[u]
      /\ call'[t].pc = "leave" /\ call'[t].op = call[t].op /\ call'[t].side = s /\ call'[t].kr = kr
      /\ call'[t].ret = count /\ (count # 0 => call'[t].arg = call[t].arg)
  BY <1>1, <1>2, <1>3, <1>s, ReturnsLife, ReturnsFacts DEF Waits, Waiting
<1>5. SignalType' /\ wr'[t] = None /\ \A u \in Threads : u # t => wr'[u] = wr[u]
  BY <1>0, <1>1 DEF SignalType, WaitResults
<1>6. QueueStep(t)
  BY <1>1, <1>4, <1>5, QueuesKept
<1>7. WaitOK(t)'
  <2>1. ASSUME kr = "SUCCESS", s \notin misled PROVE call'[t].arg = call[t].arg /\ call[t].arg < count /\ count <= sync[s]
    <3>1. call[t].arg < sync[s] /\ sync[s] \in Nat
      BY <1>0, <1>3, <1>s, <2>1 DEF WaitOK, SignalType
    <3>2. sync[s] <= MaxSync
      BY SyncBound
    <3>3. count = call[t].arg + 1
      <4>1. \A n \in Nat : n + 1 < MAX + 1 => (n + 1) % (MAX + 1) = n + 1
        OBVIOUS
      <4>2. call[t].arg + 1 < MAX + 1
        BY <1>2, <3>1, <3>2
      <4> QED BY <1>2, <1>3, <2>1, <4>1, <4>2
    <3> QED BY <1>2, <1>4, <3>1, <3>3
  <2> QED BY <1>1, <1>2, <1>4, <1>5, <2>1 DEF WaitOK, Waiting
<1>8. \A q \in Sides : SyncOK(q)'
  BY <1>1, <1>4, SyncKept, PendingShrinks
<1> QED BY <1>4, <1>6, <1>7, <1>8, SignalParts DEF EventlinkInv

\* A call enters, and a signal only where there is room for it.
LEMMA EnterInv ==
    ASSUME EventlinkInv, NEW t \in Threads, NEW op, NEW x, NEW arg, Enter(t, op, x, arg)
    PROVE  EventlinkInv'
<1> USE EventlinkAssumption
<1>0. SignalType /\ WaitOK(t) /\ call \in [Threads -> CallType]
  BY DEF EventlinkInv, SignalInv, LifeInv, LifeType
<1>1. LifeInv'
  BY EnterLife DEF EventlinkInv
<1>2. /\ <<op, x, arg>> \in Calls[t] /\ call[t] = Idle
      /\ op \in Signals => sync[Remote(x)] + SignalsUnderway(x) < MaxSync
      /\ sync' = sync /\ wait' = wait /\ assoc' = assoc /\ waitq' = waitq /\ active' = active /\ wr' = wr /\ misled' = misled
      /\ call' = [call EXCEPT ![t] = [Idle EXCEPT !.pc = "in", !.op = op, !.side = x, !.arg = arg]]
  BY DEF Enter, link
<1>3. /\ x \in Sides
      /\ op \in Waits => arg \in 0 .. MAX
      /\ op = "associate" => arg \in Threads \cup {WILD}
  BY <1>2
<1>4. /\ call'[t] = [Idle EXCEPT !.pc = "in", !.op = op, !.side = x, !.arg = arg]
      /\ \A u \in Threads : u # t => call'[u] = call[u]
  BY <1>0, <1>2
<1>5. call'[t].pc = "in" /\ call'[t].op = op /\ call'[t].side = x /\ call'[t].arg = arg
  BY <1>4 DEF Idle
<1>6. call[t].pc = "idle" /\ wr[t] = None
  <2>1. call[t].pc = "idle"
    BY <1>2 DEF Idle
  <2> QED BY <1>0, <2>1 DEF WaitOK, Waiting
<1>7. SignalType'
  BY <1>0, <1>2 DEF SignalType
<1>8. QueueStep(t)
  BY <1>2, <1>4, <1>6, <1>7, QueuesKept DEF Waiting
<1>9. WaitOK(t)'
  BY <1>2, <1>3, <1>5, <1>6 DEF WaitOK, Waiting
<1>10. ASSUME NEW q \in Sides PROVE SyncOK(q)'
  <2>1. CASE op \notin Signals \/ q # x
    <3>1. Pending(q)' \subseteq Pending(q)
      BY <1>4, <1>5, <2>1 DEF Pending
    <3> QED BY <1>2, <3>1, SyncKept
  <2>2. CASE op \in Signals /\ q = x
    <3> DEFINE Under == { u \in Threads : call[u].op \in Signals /\ call[u].side = x }
    <3>1. IsFiniteSet(Under) /\ Cardinality(Under) \in Nat
      <4>1. Under \subseteq Threads
        OBVIOUS
      <4> QED BY <4>1, FS_Subset, FS_CardinalityType
    <3>2. Pending(x) \subseteq Under
      BY DEF Pending
    <3>3. Cardinality(Pending(x)) <= Cardinality(Under)
      BY <3>1, <3>2, FS_Subset
    <3>4. Pending(x)' = Pending(x) \cup {t} /\ t \notin Pending(x)
      <4>1. t \notin Pending(x) /\ Pending(x) \subseteq Threads
        BY <1>6 DEF Pending
      <4>2. \A u \in Threads : u # t => (u \in Pending(x)' <=> u \in Pending(x))
        BY <1>4 DEF Pending
      <4>3. t \in Pending(x)' /\ Pending(x)' \subseteq Threads
        BY <1>5, <2>2 DEF Pending
      <4> QED BY <4>1, <4>2, <4>3
    <3>5. PICK m \in Nat : m = Cardinality(Pending(x)') /\ m = Cardinality(Pending(x)) + 1
      <4>1. Cardinality(Pending(x) \cup {t}) = Cardinality(Pending(x)) + 1 /\ Cardinality(Pending(x)) \in Nat
        BY <3>4, PendingFinite, FS_AddElement
      <4> QED BY <3>4, <4>1
    <3>6. sync[Remote(x)] \in Nat /\ sync[Remote(x)] + Cardinality(Under) < MaxSync
      BY <1>0, <1>2, <1>3, <2>2, RemoteSide DEF SignalType, SignalsUnderway
    <3> HIDE DEF Under
    <3>7. sync[Remote(x)] + m <= MaxSync
      BY <3>1, <3>3, <3>5, <3>6, PendingFinite
    <3> QED BY <1>2, <2>2, <3>5, <3>7 DEF SyncOK
  <2> QED BY <2>1, <2>2
<1> QED BY <1>1, <1>8, <1>9, <1>10, SignalParts DEF EventlinkInv

-----------------------------------------------------------------------------
(* The steps that leave the counters alone *)

\* ipc_kobject_dealloc_port.
LEMMA DeallocPortInv == ASSUME EventlinkInv, NEW t \in Threads, DeallocPort(t) PROVE EventlinkInv'
<1> USE EventlinkAssumption
<1>0. OpOK(t) /\ call \in [Threads -> CallType] /\ call[t] \in CallType
  BY DEF EventlinkInv, LifeInv, LifeType
<1>1. LifeInv'
  BY DeallocPortLife DEF EventlinkInv
<1>2. sync' = sync /\ wait' = wait /\ assoc' = assoc /\ waitq' = waitq /\ active' = active /\ wr' = wr /\ misled' = misled
  BY DEF DeallocPort, link
<1>3. /\ call[t].pc \in {"deallocLocal", "deallocPort"} /\ (\A u \in Threads : u # t => call'[u] = call[u])
      /\ call'[t].pc \in {"disable", "idle"} \/ (call'[t].pc = "leave" /\ call'[t].op = "no_senders")
  <2>1. PICK c : /\ call' = [call EXCEPT ![t] = c]
                 /\ \/ c = [call[t] EXCEPT !.pc = "disable"]
                    \/ c = [call[t] EXCEPT !.pc = "leave"] /\ call[t].op = "no_senders"
                    \/ c = Idle
    BY DEF DeallocPort
  <2>2. call'[t] = c /\ \A u \in Threads : u # t => call'[u] = call[u]
    BY <1>0, <2>1
  <2>3. c.pc \in {"disable", "idle"} \/ (c.pc = "leave" /\ c.op = "no_senders")
    <3>1. CASE c = Idle
      BY <3>1 DEF Idle
    <3>2. CASE c = [call[t] EXCEPT !.pc = "disable"]
      BY <1>0, <3>2 DEF CallType
    <3>3. CASE c = [call[t] EXCEPT !.pc = "leave"] /\ call[t].op = "no_senders"
      BY <1>0, <3>3 DEF CallType
    <3> QED BY <2>1, <3>1, <3>2, <3>3
  <2> QED BY <2>2, <2>3 DEF DeallocPort
<1>4. QuietStep(t)
  BY <1>2, <1>3 DEF QuietStep, Waiting, Waits
<1> QED BY <1>1, <1>4, QuietSignal DEF EventlinkInv

\* ipc_kobject_disable.
LEMMA DisableRemoteInv == ASSUME EventlinkInv, NEW t \in Threads, DisableRemote(t) PROVE EventlinkInv'
<1> USE EventlinkAssumption
<1>0. OpOK(t) /\ call \in [Threads -> CallType] /\ call[t] \in CallType
  BY DEF EventlinkInv, LifeInv, LifeType
<1>1. LifeInv'
  BY DisableRemoteLife DEF EventlinkInv
<1>2. sync' = sync /\ wait' = wait /\ assoc' = assoc /\ waitq' = waitq /\ active' = active /\ wr' = wr /\ misled' = misled
  BY DEF DisableRemote, link
<1>3. /\ call[t].pc = "disable" /\ (\A u \in Threads : u # t => call'[u] = call[u]) /\ call'[t].pc = "drop2"
  BY <1>0 DEF DisableRemote, CallType
<1>4. QuietStep(t)
  BY <1>2, <1>3 DEF QuietStep, Waiting
<1> QED BY <1>1, <1>4, QuietSignal DEF EventlinkInv

\* The references of the ports.
LEMMA DropPortRefInv == ASSUME EventlinkInv, NEW t \in Threads, DropPortRef(t) PROVE EventlinkInv'
<1> USE EventlinkAssumption
<1>0. OpOK(t) /\ call \in [Threads -> CallType] /\ call[t] \in CallType
  BY DEF EventlinkInv, LifeInv, LifeType
<1>1. LifeInv'
  BY DropPortRefLife DEF EventlinkInv
<1>2. sync' = sync /\ wait' = wait /\ assoc' = assoc /\ waitq' = waitq /\ active' = active /\ wr' = wr /\ misled' = misled
  BY DEF DropPortRef, link
<1>3. /\ call[t].pc \in {"drop2", "drop1"} /\ (\A u \in Threads : u # t => call'[u] = call[u])
      /\ call'[t].pc \in {"drop1", "leave"} /\ call'[t].op = call[t].op
  <2>1. PICK pc \in {"drop1", "leave"} : call' = [call EXCEPT ![t].pc = pc]
    BY DEF DropPortRef
  <2> QED BY <1>0, <2>1 DEF DropPortRef, CallType
<1>4. QuietStep(t)
  BY <1>0, <1>2, <1>3 DEF QuietStep, Waiting, Waits, OpOK, Destroying
<1> QED BY <1>1, <1>4, QuietSignal DEF EventlinkInv

\* The reference of a call.
LEMMA LeaveInv == ASSUME EventlinkInv, NEW t \in Threads, Leave(t) PROVE EventlinkInv'
<1> USE EventlinkAssumption
<1>0. OpOK(t) /\ call \in [Threads -> CallType] /\ call[t] \in CallType
  BY DEF EventlinkInv, LifeInv, LifeType
<1>1. LifeInv'
  BY LeaveLife DEF EventlinkInv
<1>2. sync' = sync /\ wait' = wait /\ assoc' = assoc /\ waitq' = waitq /\ active' = active /\ wr' = wr /\ misled' = misled
  BY DEF Leave, link
<1>3. /\ call[t].pc = "leave" /\ (\A u \in Threads : u # t => call'[u] = call[u])
      /\ call'[t].pc \in {"idle", "noSenders"}
  <2>1. PICK c : call' = [call EXCEPT ![t] = c] /\ c.pc \in {"idle", "noSenders"}
    <3>1. PICK s : s = call[t].side
      OBVIOUS
    <3>2. \/ call' = [call EXCEPT ![t] = Idle]
          \/ call' = [call EXCEPT ![t] = [Idle EXCEPT !.pc = "noSenders", !.op = "no_senders", !.side = s]]
      BY <3>1 DEF Leave
    <3>3. Idle.pc = "idle" /\ [Idle EXCEPT !.pc = "noSenders", !.op = "no_senders", !.side = s].pc = "noSenders"
      BY DEF Idle
    <3> QED BY <3>2, <3>3
  <2> QED BY <1>0, <2>1 DEF Leave
<1>4. QuietStep(t)
  BY <1>2, <1>3 DEF QuietStep, Waiting
<1> QED BY <1>1, <1>4, QuietSignal DEF EventlinkInv

\* The no-senders notification.
LEMMA NoSendersInv == ASSUME EventlinkInv, NEW t \in Threads, NoSenders(t) PROVE EventlinkInv'
<1> USE EventlinkAssumption
<1>0. OpOK(t) /\ call \in [Threads -> CallType] /\ call[t] \in CallType
  BY DEF EventlinkInv, LifeInv, LifeType
<1>1. LifeInv'
  BY NoSendersLife DEF EventlinkInv
<1>2. sync' = sync /\ wait' = wait /\ assoc' = assoc /\ waitq' = waitq /\ active' = active /\ wr' = wr /\ misled' = misled
  BY DEF NoSenders, link
<1>3. /\ call[t].pc = "noSenders" /\ call[t].op = "no_senders"
  BY <1>0 DEF NoSenders, OpOK
<1>5. /\ \A u \in Threads : u # t => call'[u] = call[u]
      /\ call'[t].pc \in {"idle", "deallocPort"} \/ (call'[t].pc = "in" /\ call'[t].op = "no_senders")
  <2>1. PICK c : /\ call' = [call EXCEPT ![t] = c]
                 /\ \/ c = Idle
                    \/ c = [call[t] EXCEPT !.pc = "deallocPort", !.op = "none"]
                    \/ c = [call[t] EXCEPT !.pc = "in"]
    BY DEF NoSenders
  <2>2. call'[t] = c /\ \A u \in Threads : u # t => call'[u] = call[u]
    BY <1>0, <2>1
  <2>3. c.pc \in {"idle", "deallocPort"} \/ (c.pc = "in" /\ c.op = "no_senders")
    <3>1. CASE c = Idle
      BY <3>1 DEF Idle
    <3>2. CASE c = [call[t] EXCEPT !.pc = "deallocPort", !.op = "none"]
      BY <1>0, <3>2 DEF CallType
    <3>3. CASE c = [call[t] EXCEPT !.pc = "in"]
      BY <1>0, <1>3, <3>3 DEF CallType
    <3> QED BY <2>1, <3>1, <3>2, <3>3
  <2> QED BY <2>2, <2>3
<1>4. QuietStep(t)
  BY <1>2, <1>3, <1>5 DEF QuietStep, Waiting, Waits, Signals
<1> QED BY <1>1, <1>4, QuietSignal DEF EventlinkInv

\* The task's right.
LEMMA DropRightInv ==
    ASSUME EventlinkInv, NEW t \in Threads, NEW s \in Sides, DropRight(t, s) PROVE EventlinkInv'
<1> USE EventlinkAssumption
<1>0. call \in [Threads -> CallType]
  BY DEF EventlinkInv, LifeInv, LifeType
<1>1. LifeInv'
  BY DropRightLife DEF EventlinkInv
<1>2. sync' = sync /\ wait' = wait /\ assoc' = assoc /\ waitq' = waitq /\ active' = active /\ wr' = wr /\ misled' = misled
  BY DEF DropRight, link
<1>3. call[t].pc = "idle"
  BY DEF DropRight, Idle
<1>4. (\A u \in Threads : u # t => call'[u] = call[u]) /\ call'[t].pc \in {"idle", "noSenders"}
  <2>1. CASE call' = call
    BY <1>3, <2>1
  <2>2. CASE call' # call
    <3>1. PICK c : call' = [call EXCEPT ![t] = c] /\ c.pc = "noSenders"
      <4>1. call' = [call EXCEPT ![t] = [Idle EXCEPT !.pc = "noSenders", !.op = "no_senders", !.side = s]]
        BY <2>2 DEF DropRight
      <4>2. [Idle EXCEPT !.pc = "noSenders", !.op = "no_senders", !.side = s].pc = "noSenders"
        BY DEF Idle
      <4> QED BY <4>1, <4>2
    <3> QED BY <1>0, <3>1
  <2> QED BY <2>1, <2>2
<1>5. QuietStep(t)
  BY <1>2, <1>3, <1>4 DEF QuietStep, Waiting
<1> QED BY <1>1, <1>5, QuietSignal DEF EventlinkInv

-----------------------------------------------------------------------------
(* The invariant holds *)

\* The counters of a new eventlink, when every thread is idle.
FreshSignals ==
    /\ sync = [s \in Sides |-> 0] /\ wait = [s \in Sides |-> MAX]
    /\ assoc = [s \in Sides |-> None] /\ waitq = [s \in Sides |-> <<>>]
    /\ \A t \in Threads : call[t] = Idle
    /\ wr = [t \in Threads |-> None] /\ misled = {}

\* They satisfy the invariant.
FreshSignalsAreFine == FreshSignals => SignalInv

\* Nobody waits and no signal is under way.
LEMMA FreshSignal == FreshSignalsAreFine
<1> USE EventlinkAssumption
<1> SUFFICES ASSUME FreshSignals PROVE SignalInv
  BY DEF FreshSignalsAreFine
<1>1. \A t \in Threads : call[t].pc = "idle" /\ wr[t] = None
  BY DEF FreshSignals, Idle
<1>2. SignalType
  <2>1. MAX \in 0 .. MAX /\ <<>> \in Seq(Threads)
    OBVIOUS
  <2> QED BY <2>1 DEF FreshSignals, SignalType, WaitResults
<1>3. \A q \in Sides : QueueOK(q)
  <2>1. \A q \in Sides : waitq[q] = <<>>
    BY DEF FreshSignals
  <2> QED BY <2>1, QueueMembers DEF QueueOK
<1>4. \A q \in Sides : SyncOK(q)
  <2> TAKE q \in Sides
  <2>1. Pending(q) = {}
    BY <1>1 DEF Pending
  <2>2. Cardinality(Pending(q)) = 0
    BY <2>1, FS_EmptySet
  <2>3. sync[Remote(q)] = 0
    BY RemoteSide DEF FreshSignals
  <2> QED BY <2>2, <2>3 DEF SyncOK
<1>5. \A t \in Threads : WaitOK(t)
  BY <1>1 DEF WaitOK, Waiting
<1> QED BY <1>2, <1>3, <1>4, <1>5 DEF SignalInv

\* ... after a step, too.
LEMMA FreshSignalNext == FreshSignalsAreFine'
  BY FreshSignal, PTL

\* mach_eventlink_create starts over.
LEMMA CreateInv == ASSUME EventlinkInv, Create PROVE EventlinkInv'
<1>1. LifeInv'
  BY CreateLife DEF EventlinkInv
<1>2. wr' = [t \in Threads |-> None]
  <2>1. \A t \in Threads : call[t].pc = "idle"
    BY DEF Create, Idle
  <2>2. \A t \in Threads : wr[t] = None
    BY <2>1, EventlinkAssumption DEF EventlinkInv, SignalInv, WaitOK, Waiting
  <2> QED BY <2>2 DEF Create, EventlinkInv, SignalInv, SignalType
<1>3. FreshSignals'
  BY <1>2 DEF Create, FreshSignals
<1> QED BY <1>1, <1>3, FreshSignalNext DEF FreshSignalsAreFine, EventlinkInv

\* The invariant holds at first.
LEMMA InitInv == ASSUME Init PROVE EventlinkInv
<1>1. Fresh
  BY DEF Init, Fresh
<1>2. FreshSignals
  BY DEF Init, FreshSignals
<1> QED BY <1>1, <1>2, FreshLife, FreshSignal DEF FreshIsFine, FreshSignalsAreFine, EventlinkInv

\* Every step keeps it.
LEMMA StepInv == ASSUME EventlinkInv, [Next]_vars PROVE EventlinkInv'
<1>1. CASE Create
  BY <1>1, CreateInv
<1>2. ASSUME NEW t \in Threads, Inside(t) PROVE EventlinkInv'
  BY <1>2, AssociateInv, DisassociateInv, SignalStepInv, WaitRefusedInv, WaitNoBlockInv, WaitBlockInv,
     HandoffInv, WaitReturnInv, DestroyLockedInv, DeallocPortInv, DisableRemoteInv, DropPortRefInv,
     LeaveInv, NoSendersInv DEF Inside
<1>3. ASSUME NEW t \in Threads, WaitEnds(t) PROVE EventlinkInv'
  BY <1>3, WaitEndsInv
<1>4. ASSUME NEW t \in Threads, NEW s \in Sides, DropRight(t, s) PROVE EventlinkInv'
  BY <1>4, DropRightInv
<1>5. ASSUME NEW t \in Threads, NEW c \in Calls[t], Enter(t, c[1], c[2], c[3]) PROVE EventlinkInv'
  BY <1>5, EnterInv
<1>6. CASE UNCHANGED vars
  <2>1. /\ sync' = sync /\ wait' = wait /\ assoc' = assoc /\ waitq' = waitq /\ active' = active /\ wr' = wr /\ misled' = misled
        /\ refs' = refs /\ port' = port /\ right' = right /\ failed' = failed /\ call' = call
    BY <1>6 DEF vars, link
  <2>2. LifeInv'
    BY <2>1, LifeKept DEF EventlinkInv
  <2>3. \A q \in Sides : Pending(q)' = Pending(q)
    BY <2>1 DEF Pending
  <2>4. SignalInv'
    BY <2>1, <2>3 DEF EventlinkInv, SignalInv, SignalType, QueueOK, OnQueue, Asleep, WaitOK, SyncOK
  <2> QED BY <2>2, <2>4 DEF EventlinkInv
<1> QED BY <1>1, <1>2, <1>3, <1>4, <1>5, <1>6 DEF Next

\* Along every behaviour of the eventlink the base is referenced by its ports and its
\* calls, every thread on a queue is asleep in a wait on that side, every signal has
\* room, and a queue holds the one thread its counters say unless a wait for UINT64_MAX
\* was made on its side while that was wild.
THEOREM InvariantHolds == Spec => []EventlinkInv
<1>1. Init => EventlinkInv
  BY InitInv
<1>2. EventlinkInv /\ [Next]_vars => EventlinkInv'
  BY StepInv
<1> QED BY <1>1, <1>2, PTL DEF Spec

\* Every variable keeps its type; in particular no counter passes the bound that
\* Enter keeps for the signals under way.
THEOREM TypeCorrect == Spec => []TypeOK
<1>1. EventlinkInv => TypeOK
  <2> SUFFICES ASSUME EventlinkInv PROVE TypeOK
    OBVIOUS
  <2>0. LifeType /\ SignalType /\ \A q \in Sides : QueueOK(q) /\ SyncOK(q)
    BY DEF EventlinkInv, LifeInv, SignalInv
  <2>1. sync \in [Sides -> 0 .. MaxSync]
    <3>1. ASSUME NEW q \in Sides PROVE sync[q] \in 0 .. MaxSync
      BY <2>0, SyncBound, EventlinkAssumption DEF SignalType
    <3> QED BY <2>0, <3>1 DEF SignalType
  <2>2. \A q \in Sides : Range(waitq[q]) \subseteq Threads /\ IsInjective(waitq[q])
    BY <2>0, QueueThreads DEF QueueOK
  <2>3. \A t \in Threads : call[t].hand \in Threads \cup {None} /\ call[t].side \in Sides
    BY <2>0 DEF LifeType, CallType
  <2> QED BY <2>0, <2>1, <2>2, <2>3 DEF TypeOK, LifeType, SignalType, WaitResults
<1> QED BY <1>1, InvariantHolds, PTL

\* No signal is missed and none is made up, on every side but those on which, while
\* wild, a thread waited for UINT64_MAX; what such a wait does is part of the model.
THEOREM NoSignalIsLost == Spec => []SignalsExact
<1>1. EventlinkInv => SignalsExact
  <2> SUFFICES ASSUME EventlinkInv PROVE SignalsExact
    OBVIOUS
  <2>0. SignalType /\ (\A q \in Sides : QueueOK(q)) /\ \A t \in Threads : WaitOK(t) /\ call[t].side \in Sides
    BY DEF EventlinkInv, SignalInv, LifeInv, LifeType, CallType
  <2>1. ASSUME NEW q \in Sides \ misled, NEW t \in Range(waitq[q])
        PROVE  active /\ assoc[q] \in {t, WILD} /\ sync[q] <= call[t].arg /\ waitq[q] = <<t>>
    <3>1. waitq[q] # <<>>
      BY <2>1, QueueMembers
    <3>2. PICK u \in Threads : OnQueue(u, q)
      BY <2>0, <2>1, <3>1 DEF QueueOK
    <3>3. u = t
      BY <2>1, <3>2, QueueMembers DEF OnQueue
    <3> QED BY <3>2, <3>3 DEF OnQueue, Asleep
  <2>2. ASSUME NEW t \in Threads, call[t].side \notin misled, wr[t] = "AWAKENED" PROVE sync[call[t].side] > call[t].arg
    BY <2>0, <2>2 DEF WaitOK
  <2>3. ASSUME NEW t \in Threads, call[t].side \notin misled,
               call[t].pc = "leave" /\ call[t].op \in Waits /\ call[t].kr = "SUCCESS"
        PROVE  call[t].arg < call[t].ret /\ call[t].ret <= sync[call[t].side]
    BY <2>0, <2>3 DEF WaitOK
  <2> QED BY <2>1, <2>2, <2>3 DEF SignalsExact
<1> QED BY <1>1, InvariantHolds, PTL

\* The base outlives its users, and no assertion of the file fails.
THEOREM BaseIsSafe == Spec => []BaseSafe
<1>1. EventlinkInv => BaseSafe
  <2> SUFFICES ASSUME EventlinkInv PROVE BaseSafe
    OBVIOUS
  <2>1. LifeInv /\ ~failed /\ refs = Cardinality(Holders) + PortRefs
    BY DEF EventlinkInv, LifeInv, RefsOK
  <2>2. \A s \in Sides : port[s] = "live" => refs > 0
    BY <2>1, PortRefsBound, HoldersFinite
  <2> QED BY <2>1, <2>2 DEF BaseSafe
<1> QED BY <1>1, InvariantHolds, PTL
=============================================================================
