----------------------------- MODULE Eventlink -----------------------------
(***************************************************************************)
(* Mach eventlinks (osfmk/ipc/ipc_eventlink.c): two sides, each with a     *)
(* signal counter that its associated thread waits on.  Both sides share   *)
(* one base object, referenced by its two ports and by every call.         *)
(*                                                                         *)
(* A section under the eventlink lock (the lock of elb_waitq) is one step; *)
(* translating a port, handing off, and each step of a destroy after the   *)
(* unlock are others.  Ports, rights and the wait queue are reduced to     *)
(* what this file uses of them.                                            *)
(***************************************************************************)
EXTENDS Naturals, Sequences, SequencesExt, FiniteSets

CONSTANTS
    Threads,
    Calls,        \* the calls each thread may make: <<operation, side, argument>>
    MaxSync,      \* bound: signals to one side
    MAX,          \* UINT64_MAX: nobody waits
    WILD,         \* THREAD_ASSOCIATE_WILD
    None

\* The calls that end in ipc_eventlink_signal_wait_internal; a poll is a wait with NO_WAIT.
Waits == {"wait", "poll", "signal_wait", "signal_poll"}
NoWaits == {"poll", "signal_poll"}

Sides == {0, 1}

\* What the traps and the MIG routines take.
Operations == Waits \cup {"signal", "associate", "disassociate", "destroy", "drop"}
Arguments == (0 .. MAX) \cup Threads \cup {None, WILD}

ASSUME EventlinkAssumption ==
    /\ MaxSync \in Nat /\ MAX \in Nat /\ MaxSync < MAX
    /\ IsFiniteSet(Threads)
    /\ \A t \in Threads : \A c \in Calls[t] :
         /\ c \in Operations \X Sides \X Arguments
         /\ c[1] \in Waits => c[3] \in 0 .. MAX
         /\ c[1] = "associate" => c[3] \in Threads \cup {WILD}
    /\ None \notin Threads /\ WILD \notin Threads /\ None # WILD
    /\ None \notin {"AWAKENED", "RESTART", "TIMED_OUT", "INTERRUPTED"}

VARIABLES
    sync, wait,   \* el_sync_counter and el_wait_counter of each side
    assoc,        \* el_thread of each side
    waitq,        \* the threads waiting on each side, first come first
    active,       \* waitq_valid: no destroy has got hold of the eventlink
    refs,         \* elb_ref_count; at 0 the base is freed
    port,         \* each side's port: "live", "disabled" (no kobject) or "dead"
    right,        \* whether the task still holds its send right to each port
    call,         \* what each thread is doing
    wr,           \* its wait result, None while it waits
    failed,       \* an assertion or a panic
    misled        \* history: the sides on which, while wild, a thread went to wait for a
                  \* count of MAX, so that the wait counter says that nobody waits

link == <<sync, wait, assoc, waitq, active, misled>>
vars == <<link, refs, port, right, call, wr, failed>>

Remote(s) == 1 - s

Idle == [pc |-> "idle", op |-> "none", side |-> 0, arg |-> None, ret |-> 0,
         kr |-> "SUCCESS", hand |-> None]

\* ipc_eventlink_initialize.
Init ==
    /\ sync = [s \in Sides |-> 0] /\ wait = [s \in Sides |-> MAX]
    /\ assoc = [s \in Sides |-> None] /\ waitq = [s \in Sides |-> <<>>]
    /\ active = TRUE /\ refs = 2
    /\ port = [s \in Sides |-> "live"] /\ right = [s \in Sides |-> TRUE]
    /\ call = [t \in Threads |-> Idle]
    /\ wr = [t \in Threads |-> None]
    /\ failed = FALSE /\ misled = {}

\* mach_eventlink_create, once nothing of the previous one is left.
Create ==
    /\ refs = 0 /\ \A s \in Sides : port[s] = "dead"
    /\ \A t \in Threads : call[t] = Idle
    /\ sync' = [s \in Sides |-> 0] /\ wait' = [s \in Sides |-> MAX]
    /\ assoc' = [s \in Sides |-> None] /\ waitq' = [s \in Sides |-> <<>>]
    /\ active' = TRUE /\ refs' = 2
    /\ port' = [s \in Sides |-> "live"] /\ right' = [s \in Sides |-> TRUE]
    /\ misled' = {}
    /\ UNCHANGED <<call, wr, failed>>

-----------------------------------------------------------------------------
(* Entering: the port is translated and the eventlink referenced *)

\* Calls through MIG, whose message holds a send right of its own.
Messages == {"associate", "disassociate", "destroy"}

Signals == {"signal", "signal_wait", "signal_poll"}

SignalsUnderway(s) ==
    Cardinality({ t \in Threads : call[t].op \in Signals /\ call[t].side = s })

\* convert_port_to_eventlink_locked; a disabled port answers KERN_TERMINATED and
\* changes nothing.  mach_eventlink_destroy consumes the caller's right.
Enter(t, op, s, arg) ==
    /\ <<op, s, arg>> \in Calls[t] /\ op # "drop"
    /\ call[t] = Idle /\ right[s] /\ port[s] = "live"
    /\ op \in Signals => sync[Remote(s)] + SignalsUnderway(s) < MaxSync
    /\ refs' = refs + 1
    /\ right' = IF op = "destroy" THEN [right EXCEPT ![s] = FALSE] ELSE right
    /\ call' = [call EXCEPT ![t] = [Idle EXCEPT !.pc = "in", !.op = op, !.side = s, !.arg = arg]]
    /\ failed' = (failed \/ refs = 0)
    /\ UNCHANGED <<link, port, wr>>

In(t, op) == call[t].pc = "in" /\ call[t].op = op

\* The call is over but for its reference; count is what a successful wait returns.
Return(t, kr, count) == [call[t] EXCEPT !.pc = "leave", !.kr = kr, !.ret = count, !.hand = None,
                                        !.arg = IF count = 0 THEN None ELSE @]

Finish(t, kr) == Return(t, kr, 0)

-----------------------------------------------------------------------------
(* ipc_eventlink_signal_internal_locked *)

\* Mutant of Wakes: the counter only has to reach the count.
WakesEarly(s, waits) == sync[s] + 1 >= waits[s]

\* A signal to s wakes when the counter passes the count of the last wait.
Wakes(s, waits) == sync[s] + 1 > waits[s]

\* The effect of a signal on side s, after a wait has set waits and queues.
SignalLocked(s, waits, queues) ==
    LET hit == Wakes(s, waits)
        woken == IF hit /\ queues[s] # <<>> THEN Head(queues[s]) ELSE None
    IN  /\ sync' = [sync EXCEPT ![s] = @ + 1]
        /\ wait' = IF hit THEN [waits EXCEPT ![s] = MAX] ELSE waits
        /\ waitq' = IF woken # None THEN [queues EXCEPT ![s] = Tail(@)] ELSE queues

\* The thread that signal wakes, None if it wakes none.
Woken(s, waits, queues) ==
    IF Wakes(s, waits) /\ queues[s] # <<>> THEN Head(queues[s]) ELSE None

\* IPC_EVENTLINK_FORCE_WAKEUP on the given sides.
ForceWakeup(sides) ==
    /\ wait' = [s \in Sides |-> IF s \in sides THEN MAX ELSE wait[s]]
    /\ wr' = [t \in Threads |-> IF \E s \in sides : Contains(waitq[s], t) THEN "RESTART" ELSE wr[t]]
    /\ waitq' = [s \in Sides |-> IF s \in sides THEN <<>> ELSE waitq[s]]

-----------------------------------------------------------------------------
(* associate, disassociate, signal *)

\* mach_eventlink_associate.
Associate(t) ==
    LET s == call[t].side IN
    /\ In(t, "associate")
    /\ IF active /\ assoc[s] = None
       THEN assoc' = [assoc EXCEPT ![s] = call[t].arg]
       ELSE UNCHANGED assoc
    /\ call' = [call EXCEPT ![t] = Finish(t, CASE ~active -> "TERMINATED"
                                               [] active /\ assoc[s] # None -> "NAME_EXISTS"
                                               [] OTHER -> "SUCCESS")]
    /\ UNCHANGED <<sync, wait, waitq, active, misled, refs, port, right, wr, failed>>

\* Mutant of Disassociate: the thread that waits is not woken.
DisassociateQuiet(t) ==
    LET s == call[t].side IN
    /\ In(t, "disassociate")
    /\ IF active /\ assoc[s] # None
       THEN assoc' = [assoc EXCEPT ![s] = None]
       ELSE UNCHANGED assoc
    /\ call' = [call EXCEPT ![t] = Finish(t, "SUCCESS")]
    /\ UNCHANGED <<sync, wait, waitq, wr, active, misled, refs, port, right, failed>>

\* mach_eventlink_disassociate.
Disassociate(t) ==
    LET s == call[t].side IN
    /\ In(t, "disassociate")
    /\ IF active /\ assoc[s] # None
       THEN assoc' = [assoc EXCEPT ![s] = None] /\ ForceWakeup({s})
       ELSE UNCHANGED <<assoc, wait, waitq, wr>>
    /\ call' = [call EXCEPT ![t] = Finish(t, CASE ~active -> "TERMINATED"
                                               [] active /\ assoc[s] = None -> "INVALID_ARGUMENT"
                                               [] OTHER -> "SUCCESS")]
    /\ UNCHANGED <<sync, active, misled, refs, port, right, failed>>

\* mach_eventlink_signal_trap, on the remote side.
Signal(t) ==
    LET s == Remote(call[t].side) IN
    /\ In(t, "signal")
    /\ IF active
       THEN /\ SignalLocked(s, wait, waitq)
            /\ wr' = [u \in Threads |-> IF u = Woken(s, wait, waitq) THEN "AWAKENED" ELSE wr[u]]
       ELSE UNCHANGED <<sync, wait, waitq, wr>>
    /\ call' = [call EXCEPT ![t] = Finish(t, IF active THEN "SUCCESS" ELSE "TERMINATED")]
    /\ UNCHANGED <<assoc, active, misled, refs, port, right, failed>>

-----------------------------------------------------------------------------
(* ipc_eventlink_signal_wait_internal *)

InWait(t) == call[t].pc = "in" /\ call[t].op \in Waits

\* The thread may wait: it is the associated one, or the first on a wild side.
MayWait(t, s) ==
    /\ active
    /\ assoc[s] \in {t, WILD}
    /\ assoc[s] = WILD => wait[s] = MAX

\* The early returns.
WaitRefused(t) ==
    LET s == call[t].side IN
    /\ InWait(t) /\ ~MayWait(t, s)
    /\ call' = [call EXCEPT ![t] = Finish(t, IF active THEN "INVALID_ARGUMENT" ELSE "TERMINATED")]
    /\ UNCHANGED <<link, refs, port, right, wr, failed>>

\* What is left to do for a call whose wait is already decided: a plain signal.
WaitAnswered(t, kr) ==
    LET s == call[t].side  r == Remote(s) IN
    /\ call' = [call EXCEPT ![t] = Return(t, kr, IF kr = "SUCCESS" THEN sync[s] ELSE 0)]
    /\ IF call[t].op \in Signals
       THEN /\ SignalLocked(r, wait, waitq)
            /\ wr' = [u \in Threads |-> IF u = Woken(r, wait, waitq) THEN "AWAKENED" ELSE wr[u]]
       ELSE UNCHANGED <<sync, wait, waitq, wr>>
    /\ UNCHANGED <<assoc, active, misled, refs, port, right, failed>>

\* The count is exceeded already, or the caller does not want to block.
WaitNoBlock(t) ==
    LET s == call[t].side IN
    /\ InWait(t) /\ MayWait(t, s)
    /\ \/ call[t].arg < sync[s] /\ WaitAnswered(t, "SUCCESS")
       \/ call[t].arg >= sync[s] /\ call[t].op \in NoWaits /\ WaitAnswered(t, "TIMED_OUT")

\* The thread goes on the wait queue, then signals; whom it wakes it keeps for the
\* handoff.
WaitBlock(t) ==
    LET s == call[t].side  r == Remote(s)
        waits == [wait EXCEPT ![s] = call[t].arg]
        queues == [waitq EXCEPT ![s] = Append(@, t)]
        woken == IF call[t].op = "signal_wait" THEN Woken(r, waits, queues) ELSE None
    IN  /\ InWait(t) /\ call[t].op \notin NoWaits /\ MayWait(t, s) /\ call[t].arg >= sync[s]
        /\ IF call[t].op = "signal_wait"
           THEN SignalLocked(r, waits, queues)
           ELSE wait' = waits /\ waitq' = queues /\ UNCHANGED sync
        /\ call' = [call EXCEPT ![t].pc = IF woken = None THEN "blocked" ELSE "handoff", ![t].hand = woken]
        /\ wr' = [u \in Threads |-> IF u = woken THEN "AWAKENED" ELSE IF u = t THEN None ELSE wr[u]]
        /\ misled' = IF call[t].arg = MAX /\ assoc[s] = WILD THEN misled \cup {s} ELSE misled
        /\ UNCHANGED <<assoc, active, refs, port, right, failed>>

\* thread_handoff_deallocate: the thread kept for the handoff is made runnable.
Handoff(t) ==
    /\ call[t].pc = "handoff"
    /\ call' = [call EXCEPT ![t].pc = "blocked", ![t].hand = None]
    /\ UNCHANGED <<link, refs, port, right, wr, failed>>

\* The deadline passes, or the thread is aborted, while it is on the wait queue.
WaitEnds(t) ==
    LET s == call[t].side IN
    /\ call[t].pc \in {"handoff", "blocked"}
    /\ \E i \in 1 .. Len(waitq[s]) :
         waitq[s][i] = t /\ waitq' = [waitq EXCEPT ![s] = RemoveAt(@, i)]
    /\ \E result \in {"TIMED_OUT", "INTERRUPTED"} : wr' = [wr EXCEPT ![t] = result]
    /\ UNCHANGED <<sync, wait, assoc, active, misled, refs, port, right, call, failed>>

\* The thread runs again, and converts its wait result; the count it adds one to has
\* 64 bits.
WaitReturn(t) ==
    /\ call[t].pc = "blocked" /\ wr[t] # None
    /\ \A u \in Threads : call[u].hand # t
    /\ call' = [call EXCEPT ![t] =
                  CASE wr[t] = "AWAKENED" -> Return(t, "SUCCESS", (call[t].arg + 1) % (MAX + 1))
                    [] wr[t] = "RESTART" -> Finish(t, "TERMINATED")
                    [] wr[t] = "INTERRUPTED" -> Finish(t, "ABORTED")
                    [] OTHER -> Finish(t, "TIMED_OUT")]
    /\ wr' = [wr EXCEPT ![t] = None]
    /\ UNCHANGED <<link, refs, port, right, failed>>

-----------------------------------------------------------------------------
(* destroy, no-senders, and the end of every call *)

\* Mutant of DestroyLocked: a second destroy is not stopped.
DestroyLockedTwice(t) ==
    LET associated == { s \in Sides : assoc[s] # None } IN
    /\ call[t].pc = "in" /\ call[t].op \in {"destroy", "no_senders"}
    /\ ForceWakeup(associated)
    /\ assoc' = [s \in Sides |-> None]
    /\ active' = FALSE
    /\ call' = [call EXCEPT ![t].pc = "deallocLocal"]
    /\ UNCHANGED <<sync, misled, refs, port, right, failed>>

\* ipc_eventlink_destroy_internal under the lock; a no-senders that comes second
\* destroys its port instead.
DestroyLocked(t) ==
    LET associated == { s \in Sides : assoc[s] # None } IN
    /\ call[t].pc = "in" /\ call[t].op \in {"destroy", "no_senders"}
    /\ IF active
       THEN /\ ForceWakeup(associated)
            /\ assoc' = [s \in Sides |-> None]
            /\ active' = FALSE
            /\ call' = [call EXCEPT ![t].pc = "deallocLocal"]
       ELSE /\ call' = [call EXCEPT ![t].pc =
                          IF call[t].op = "no_senders" THEN "deallocPort" ELSE "leave"]
            /\ UNCHANGED <<wait, waitq, wr, assoc, active>>
    /\ UNCHANGED <<sync, misled, refs, port, right, failed>>

\* ipc_kobject_dealloc_port: the port must be active, and dies.
DeallocPort(t) ==
    LET s == call[t].side IN
    /\ call[t].pc \in {"deallocLocal", "deallocPort"}
    /\ failed' = (failed \/ port[s] = "dead")
    /\ port' = [port EXCEPT ![s] = "dead"]
    /\ call' = [call EXCEPT ![t] =
                  CASE call[t].pc = "deallocLocal" -> [@ EXCEPT !.pc = "disable"]
                    [] call[t].pc = "deallocPort" /\ call[t].op = "no_senders" ->
                         [@ EXCEPT !.pc = "leave"]
                    [] OTHER -> Idle]
    /\ UNCHANGED <<link, refs, right, wr>>

\* Mutant of DisableRemote: the remote port keeps its kobject.
DisableRemoteNot(t) ==
    /\ call[t].pc = "disable"
    /\ call' = [call EXCEPT ![t].pc = "drop2"]
    /\ UNCHANGED <<link, refs, port, right, wr, failed>>

\* ipc_kobject_disable: the remote port, dead or not, loses its kobject.
DisableRemote(t) ==
    LET r == Remote(call[t].side) IN
    /\ call[t].pc = "disable"
    /\ port' = IF port[r] = "live" THEN [port EXCEPT ![r] = "disabled"] ELSE port
    /\ call' = [call EXCEPT ![t].pc = "drop2"]
    /\ UNCHANGED <<link, refs, right, wr, failed>>

\* ipc_eventlink_deallocate: the last reference frees an inactive eventlink.
Deallocate == refs' = refs - 1 /\ failed' = (failed \/ refs = 0 \/ (refs = 1 /\ active))

\* Mutant of DropPortRef: only one of the ports' references is given back.
DropPortRefOnce(t) ==
    /\ call[t].pc \in {"drop2", "drop1"}
    /\ Deallocate
    /\ call' = [call EXCEPT ![t].pc = "leave"]
    /\ UNCHANGED <<link, port, right, wr>>

\* "Drop the eventlink reference given to port", twice.
DropPortRef(t) ==
    /\ call[t].pc \in {"drop2", "drop1"}
    /\ Deallocate
    /\ call' = [call EXCEPT ![t].pc = IF @ = "drop2" THEN "drop1" ELSE "leave"]
    /\ UNCHANGED <<link, port, right, wr>>

\* No send right is left to port s once t gives up the one it has.
LastRight(t, s, rights) ==
    /\ ~rights[s]
    /\ \A u \in Threads \ {t} : ~(call[u].op \in Messages /\ call[u].side = s)

\* The call gives its reference back; a message also gives up its send right.
Leave(t) ==
    LET s == call[t].side IN
    /\ call[t].pc = "leave"
    /\ Deallocate
    /\ call' = [call EXCEPT ![t] =
                  IF call[t].op \in Messages /\ LastRight(t, s, right)
                  THEN [Idle EXCEPT !.pc = "noSenders", !.op = "no_senders", !.side = s]
                  ELSE Idle]
    /\ UNCHANGED <<link, port, right, wr>>

\* The task lets go of its send right.
DropRight(t, s) ==
    /\ <<"drop", s, None>> \in Calls[t] /\ call[t] = Idle /\ right[s]
    /\ right' = [right EXCEPT ![s] = FALSE]
    /\ call' = IF LastRight(t, s, right')
               THEN [call EXCEPT ![t] = [Idle EXCEPT !.pc = "noSenders", !.op = "no_senders",
                                                     !.side = s]]
               ELSE call
    /\ UNCHANGED <<link, refs, port, wr, failed>>

\* ipc_eventlink_no_senders, which runs on the thread that dropped the last right.
NoSenders(t) ==
    LET s == call[t].side IN
    /\ call[t].pc = "noSenders"
    /\ \/ /\ port[s] = "dead"
          /\ call' = [call EXCEPT ![t] = Idle] /\ UNCHANGED <<refs, failed>>
       \/ /\ port[s] = "disabled"
          /\ call' = [call EXCEPT ![t] = [@ EXCEPT !.pc = "deallocPort", !.op = "none"]]
          /\ UNCHANGED <<refs, failed>>
       \/ /\ port[s] = "live"
          /\ refs' = refs + 1 /\ failed' = (failed \/ refs = 0)
          /\ call' = [call EXCEPT ![t].pc = "in"]
    /\ UNCHANGED <<link, port, right, wr>>

-----------------------------------------------------------------------------
Inside(t) ==
    \/ Associate(t) \/ Disassociate(t) \/ Signal(t)
    \/ WaitRefused(t) \/ WaitNoBlock(t) \/ WaitBlock(t) \/ Handoff(t) \/ WaitReturn(t)
    \/ DestroyLocked(t) \/ DeallocPort(t) \/ DisableRemote(t) \/ DropPortRef(t)
    \/ Leave(t) \/ NoSenders(t)

Next ==
    \/ Create
    \/ \E t \in Threads :
         \/ Inside(t) \/ WaitEnds(t)
         \/ \E s \in Sides : DropRight(t, s)
         \/ \E c \in Calls[t] : Enter(t, c[1], c[2], c[3])

\* A thread inside a call runs on; nothing makes a caller call, or a deadline pass.
Spec == Init /\ [][Next]_vars /\ \A t \in Threads : WF_vars(Inside(t))

-----------------------------------------------------------------------------
(* Properties *)

\* Every variable keeps its type.
TypeOK ==
    /\ sync \in [Sides -> 0 .. MaxSync] /\ wait \in [Sides -> 0 .. MAX]
    /\ assoc \in [Sides -> Threads \cup {None, WILD}]
    /\ \A s \in Sides : Range(waitq[s]) \subseteq Threads /\ IsInjective(waitq[s])
    /\ active \in BOOLEAN /\ refs \in Nat /\ failed \in BOOLEAN
    /\ port \in [Sides -> {"live", "disabled", "dead"}] /\ right \in [Sides -> BOOLEAN]
    /\ wr \in [Threads -> {None, "AWAKENED", "RESTART", "TIMED_OUT", "INTERRUPTED"}]
    /\ misled \subseteq Sides
    /\ \A t \in Threads : call[t].hand \in Threads \cup {None} /\ call[t].side \in Sides

\* No signal is missed and none is made up: a thread on a wait queue is the only one
\* there, still allowed to wait, and its count is not exceeded; a wait that ends with
\* success returns a count above the one it asked for that the counter has reached.
\* A wait on a wild side for a count of UINT64_MAX, which the traps let pass, breaks
\* all of it: el_wait_counter then says that nobody waits, the next thread waits as
\* well, and the signal meant for it wakes the first, with a count of 0.  The sides
\* where that call was made are excepted, and no others.
SignalsExact ==
    /\ \A s \in Sides \ misled : \A t \in Range(waitq[s]) :
         active /\ assoc[s] \in {t, WILD} /\ sync[s] <= call[t].arg /\ waitq[s] = <<t>>
    /\ \A t \in Threads : call[t].side \notin misled =>
         /\ wr[t] = "AWAKENED" => sync[call[t].side] > call[t].arg
         /\ call[t].pc = "leave" /\ call[t].op \in Waits /\ call[t].kr = "SUCCESS"
            => call[t].arg < call[t].ret /\ call[t].ret <= sync[call[t].side]

\* The calls that hold a reference.
Holders == { t \in Threads : call[t].pc \notin {"idle", "noSenders"} /\ call[t].op # "none" }

\* The references of the ports, which a destroy gives back one by one.
PortRefs ==
    IF active THEN 2
    ELSE 2 * Cardinality({ t \in Threads : call[t].pc \in {"deallocLocal", "disable", "drop2"} })
         + Cardinality({ t \in Threads : call[t].pc = "drop1" })

\* The base outlives its users: the references are those of the ports and of the
\* calls, no port leads to a freed eventlink, and no assertion of the file fails.
BaseSafe ==
    /\ ~failed
    /\ refs = Cardinality(Holders) + PortRefs
    /\ \A s \in Sides : port[s] = "live" => refs > 0

\* A destroyed eventlink is freed, so every thread blocked on it comes back; and a
\* thread that was woken returns, even when its waker only keeps it for a handoff.
EverythingReturns ==
    /\ ~active ~> refs = 0
    /\ \A t \in Threads : wr[t] # None ~> call[t] = Idle
=============================================================================
