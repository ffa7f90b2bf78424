----------------------------- MODULE MpscDaemon -----------------------------
(***************************************************************************)
(* The daemon queues of osfmk/kern/mpsc_queue.c: an MPSC queue with a word *)
(* of state bits, drained by a kernel thread, by a thread call, or, when   *)
(* nested, by the drain of its target queue.                               *)
(*                                                                         *)
(* The queue proper is the FIFO that MpscQueue is shown to implement: an   *)
(* append and a dequeue of a batch take one step.  One action is one       *)
(* access to the state word, to a queue, or to a wait, a wakeup or a       *)
(* thread call.  Memory is sequentially consistent.                        *)
(***************************************************************************)
EXTENDS Naturals, Sequences, SequencesExt

CONSTANTS
    Queues,       \* the daemon queues
    Kinds,        \* what mpd_kind may be for each: functions to "thread", "call", "nested"
                  \* or "unknown", a queue that is not initialized
    Target,       \* mpd_target of the nested ones
    Inactive,     \* queues created with MPSC_DAEMON_INIT_INACTIVE
    BatchQueues,  \* queues with MPSC_QUEUE_OPTION_BATCH
    Cancelable,   \* queues whose owner may cancel them
    QuietCancel,  \* whether owners cancel only when no send is under way
    Elements,     \* what clients enqueue; a nested queue's mpd_chain is the queue itself
    Takes,        \* for each of Kinds, the elements a queue's invoke callback is written for
    Clients,      \* threads that call the interface:
    Senders,      \* those that enqueue
    Owners,       \* those that activate and cancel
    NONE

ASSUME DaemonAssumption ==
    /\ Kinds \subseteq [Queues -> {"thread", "call", "nested", "unknown"}]
    /\ \A k \in Kinds : \A q \in Queues :
          k[q] = "nested" => q \in DOMAIN Target /\ Target[q] \in Queues \ {q}
    /\ Senders \cup Owners \subseteq Clients
    /\ QuietCancel \in BOOLEAN
    /\ Elements \cap Queues = {} /\ Takes \in [Kinds -> [Queues -> SUBSET Elements]]
    /\ NONE \notin Elements \cup Queues \cup {"enqueue", "activate", "cancel"}

VARIABLES
    kind,         \* mpd_kind as initialized
    gone,         \* mpd_kind is UNKNOWN: cancelation has returned to the owner
    state,        \* mpd_state, as the set of its bits
    fifo,         \* mpd_queue
    dpc,          \* the step of the queue's drain
    batch,        \* the elements dequeued and not invoked yet
    drained,      \* this pass has dequeued a batch
    unflushed,    \* elements invoked since the last MPSC_QUEUE_BATCH_END
    waiting,      \* the queue's thread is in assert_wait on the queue
    called,       \* the queue's thread call is entered and has not started
    cwait,        \* the canceling client is in assert_wait on &mpd_state
    ctx,          \* each client's call
    failed,       \* an assertion or panic of mpsc_queue.c has fired
    panicked      \* the system has stopped in the wakeup of a dead thread

drainVars == <<dpc, batch, drained, unflushed>>
vars == <<kind, gone, state, fifo, dpc, batch, drained, unflushed, waiting, called,
          cwait, ctx, failed, panicked>>

StateBits == {"DRAINING", "WAKEUP", "CANCELED", "INACTIVE"}

Xor(a, b) == (a \ b) \cup (b \ a)

\* A client's call: its step, the queue it was made on, and the queue and
\* element it is working on, which move to the target when a nested queue wakes.
Idle == [pc |-> "idle", op |-> NONE, home |-> NONE, q |-> NONE, elm |-> NONE]

-----------------------------------------------------------------------------
\* mpsc_daemon_queue_init_with_thread, _with_thread_call and _with_target; the
\* thread starts in assert_wait.
Init ==
    /\ kind \in Kinds
    /\ gone = [q \in Queues |-> FALSE]
    /\ state = [q \in Queues |-> IF q \in Inactive THEN {"INACTIVE"} ELSE {}]
    /\ fifo = [q \in Queues |-> <<>>]
    /\ dpc = [q \in Queues |-> "idle"]
    /\ batch = [q \in Queues |-> <<>>]
    /\ drained = [q \in Queues |-> FALSE]
    /\ unflushed = [q \in Queues |-> FALSE]
    /\ waiting = [q \in Queues |-> kind[q] = "thread"]
    /\ called = [q \in Queues |-> FALSE]
    /\ cwait = [q \in Queues |-> FALSE]
    /\ ctx = [c \in Clients |-> Idle]
    /\ failed = FALSE
    /\ panicked = FALSE

-----------------------------------------------------------------------------
(* The contract of the interface *)

InBatchOrQueue(e) == \E q \in Queues : e \in ToSet(fifo[q]) \cup ToSet(batch[q])

Sending(c, q) == ctx[c].home = q /\ ctx[c].op \in {"enqueue", "activate"}
Canceling(c, q) == ctx[c].home = q /\ ctx[c].op = "cancel"

\* "Sending objects to the daemon queue after cancelation is undefined."
MaySend(q) == kind[q] # "unknown" /\ ~ gone[q] /\ \A c \in Clients : ~ Canceling(c, q)

\* The invoke handler of a queue that others target takes their chains only.
IsTarget(q) == \E n \in Queues : kind[n] = "nested" /\ Target[n] = q

\* "Calling this function multiple times is undefined"; the owner has seen to it
\* that the queue has been activated and that no nested queue still sends its chain
\* there.  mpsc_queue.h does not ask that the sends under way be over; with
\* QuietCancel the owner sees to that too.
MayCancel(q) ==
    /\ q \in Cancelable
    /\ MaySend(q)
    /\ ~ IsTarget(q)
    /\ "INACTIVE" \notin state[q]
    /\ QuietCancel => \A c \in Clients : ~ Sending(c, q)

-----------------------------------------------------------------------------
(* _mpsc_daemon_queue_enqueue and _mpsc_daemon_queue_wakeup, whose switch    *)
(* panics on a queue that is gone                                          *)

\* mpsc_daemon_enqueue of an element that is on no queue.
EnqueueCall(c, q, e) ==
    /\ ctx[c] = Idle
    /\ MaySend(q)
    /\ e \in Takes[kind][q] /\ ~ IsTarget(q)
    /\ ~ InBatchOrQueue(e) /\ \A d \in Clients : ctx[d].elm # e
    /\ ctx' = [ctx EXCEPT ![c] =
                 [pc |-> "append", op |-> "enqueue", home |-> q, q |-> q, elm |-> e]]
    /\ UNCHANGED <<kind, gone, state, fifo, drainVars, waiting, called, cwait, failed>>

\* What a call does after its wakeup or instead of it.
Resume(c) ==
    IF ctx[c].op = "cancel"
    THEN [ctx[c] EXCEPT !.pc = "block", !.q = ctx[c].home, !.elm = NONE]
    ELSE Idle

\* Mutant of AppendChain: the element pointer is lost.
AppendNothing(s, e) == Append(s, NONE)

\* Appending a chain that is on the queue already makes it the last one again
\* and cuts off what followed it.
AppendChain(s, e) ==
    IF e \in ToSet(s) THEN SubSeq(s, 1, CHOOSE i \in 1 .. Len(s) : s[i] = e)
    ELSE Append(s, e)

\* mpsc_queue_append; only the one that found the queue empty goes on.
EnqueueAppend(c) ==
    LET q == ctx[c].q IN
    /\ ctx[c].pc = "append"
    /\ fifo' = [fifo EXCEPT ![q] = AppendChain(@, ctx[c].elm)]
    /\ ctx' = [ctx EXCEPT ![c] =
                 IF fifo[q] = <<>> THEN [@ EXCEPT !.pc = "orwakeup", !.elm = NONE]
                 ELSE Resume(c)]
    /\ UNCHANGED <<kind, gone, state, drainVars, waiting, called, cwait, failed>>

\* Mutant of EnqueueOrWakeup: a wakeup under way is not noticed.
EnqueueAlwaysWakeup(c) ==
    LET q == ctx[c].q  orig == state[q] IN
    /\ ctx[c].pc = "orwakeup"
    /\ state' = [state EXCEPT ![q] = @ \cup {"WAKEUP"}]
    /\ failed' = (failed \/ "CANCELED" \in orig)
    /\ ctx' = [ctx EXCEPT ![c] =
                 IF "INACTIVE" \notin orig THEN [@ EXCEPT !.pc = "wakeup"] ELSE Resume(c)]
    /\ UNCHANGED <<kind, gone, fifo, drainVars, waiting, called, cwait>>

\* os_atomic_or_orig(WAKEUP) and the tests of what was there.
EnqueueOrWakeup(c) ==
    LET q == ctx[c].q  orig == state[q] IN
    /\ ctx[c].pc = "orwakeup"
    /\ state' = [state EXCEPT ![q] = @ \cup {"WAKEUP"}]
    /\ failed' = (failed \/ "CANCELED" \in orig)
    /\ ctx' = [ctx EXCEPT ![c] =
                 IF orig \cap {"DRAINING", "WAKEUP", "INACTIVE"} = {}
                 THEN [@ EXCEPT !.pc = "wakeup"] ELSE Resume(c)]
    /\ UNCHANGED <<kind, gone, fifo, drainVars, waiting, called, cwait>>

\* _mpsc_queue_thread_wakeup: wakes the thread if it waits on the queue ...
WakeupThread(c) ==
    LET q == ctx[c].q IN
    /\ ctx[c].pc = "wakeup" /\ kind[q] = "thread"
    /\ failed' = (failed \/ gone[q])
    /\ waiting' = [waiting EXCEPT ![q] = FALSE]
    /\ ctx' = [ctx EXCEPT ![c] = Resume(c)]
    /\ UNCHANGED <<kind, gone, state, fifo, drainVars, called, cwait>>

\* ... but the queue holds no reference on mpd_thread.  When the thread has
\* terminated, the wakeup is one of a thread that does not wait, as above, or the
\* wait queue's assertion on the thread fires, or the memory is no thread any more.
WakeupDead(c) ==
    LET q == ctx[c].q IN
    /\ ctx[c].pc = "wakeup" /\ kind[q] = "thread" /\ dpc[q] = "terminated"
    /\ ~ panicked /\ panicked' = TRUE
    /\ UNCHANGED <<kind, gone, state, fifo, drainVars, waiting, called, cwait, ctx, failed>>

\* _mpsc_queue_thread_call_wakeup
WakeupCall(c) ==
    LET q == ctx[c].q IN
    /\ ctx[c].pc = "wakeup" /\ kind[q] = "call"
    /\ failed' = (failed \/ gone[q])
    /\ called' = [called EXCEPT ![q] = TRUE]
    /\ ctx' = [ctx EXCEPT ![c] = Resume(c)]
    /\ UNCHANGED <<kind, gone, state, fifo, drainVars, waiting, cwait>>

\* _mpsc_daemon_queue_nested_wakeup: enqueue the chain on the target.
WakeupNested(c) ==
    LET q == ctx[c].q IN
    /\ ctx[c].pc = "wakeup" /\ kind[q] = "nested"
    /\ failed' = (failed \/ gone[q])
    /\ ctx' = [ctx EXCEPT ![c] = [@ EXCEPT !.pc = "append", !.q = Target[q], !.elm = q]]
    /\ UNCHANGED <<kind, gone, state, fifo, drainVars, waiting, called, cwait>>

\* Mutant of Activate: what was sent before is not woken for.
ActivateSilent(c, q) ==
    /\ ctx[c] = Idle
    /\ MaySend(q)
    /\ q \in Inactive
    /\ state' = [state EXCEPT ![q] = @ \ {"INACTIVE"}]
    /\ UNCHANGED <<kind, gone, fifo, drainVars, waiting, called, cwait, ctx, failed>>

\* Mutant of Activate: the second activation of a queue wakes it too.
ActivateAgain(c, q) ==
    LET orig == state[q] IN
    /\ ctx[c] = Idle
    /\ MaySend(q)
    /\ q \in Inactive
    /\ state' = [state EXCEPT ![q] = @ \ {"INACTIVE"}]
    /\ ctx' = [ctx EXCEPT ![c] =
                 IF "WAKEUP" \in orig
                 THEN [pc |-> "wakeup", op |-> "activate", home |-> q, q |-> q, elm |-> NONE]
                 ELSE Idle]
    /\ UNCHANGED <<kind, gone, fifo, drainVars, waiting, called, cwait, failed>>

\* mpsc_daemon_queue_activate
Activate(c, q) ==
    LET orig == state[q] IN
    /\ ctx[c] = Idle
    /\ MaySend(q)
    /\ q \in Inactive
    /\ state' = [state EXCEPT ![q] = @ \ {"INACTIVE"}]
    /\ ctx' = [ctx EXCEPT ![c] =
                 IF {"WAKEUP", "INACTIVE"} \subseteq orig
                 THEN [pc |-> "wakeup", op |-> "activate", home |-> q, q |-> q, elm |-> NONE]
                 ELSE Idle]
    /\ UNCHANGED <<kind, gone, fifo, drainVars, waiting, called, cwait, failed>>

-----------------------------------------------------------------------------
(* mpsc_daemon_queue_cancel_and_wait *)

CancelAssertWait(c, q) ==
    /\ ctx[c] = Idle
    /\ MayCancel(q)
    /\ cwait' = [cwait EXCEPT ![q] = TRUE]
    /\ ctx' = [ctx EXCEPT ![c] =
                 [pc |-> "orcanceled", op |-> "cancel", home |-> q, q |-> q, elm |-> NONE]]
    /\ UNCHANGED <<kind, gone, state, fifo, drainVars, waiting, called, failed>>

\* Mutant of CancelOr: no idle queue is woken, only a nested one needs no wait.
CancelOrIdle(c) ==
    LET q == ctx[c].q  orig == state[q] IN
    /\ ctx[c].pc = "orcanceled"
    /\ state' = [state EXCEPT ![q] = @ \cup {"CANCELED"}]
    /\ failed' = (failed \/ orig \cap {"CANCELED", "INACTIVE"} # {})
    /\ cwait' = [cwait EXCEPT ![q] = @ /\ ~ (kind[q] = "nested" /\ orig = {})]
    /\ ctx' = [ctx EXCEPT ![c] = [@ EXCEPT !.pc = IF orig = {} THEN "block" ELSE "wakeup"]]
    /\ UNCHANGED <<kind, gone, fifo, drainVars, waiting, called>>

\* An idle nested queue has nobody to wait for.
CancelOr(c) ==
    LET q == ctx[c].q  orig == state[q]  alone == kind[q] = "nested" /\ orig = {} IN
    /\ ctx[c].pc = "orcanceled"
    /\ state' = [state EXCEPT ![q] = @ \cup {"CANCELED"}]
    /\ failed' = (failed \/ orig \cap {"CANCELED", "INACTIVE"} # {})
    /\ cwait' = IF alone THEN [cwait EXCEPT ![q] = FALSE] ELSE cwait
    /\ ctx' = [ctx EXCEPT ![c] = [@ EXCEPT !.pc = IF alone THEN "block" ELSE "wakeup"]]
    /\ UNCHANGED <<kind, gone, fifo, drainVars, waiting, called>>

\* Mutant of CancelReturn: the thread call is neither canceled nor waited for.
CancelReturnEarly(c) ==
    LET q == ctx[c].home IN
    /\ ctx[c].pc = "block" /\ ~ cwait[q]
    /\ gone' = [gone EXCEPT ![q] = TRUE]
    /\ ctx' = [ctx EXCEPT ![c] = Idle]
    /\ UNCHANGED <<kind, state, fifo, drainVars, waiting, called, cwait, failed>>

\* Past thread_block: a thread call is canceled, waited for and freed
\* (thread_call_cancel_wait, thread_call_free); mpd_kind becomes UNKNOWN.
CancelReturn(c) ==
    LET q == ctx[c].home IN
    /\ ctx[c].pc = "block" /\ ~ cwait[q]
    /\ kind[q] = "call" => dpc[q] = "idle"
    /\ called' = [called EXCEPT ![q] = FALSE]
    /\ gone' = [gone EXCEPT ![q] = TRUE]
    /\ ctx' = [ctx EXCEPT ![c] = Idle]
    /\ UNCHANGED <<kind, state, fifo, drainVars, waiting, cwait, failed>>

-----------------------------------------------------------------------------
(* _mpsc_daemon_queue_drain *)

\* _mpsc_queue_thread_continue, and the return from thread_block_parameter.
ThreadRun(q) ==
    /\ kind[q] = "thread" /\ dpc[q] = "idle" /\ ~ waiting[q]
    /\ dpc' = [dpc EXCEPT ![q] = "xor"]
    /\ UNCHANGED <<kind, gone, state, fifo, batch, drained, unflushed, waiting, called,
                   cwait, ctx, failed>>

\* _mpsc_queue_thread_call_drain; THREAD_CALL_OPTIONS_ONCE: one run at a time.
ThreadCallRun(q) ==
    /\ kind[q] = "call" /\ dpc[q] = "idle" /\ called[q]
    /\ called' = [called EXCEPT ![q] = FALSE]
    /\ dpc' = [dpc EXCEPT ![q] = "xor"]
    /\ UNCHANGED <<kind, gone, state, fifo, batch, drained, unflushed, waiting,
                   cwait, ctx, failed>>

\* again: sets DRAINING and clears WAKEUP, or sets both for a cancelation.
DrainXor(q) ==
    LET st == Xor(state[q], {"DRAINING", "WAKEUP"}) IN
    /\ dpc[q] = "xor"
    /\ state' = [state EXCEPT ![q] = st]
    /\ failed' = \/ failed
                 \/ "DRAINING" \notin st
                 \/ "WAKEUP" \in st /\ "CANCELED" \notin st
    /\ dpc' = [dpc EXCEPT ![q] = IF "WAKEUP" \in st THEN "clearwakeup" ELSE "dequeue"]
    /\ drained' = [drained EXCEPT ![q] = FALSE]
    /\ UNCHANGED <<kind, gone, fifo, batch, unflushed, waiting, called, cwait, ctx>>

DrainClearWakeup(q) ==
    /\ dpc[q] = "clearwakeup"
    /\ state' = [state EXCEPT ![q] = @ \ {"WAKEUP"}]
    /\ dpc' = [dpc EXCEPT ![q] = "dequeue"]
    /\ UNCHANGED <<kind, gone, fifo, batch, drained, unflushed, waiting, called,
                   cwait, ctx, failed>>

\* The drain of a thread asserts its wait before it gives up DRAINING.
AfterBatches(q) == IF kind[q] = "thread" THEN "assertwait" ELSE "unlock"

\* mpsc_queue_dequeue_batch takes what is queued ...
DrainDequeue(q) ==
    /\ dpc[q] = "dequeue" /\ fifo[q] # <<>>
    /\ batch' = [batch EXCEPT ![q] = fifo[q]]
    /\ fifo' = [fifo EXCEPT ![q] = <<>>]
    /\ drained' = [drained EXCEPT ![q] = TRUE]
    /\ dpc' = [dpc EXCEPT ![q] = "invoke"]
    /\ UNCHANGED <<kind, gone, state, unflushed, waiting, called, cwait, ctx, failed>>

\* Mutant of DrainEmpty: MPSC_QUEUE_BATCH_END is not sent.
DrainEmptyNoFlush(q) ==
    /\ dpc[q] = "dequeue" /\ fifo[q] = <<>>
    /\ dpc' = [dpc EXCEPT ![q] = AfterBatches(q)]
    /\ UNCHANGED <<kind, gone, state, fifo, batch, drained, unflushed, waiting, called,
                   cwait, ctx, failed>>

\* ... until there is nothing.
DrainEmpty(q) ==
    /\ dpc[q] = "dequeue" /\ fifo[q] = <<>>
    /\ dpc' = [dpc EXCEPT ![q] = IF drained[q] /\ q \in BatchQueues THEN "batchend"
                                 ELSE AfterBatches(q)]
    /\ UNCHANGED <<kind, gone, state, fifo, batch, drained, unflushed, waiting, called,
                   cwait, ctx, failed>>

AfterInvoke(q) == IF batch[q] = <<>> THEN "dequeue" ELSE "invoke"

\* invoke(cur, dq) of a client's element, which may be queued again at once.
DrainInvoke(q) ==
    /\ dpc[q] = "invoke" /\ Head(batch[q]) \in Elements
    /\ batch' = [batch EXCEPT ![q] = Tail(@)]
    /\ unflushed' = [unflushed EXCEPT ![q] = q \in BatchQueues]
    /\ dpc' = [dpc EXCEPT ![q] = AfterInvoke(q)']
    /\ UNCHANGED <<kind, gone, state, fifo, drained, waiting, called, cwait, ctx, failed>>

\* mpsc_daemon_queue_nested_invoke: drain the queue whose chain it is.
DrainNested(q) ==
    LET n == Head(batch[q]) IN
    /\ dpc[q] = "invoke" /\ n \in Queues
    /\ batch' = [batch EXCEPT ![q] = Tail(@)]
    /\ dpc' = [dpc EXCEPT ![q] = "nested", ![n] = "xor"]
    /\ UNCHANGED <<kind, gone, state, fifo, drained, unflushed, waiting, called,
                   cwait, ctx, failed>>

\* invoke(MPSC_QUEUE_BATCH_END, dq)
DrainBatchEnd(q) ==
    /\ dpc[q] = "batchend"
    /\ unflushed' = [unflushed EXCEPT ![q] = FALSE]
    /\ dpc' = [dpc EXCEPT ![q] = AfterBatches(q)]
    /\ UNCHANGED <<kind, gone, state, fifo, batch, drained, waiting, called, cwait,
                   ctx, failed>>

DrainAssertWait(q) ==
    /\ dpc[q] = "assertwait"
    /\ waiting' = [waiting EXCEPT ![q] = TRUE]
    /\ dpc' = [dpc EXCEPT ![q] = "unlock"]
    /\ UNCHANGED <<kind, gone, state, fifo, batch, drained, unflushed, called, cwait,
                   ctx, failed>>

\* Where a drain that returns leaves q, and the drain it was invoked from.
Returned(q, last) ==
    IF kind[q] = "nested"
    THEN [dpc EXCEPT ![q] = last, ![Target[q]] = AfterInvoke(Target[q])]
    ELSE [dpc EXCEPT ![q] = last]

\* Mutant of DrainUnlock: a WAKEUP that came meanwhile is not looked at.
DrainUnlockOnce(q) ==
    LET st == state[q] \ {"DRAINING"} IN
    /\ dpc[q] = "unlock"
    /\ state' = [state EXCEPT ![q] = st]
    /\ dpc' = IF "CANCELED" \in st THEN [dpc EXCEPT ![q] = "wakecanceler"]
              ELSE Returned(q, "idle")
    /\ UNCHANGED <<kind, gone, fifo, batch, drained, unflushed, waiting, called, cwait,
                   ctx, failed>>

\* Give up DRAINING; a WAKEUP that came meanwhile starts the drain again.
DrainUnlock(q) ==
    LET st == state[q] \ {"DRAINING"} IN
    /\ dpc[q] = "unlock"
    /\ state' = [state EXCEPT ![q] = st]
    /\ waiting' = [waiting EXCEPT ![q] = @ /\ "WAKEUP" \notin st]
    /\ dpc' = IF "WAKEUP" \in st THEN [dpc EXCEPT ![q] = "xor"]
              ELSE IF "CANCELED" \in st THEN [dpc EXCEPT ![q] = "wakecanceler"]
              ELSE Returned(q, "idle")
    /\ UNCHANGED <<kind, gone, fifo, batch, drained, unflushed, called, cwait, ctx, failed>>

\* thread_wakeup(&dq->mpd_state); the thread of a canceled queue terminates.
DrainWakeCanceler(q) ==
    /\ dpc[q] = "wakecanceler"
    /\ cwait' = [cwait EXCEPT ![q] = FALSE]
    /\ waiting' = [waiting EXCEPT ![q] = FALSE]
    /\ dpc' = Returned(q, IF kind[q] = "thread" THEN "terminated" ELSE "idle")
    /\ UNCHANGED <<kind, gone, state, fifo, batch, drained, unflushed, called, ctx, failed>>

-----------------------------------------------------------------------------
\* Nothing runs after a panic.
Running == ~ panicked /\ UNCHANGED panicked

ClientCall(c) ==
    \E q \in Queues :
        \/ c \in Senders /\ \E e \in Elements : Running /\ EnqueueCall(c, q, e)
        \/ c \in Owners /\ Running /\ Activate(c, q)
        \/ c \in Owners /\ Running /\ CancelAssertWait(c, q)

ClientStep(c) ==
    \/ Running /\ EnqueueAppend(c)
    \/ Running /\ EnqueueOrWakeup(c)
    \/ Running /\ WakeupThread(c)
    \/ Running /\ WakeupCall(c)
    \/ Running /\ WakeupNested(c)
    \/ Running /\ CancelOr(c)
    \/ Running /\ CancelReturn(c)

DrainStep(q) ==
    \/ Running /\ ThreadRun(q)
    \/ Running /\ ThreadCallRun(q)
    \/ Running /\ DrainXor(q)
    \/ Running /\ DrainClearWakeup(q)
    \/ Running /\ DrainDequeue(q)
    \/ Running /\ DrainEmpty(q)
    \/ Running /\ DrainInvoke(q)
    \/ Running /\ DrainNested(q)
    \/ Running /\ DrainBatchEnd(q)
    \/ Running /\ DrainAssertWait(q)
    \/ Running /\ DrainUnlock(q)
    \/ Running /\ DrainWakeCanceler(q)

Next ==
    \/ \E c \in Clients : ClientCall(c) \/ ClientStep(c) \/ WakeupDead(c)
    \/ \E q \in Queues : DrainStep(q)

\* A call once made proceeds (preemption is disabled or the thread is runnable),
\* and a runnable drain is scheduled; nobody has to make a call.
Fairness ==
    /\ \A c \in Clients : WF_vars(ClientStep(c))
    /\ \A q \in Queues : WF_vars(DrainStep(q))

Spec == Init /\ [][Next]_vars /\ Fairness

-----------------------------------------------------------------------------
(* Properties *)

\* The queues, their drains and the clients' calls stay in their types.
TypeOK ==
    /\ kind \in Kinds
    /\ gone \in [Queues -> BOOLEAN]
    /\ state \in [Queues -> SUBSET StateBits]
    /\ \A q \in Queues : fifo[q] \in Seq(Elements \cup Queues)
                      /\ batch[q] \in Seq(Elements \cup Queues)
    /\ dpc \in [Queues -> {"idle", "xor", "clearwakeup", "dequeue", "invoke", "nested",
                           "batchend", "assertwait", "unlock", "wakecanceler",
                           "terminated"}]
    /\ drained \in [Queues -> BOOLEAN]
    /\ unflushed \in [Queues -> BOOLEAN]
    /\ waiting \in [Queues -> BOOLEAN]
    /\ called \in [Queues -> BOOLEAN]
    /\ cwait \in [Queues -> BOOLEAN]
    /\ ctx \in [Clients ->
          [pc : {"idle", "append", "orwakeup", "wakeup", "orcanceled", "block"},
           op : {NONE, "enqueue", "activate", "cancel"},
           home : Queues \cup {NONE}, q : Queues \cup {NONE},
           elm : Elements \cup Queues \cup {NONE}]]
    /\ failed \in BOOLEAN
    /\ panicked \in BOOLEAN

\* Where the queues can panic.  No assertion or panic of mpsc_queue.c fires when no
\* send is under way at a cancelation: each wakeup reaches a drain exactly once, so
\* the drain's atomic xor always finds DRAINING clear, and WAKEUP set unless it was
\* woken to be canceled.  And a dead thread is woken by nobody but the canceler,
\* whose own wakeup may come after the drain that saw CANCELED has terminated.
NoPanic ==
    /\ ~ failed
    /\ panicked => \E c \in Clients : /\ ctx[c].pc = "wakeup" /\ ctx[c].op = "cancel"
                                      /\ dpc[ctx[c].q] = "terminated"

\* The chain of a nested queue is on its target at most once.
ChainQueuedOnce ==
    \A n \in Queues : \A q \in Queues :
        LET all == batch[q] \o fifo[q] IN
        \A i, j \in 1 .. Len(all) : all[i] = n /\ all[j] = n => i = j

\* "Cancels the queue so that the object owning it can be destroyed": once
\* cancelation has returned, everything sent has been invoked and neither a
\* drain, a thread call, a client nor the target's queue refers to it.
NoUseAfterCancel ==
    \A q \in Queues : gone[q] =>
        /\ fifo[q] = <<>> /\ batch[q] = <<>>
        /\ dpc[q] \in {"idle", "terminated"}
        /\ ~ called[q]
        /\ \A t \in Queues : q \notin ToSet(fifo[t]) \cup ToSet(batch[t])
        /\ \A c \in Clients : ctx[c].q # q /\ ctx[c].elm # q

\* Somebody is on the way to make the drain of q run.
WakeComing(q) ==
    \/ \E c \in Clients : ctx[c].pc = "wakeup" /\ ctx[c].q = q
    \/ kind[q] = "thread" /\ dpc[q] = "idle" /\ ~ waiting[q]
    \/ kind[q] = "call" /\ called[q]
    \/ kind[q] = "nested" /\ \/ InBatchOrQueue(q)
                             \/ \E c \in Clients : ctx[c].elm = q

\* No wakeup is lost in the race between an enqueue and the end of a drain:
\* queued elements have a drain that will look again, a wakeup under way, or an
\* enqueuer that is about to see that one is needed.
QueueAttended ==
    \A q \in Queues : fifo[q] # <<>> /\ "INACTIVE" \notin state[q] =>
        \/ WakeComing(q)
        \/ \E c \in Clients : ctx[c].pc = "orwakeup" /\ ctx[c].q = q
        \/ dpc[q] \in {"xor", "clearwakeup", "dequeue", "invoke", "nested"}
        \/ dpc[q] \in {"batchend", "assertwait", "unlock"} /\ "WAKEUP" \in state[q]

\* MPSC_QUEUE_OPTION_BATCH: no element is left without a following
\* MPSC_QUEUE_BATCH_END when the drain gives up the queue.
BatchFlushed ==
    \A q \in Queues : "DRAINING" \notin state[q] => ~ unflushed[q]

\* A queue, and the target that drains it, have been activated.
Active(q) ==
    /\ "INACTIVE" \notin state[q]
    /\ kind[q] = "nested" => "INACTIVE" \notin state[Target[q]]

\* The queues whose drains share a target with that of q.
Siblings(q) == { n \in Queues \ {q} : kind[n] = "nested" /\ kind[q] = "nested" /\ Target[n] = Target[q] }

\* Every element sent to a queue that is active, or becomes so, is invoked, provided
\* that no sibling is fed so fast that its drain, which loops while anything is
\* queued, never returns to their target (and that the system does not panic).
EventuallyInvoked ==
    \A q \in Queues :
        ([]<>(\A n \in Siblings(q) : dpc[n] = "idle")) =>
            \A e \in Elements :
                e \in ToSet(fifo[q]) /\ Active(q)
                    ~> panicked \/ e \notin ToSet(fifo[q]) \cup ToSet(batch[q])

\* A cancelation returns, or panics in its wakeup: the drain it waits for ends and
\* wakes it.
CancelEnds == \A c \in Owners : ctx[c].pc = "orcanceled" ~> panicked \/ ctx[c].pc = "idle"
=============================================================================
