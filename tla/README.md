# A TLA+ verification of xnupod

xnupod is a bootable kernel tree: a small boot path of its own (`boot/`,
`security/`, `kernel/`, `include/xnu++/`, `distribution/`) next to an imported
XNU (`osfmk/`, `bsd/`, `iokit/`, `libkern/`, `security/` MAC framework, ...).
The imported part is a few million lines; this project models what is the
repository's own, the path from the Multiboot entry to a running kernel
provider, and the concurrent self-contained parts of the imported kernel, which
almost no test can drive through their races: the multi-producer
single-consumer primitives `mpsc_ring` and `mpsc_queue`, the reference lock
`kern_apfs_reflock`, the epoch synchronization objects of `epoch_sync`, and the
eventlinks of `ipc_eventlink`.

## 1. Inventory

| part | state | operations | hard because |
|---|---|---|---|
| MPSC byte ring, `osfmk/kern/mpsc_ring.[ch]` | one 64-bit word `mr_head_tail`, `mr_writer_holds[]`, the buffer | `mpsc_ring_write` by any CPU; `read_start`, `cursor_advance`, `cursor_commit`, `read_finish`, `read_cancel` by one reader | several writers and a reader without a lock; 32-bit offsets that grow for ever; a write that crosses the end of the buffer |
| MPSC queue, `osfmk/kern/mpsc_queue.[ch]` | `mpqh_head`, `mpqh_tail`, the link in every element | `append`, `append_list`, `dequeue_batch`, `batch_next`, `batch_foreach_safe`, `restore_batch` | an append is two stores and the list is broken between them; the consumer spins for the second one |
| Daemon queues, same files | `mpd_state` (DRAINING, WAKEUP, CANCELED, INACTIVE), the queue, a thread, thread call or target | `mpsc_daemon_enqueue`, `_activate`, `_cancel_and_wait`, the drain | lost wakeups, double wakeups, nesting, cancelation against a drain that is ending |
| Deferred deallocation daemon, same file | one thread queue, nested queues | registration at start-up | several nested queues share the drain of one thread |
| APFS reference lock, `osfmk/kern/kern_apfs_reflock.[ch]` | one 64-bit word: owner, waiters, refcount, four bits | `try_get_ref`, `try_put_ref`, `try_lock`, `unlock`, `wait_for_unlock`, `free`, `destroy`, `init` | a decision to sleep that goes stale; a free that is left to the last waiter |
| Epoch synchronization, `osfmk/kern/epoch_sync.[ch]` | a hash table of backing objects, each with a lock, a reference count, an epoch and a wait queue | `esync_wait`, `esync_wake`, their helpers; the mutex of the self-test | the id of an object is read without its lock; hiding and removing are two steps; a wake may come before the wait |
| Eventlinks, `osfmk/ipc/ipc_eventlink.[ch]` | a base with a lock, a reference count and two sides: thread, sync counter, wait counter | create, associate, disassociate, signal, wait, poll, signal_wait, destroy, no-senders | a signal handed to one thread while another blocks; destruction from both sides |
| Boot entry and platform adapter, `boot/boot_entry.c`, `boot/boot_platform.c` | the callbacks' table, the image, the policy | `boot_entry`, `boot_platform_start`, the callbacks | what happens with a refusal |
| Verifying bootloader, `security/bootloader.c` | the result, the calls of `enter_recovery` | `xnuxx_bootloader_start` | eight early returns; each callback may be NULL or fail |
| Kernel provider, `kernel/kernel.c` (`kernel64.c` for long mode) | `active_provider`, `heap_current`, GDT/IDT/PIC, the terminal, the keyboard state | `provider_init`, `provider_start`, `kernel_panic`, the idle loops, `native_alloc`, terminal, keyboard | one of several steps failing; interrupts against half-loaded tables |
| Clients: `osfmk/kern/telemetry.c`, `test_mpsc_queue.c` | a ring per buffer, a read lock | use the primitives | decide what callers may do |
| Threads, wait queues, thread calls; Mach, BSD, IOKit, libkern, MAC | | | imported XNU, environment of the models |
| Distribution profiles | text | none reads it | its statements are compared with the code |

How they interact.  A daemon queue *contains* an MPSC queue and drives it
through `mpsc_queue_append` (whose result says whether it was empty) and
`mpsc_queue_dequeue_batch`.  A nested daemon queue has a `mpd_chain` which it
enqueues on its target: the target's `invoke` is
`mpsc_daemon_queue_nested_invoke`, which drains it.  Daemon queues call the
wait queue and thread call layers (`assert_wait`, `thread_wakeup_thread`,
`thread_call_enter1`, `thread_call_cancel_wait`).  The ring stands alone; its
clients serialize the readers.  The reference lock sleeps and wakes through the
inheritor interfaces of the turnstiles, epoch objects through a turnstile of
their own, and eventlinks through a wait queue inside the base whose lock is
the eventlink lock.  `boot_entry` calls `boot_platform_start`, which
calls `xnuxx_bootloader_start`, which calls the platform's callbacks, and then
`kernel_main`, which selects and starts a provider.

What makes each of them correct:

- **ring**: the reader sees only bytes completely written, no accepted byte is
  lost or overwritten before it is consumed, and reservations never overlap;
- **queue**: it is a FIFO with batches although its list is broken at times; a
  late link never lands in an element that was given away; every spin ends;
- **daemon**: every element sent is invoked, no assertion of the code fires for
  clients that keep the contract (and wait for the sends under way before they
  cancel), a batch is always closed by `BATCH_END`, and after `cancel_and_wait` nothing refers to the queue;
- **reference lock**: both counters are exact, the count the owner was told
  stays true until it unlocks, no sleeper is forgotten, the memory outlives the
  last waiter and is freed once;
- **epoch objects**: one visible object for an id at most, none leaked, doubled
  or used after its free, no wait that sleeps past the wake meant for it; a
  mutex built on them lets every thread in;
- **eventlinks**: no signal is lost or invented (waits for `UINT64_MAX` on a side
  without a thread of its own apart), the base lives exactly as long
  as somebody refers to it, and every call returns;
- **boot**: the kernel is loaded only after every check, the result names the
  first failure and recovery is told of it once, only a provider whose own init
  succeeded runs, XNU never over the native tables, a halted machine has
  interrupts off, and, where no XNU code is linked, they are enabled only with
  the native tables loaded.

The file `PROJECT.json` lists the hazards behind these at their lines.

## 2. Modules

| module | models | state and actions |
|---|---|---|
| `MpscRing` | `mpsc_ring.c` | `head`, `tail`, `holds`, `buffer` are the fields of the ring; `whead`, `wtail`, `wsize` and `pos`, `limit`, `commitPos` the locals of a writer and the reader's cursor. One action per access to shared memory: `WriteStart` (load), `WriteGiveUp`, `WriteHold`, `WriteCas`, `WriteCasFail`, `WriteCopy`, `WriteCopyLeft` (the two `memcpy`s), `WriteRelease`, `ReadStart`, `ReadScan` (one hold), `CursorAdvance`, `CursorCommit`, `ReadFinish`, `ReadCancel` |
| `MpscRingProofs` | | the theorems about `MpscRing` |
| `MpscFifo` | what `mpsc_queue.h` promises | `queue`, `batch`; append a list, take all, consume one, put back |
| `MpscQueue` | the low-level half of `mpsc_queue.[ch]` | `next` is every `mpqc_next`, `tail` is `mpqh_tail`; the two halves of an append, the four accesses of a dequeue, the iteration, the four accesses of a restore |
| `MpscQueueProofs` | | the theorems about `MpscQueue`, the refinement of `MpscFifo` included |
| `MpscDaemon` | the daemon half of `mpsc_queue.[ch]` | `state` is `mpd_state` as a set of bits, `fifo` the queue as `MpscFifo` describes it, `dpc` the step of the drain, `ctx` each client's call, `waiting`/`called`/`cwait` the wait queue and the thread call; `failed` an assertion or panic of the file, `panicked` a system that stopped in the wakeup of a terminated thread, which `WakeupDead` lets happen beside the harmless `WakeupThread`; `QuietCancel` whether owners wait for sends under way before they cancel |
| `MCMpscDaemon` | | a base queue served by a thread or a thread call, alone, under one nested queue, and under two siblings (the deallocation daemon's configuration) |
| `MpscDaemonProofs` | | the theorems about `MpscDaemon` |
| `Reflock` | `kern_apfs_reflock.c` | `word` is the 64-bit word as a record, `life` the memory, `pc` a thread's step, `observed` what a waiter compares before it sleeps, `held` the references given out, `atLock` what the owner was told; one action per read-modify-write loop, sleep and wakeup |
| `ReflockProofs` | | the theorems about `Reflock` |
| `EpochSync` | `epoch_sync.c` | `obj` holds the backing objects and whether each is in the table, `bucket` is `htb_lock`, `counter` the server's epoch counter, `call` a thread's step in `esync_wait` or `esync_wake`; `epochs` and `seen` are the client's; one action per critical section of the bucket's or the object's lock |
| `EpochSyncProofs` | | the theorems about `EpochSync` |
| `EpochMutex` | the mutex of the self-test in `epoch_sync.c` | extends `EpochSync` with the lock word and the threads' loops; an unlock increments the counter (`Advance`) and enters `esync_wake` (`UnlockWake`) in two steps |
| `EpochMutexProofs` | | the theorems about `EpochMutex`, on top of those about `EpochSync` |
| `Eventlink` | `ipc_eventlink.c` | `sync`, `wait`, `assoc` and `waitq` are the counters, the thread and the waiters of either side, `active` and `refs` the base, `port` and `right` its ports, `call` and `wr` each thread's call and wait result; `misled` is a history of the sides on which, while wild, a thread waited for `UINT64_MAX`; one action per critical section, translation, handoff and dropped reference |
| `EventlinkProofs` | | the theorems about `Eventlink` |
| `MCEpochSync`, `MCEpochMutex`, `MCEventlink` | | their instances |
| `XnuBoot` | `boot_entry.c`, `boot_platform.c`, `bootloader.c`, the control flow of `kernel.c` | `p`, `image`, `policy` are the arguments, `passed` the checks that succeeded, `result`, `recoveries`, `provider`, `inits`, `heap`, `interrupts`; one action per check or step; a linked XNU function may leave the interrupt flag either way (`FlagAfter`) |
| `MCXnuBoot` | | arbitrary platforms and images, and the adapter's own |
| `XnuBootProofs` | | the theorems about `XnuBoot` |

`MpscDaemon` uses the queue as a FIFO, one step per append and per dequeue:
`MpscQueue` is shown to implement that FIFO (`ImplementsFifo`, by a refinement
mapping that follows the links, the pending ones of enqueuers included).

Definitions next to an original and marked "Mutant of ..." are plausible faults
of that code. Each property is checked to fail when the fault replaces the
original; they take no part in a specification.

### Abstractions

- *Bytes.* A byte written to the ring is represented by the offset it was
  written for. A slot therefore shows both unwritten and overwritten data,
  which is all that the properties tell apart.
- *Offsets.* They keep a width (`OffsetSpan`, 2^32 in the code); arithmetic on
  them wraps (`U32`). `HOLD_EMPTY` is the largest offset, as in the code.
- *Memory* is sequentially consistent in all models. `mpsc_ring.c` and
  `mpsc_queue.c` choose relaxed, acquire, release and dependency orders; what a
  weaker machine adds is not covered.
- *Elements and messages* are model values; a nested queue's chain is the queue.
- *Verification.* A digest is a model value compared for equality; a callback is
  the set of answers it may give, the empty set being NULL. The SHA-256 code,
  the console's characters and the descriptor tables' bytes are left out.
- *Sleeping.* A wait queue is a set of threads, an assertion to wait and the
  test before it are one step where the code holds the lock of the queue across
  both, and a deadline or an abort can end any wait at any moment. Priorities
  and what a turnstile pushes are left out.
- *Callers* keep the documented contract: one reader, an element on one queue at
  a time, no send after cancelation, one cancelation, activation
  before it, restore only of linked batches. With `QuietCancel` owners also wait
  until no send is under way before they cancel. `mpsc_queue.h:647` asks less (no
  send *after* cancelation) and `test_mpsc_queue.c:129` does less; section 5 says
  what happens then. For the reference lock, no
  recursive lock, a wait after a try that announced it, no free or destroy of a
  locked object; for the epoch objects, the rules of `epoch_sync.h` (the counter
  is read before the wait is decided, and incremented before the wake).
  `mpsc_daemon_queue_init_with_thread` is taken to succeed.

## 3. Runs

| run | instance | shows |
|---|---|---|
| `ring_ordered` | 2 writers, capacity 4, offsets 0..11, sizes 1..3 | reader sees written data, reservations exclusive, unread bytes intact |
| `ring_stale_hold` | 2 writers, sizes 1, 2, first lap | **violation**, finding 1 |
| `ring_wrap` | 1 writer, size 2, offsets wrap | **violation**, finding 2 |
| `queue` | 3 producers, 3 elements, lists of up to 2 | the pointers implement the FIFO; late links are safe; spins have an enqueuer and end |
| `daemon` | a base queue (thread or thread call, inactive at first, batch option, cancelable) alone, under one nested queue, under two; 2 senders, an owner that cancels with no send under way, 2 elements | no assertion fires and nobody but the canceler wakes a terminated thread, no lost wakeup, complete batches, chains queued once, everything invoked, cancelation returns with nothing left |
| `daemon_cancel_nested` | one nested queue that is canceled, 2 clients | **violation**, finding 3 |
| `reflock` | 3 threads, 3 references, all flags, both kinds of object, reuse | no panic, exact counters, halted refcount, no lost wakeup, no use after free, waits return |
| `epoch` | 3 threads, 2 ids in one bucket, 6 objects, counters to 1 | objects safe, no missed wake |
| `epoch_mutex` | 3 threads, one locks twice | a wake is pending whenever it is needed; everybody gets the lock |
| `eventlink` | 2 waiting threads (one signals and waits or polls, the other waits for `UINT64_MAX` and also signals from the other side) and a controller, counters to 2, `UINT64_MAX` = 5 | exact signals on the sides that no wait for `UINT64_MAX` misled, safe base, every call returns |
| `boot_any` | every callback NULL or free, every fault of the image, a missing policy bit each, four linkages | the verification's order, result, recovery and provider |
| `boot_deny` | the adapter's platform, image and policy | **violation**, finding 4 |

**Bounds.** *Ring*: capacity 4 with sizes to 3 gives writes that fit, that are
refused, that split at the end of the buffer, and two live reservations; twelve
offsets are three rounds of the buffer, so that every slot is reused. Two
writers are enough for one to overtake the other; the theorems remove the
bounds. *Queue*: three producers give a list broken in two places at once,
and three elements let one be requeued while the others are in a batch or
pending. *Daemon*: with two senders and an owner, one client can be between
append and state change, a second between state change and wakeup, and a third
activate or cancel; two siblings with an element each let one starve the other.
*Reference lock*: three threads are an owner, a sleeper and one in between;
three references allow every transition through 0, 1 and 2; the theorems remove
the bounds. *Epoch objects*: two ids in one bucket give an object that is looked
up while it is hidden or replaced; six objects are two for each thread, one it
has allocated and one it uses, so that an allocation never fails (as in the
code); in the mutex run epochs go to 4, one for each of its four unlocks.
*Eventlink*: each thread has the calls listed in `MCEventlink`, chosen so that
signal, handoff, timeout, disassociation and destruction from both sides meet, on
a wild side and on one that belongs to a thread; counters stop at 2, which lets a
wait find its count passed, reached and not reached; `UINT64_MAX` is a number that
no counter reaches, as in the code, and a wait for it wraps to 0 when it adds one. *Boot*: the steps are
sequential, and each argument takes each of the values the code tells apart;
theorems cover the rest. Symmetry is used in `epoch` only, where nothing but
safety is checked.

**Deadlock** is off in `daemon` and `daemon_cancel_nested` (a canceled queue
stops), and in the boot runs (a halted or idle processor does). Everywhere else
it is checked.

**Fairness.** Weak fairness of an enqueuer between the two halves of an append
(the code disables preemption there), of a client in a call it has started, of a
drain that is runnable (a kernel thread or thread call is scheduled, callbacks
return), and of the processor while booting. In `Reflock` a thread inside a call
runs on and an owner unlocks, which the header demands of it; in `EpochMutex`
every test thread runs; in `Eventlink` a thread inside a call runs. Nobody is
made to start a call: neither an append, an activation, a cancelation, a try nor
a signal is fair. No timeout is fair either: a wait that
returns does so because of a wakeup. `EverythingReturns` therefore speaks of
threads that have been woken and of eventlinks that have been destroyed; a thread
nobody signals may wait for ever. No strong fairness is assumed
anywhere. `EventuallyInvoked` has a
condition for a nested queue: the drains of its siblings are idle infinitely
often. It is needed: the loop at `mpsc_queue.c:302` ends only when its queue is
empty, so producers that never pause on one nested queue keep its siblings
waiting.

## 4. Theorems

All proofs are checked by TLAPS, for every value of the constants that meets
the named assumptions.

**`MpscRingProofs`**, from `RingAssumption`: at least one writer; a positive
capacity that divides the number of offsets and is less than half of it;
sizes of at most the span less the capacity, so that `head + size - tail` wraps
at most once (`mpsc_ring_init` asserts a capacity of 2^1 to 2^29 bytes, and
callers write small records; the proofs need less).

- `TypeCorrect`: `Spec => []TypeOK`, wrapping included.
- `ReaderSeesWrittenData`, `WritersExclusive`, `NothingLost`:
  the three safety properties of `ring_ordered` for any number of writers, capacity and
  width, for `OrderedSpec`.
- `SingleWriterOrdered`: with one writer `FirstLapSpec` suffices.

`OrderedSpec` restricts `Spec` in two ways, and both restrictions are needed:
`FirstLap` (the offsets have not reached 2^32 - 1) excludes finding 2, and
`CursorOrdered` (no stale hold has pulled the cursor's limit behind its
position) excludes finding 1. What is proved is thus precisely that these two
are the only ways in which the ring can fail.

The inductive invariant `RingInv` adds to the properties: `SpaceInv` (live bytes
fit), `WriterInv` (a writer's copy of `mr_head_tail` is older than the word by
less than a buffer, and from its hold on it is covered by it), `DisjointInv`,
`ReaderInv` (`tail <= commitPos <= pos <= limit <= head`, and the limit is not
past the reservation of any writer *already scanned*: a writer that reserves
behind the scan starts at `head`, beyond the limit, which is why a scan of the
holds that is not atomic is sound), and `CopyLeftInv` (the first half of a split write). `UnreadIntact` is
one of its conjuncts; that distinct live offsets have distinct slots
(`SlotInjective`) is derived from division facts proved at the start.
For one writer, `SoloInv` shows that its hold is never behind `tail`.

**`XnuBootProofs`**, from `BootAssumption` (the arguments have their C types and
a failure is neither a digest nor a number): `TypeCorrect`, `HandoffAlwaysVerified`,
`ResultAlwaysExplains`, `ProviderAlwaysCoherent`. The last one takes the linked XNU
functions as free to change the interrupt flag: what it says of the flag is that a
halted machine has it off, and, where no XNU function is linked, that it is off
until the native loop runs with the native tables loaded. The invariant `BootInv` adds
what a passed check means (`PassedMeans`), that `passed` is exactly the steps
before the present one (`Progress`) and which provider states go with which
steps (`ProviderStage`).

**`ReflockProofs`**, from `ReflockAssumption` (finitely many threads and
references, no more of them than the two limits of the code): `TypeCorrect`,
`NeverPanics`, `WakeupNeverLost`, `MemorySafe`, `CountersAlwaysExact` and
`RefcountStaysHalted`, all the safety properties of the run `reflock`. None of
them is inductive alone: that a counter does not go below zero (typing, and
`NoPanic`) needs the counters to be exact, and that the last waiter finds a quiet
word needs to know how the bits go together. `IInv` is their conjunction with
three parts: `WordInv` (the wake bit and ALLOW_FORCE only with an owner, a delayed
free only without one, no waiters counted on an embedded object), `WaitInv` (a
thread that has decided to sleep saw an owner and the wake bit, so that the
comparison before it sleeps establishes `NoLostWakeup`) and `LifeInv` (outside
the life of an object nobody waits or frees; a thread about to free it is alone and
the waiter count is 0). `SucceededInv`, `FailedTryInv` and `LeaveInv` are the three
lemmas the calls share: a try that succeeds, one that fails, and a waiter that
leaves.

**`MpscQueueProofs`**, from `QueueAssumption` (finitely many elements; the three
special pointers are distinct and no elements): `TypeCorrect`,
`LateLinksAreSafe`, `WaitsHaveEnqueuers`, and `Refinement`:
`Spec => ImplementsFifo`, the queue of pointers is the FIFO of `MpscFifo` for
any number of producers and lists of any length. The list cannot be read off the
links while an append is half done, so `QueueInv` says that there *is* a
numbering `L` of elements with three marks, `lo + 1 .. mid` the batch in the
consumer's hands and `mid + 1 .. hi` the queue, such that each number is followed
by the next one through its link or through the store a producer is about to
make (`ListRep`, `LinkRep`), and that the head, the tail and the consumer's
variables stand at the marks (`HeadRep`, `ConsumerRep`). Every append extends
`L`, every dequeue moves a mark; `Base` (types, `LateLinkSafe`, `LinkTyped`) says
that a producer's pending store has a place to go that is its own. The refinement
mapping follows the links by a recursive function; that it returns the segment of
`L` between two marks is shown by induction on the length of the segment.

**`MpscDaemonProofs`**, from `DaemonAssumption` (the kinds are those of the code,
a nested queue has another queue as target, elements are not queues) and for
owners that cancel no nested queue (finding 3 is what happens when they do) and
none with a send under way (`CarefulOwners`): `TypeCorrect`, `NeverPanics`, `CancelIsSafe`, `WakeupNeverLost`,
`BatchesComplete` and `ChainsOnce`, all the safety properties of the run `daemon`
for any number of queues, however nested, of clients and of elements. The
argument follows the *wakeup* of a queue. It is created by the client that finds
none of DRAINING, WAKEUP and INACTIVE, or that activates a queue with WAKEUP set;
it is carried by that client (`Carries`), passes to the thread, the thread call or the
chain on the target (`Summoned`) and is taken by the drain's xor. `TokenOK` says
that there is at most one, and only for an idle queue with WAKEUP set, which is
why the xor finds what it asserts; `TokenThere` that there is one if WAKEUP is set
and nobody drains; `LookedAfter` that whatever is queued has WAKEUP set, an
enqueuer about to set it, or a drain that has still to look. `CanceledOK` says
what may be left when the canceler is let go: nothing, because a drain that gives
up a canceled queue without a WAKEUP finds it empty (`LookedAfter` again, and no
sender is left). `NestOK` says that a nested drain runs inside its target's, one at
a time, `ChainOK` that a queue holds the chains of its own nested queues once
each, `DrainOK` how the state word goes with the drain's step, and `CtxOK` what a
client in a call knows. `NeverPanics` rests on one more fact: a thread terminates
only on a canceled queue, to which nobody sends any more, so that whoever is
still about to wake it is its canceler (`DeadWoken`). That wakeup may stop the
system, and the theorem says that no other can.

**`EpochSyncProofs`**, from `EpochAssumption` (finitely many threads; two objects
for each thread, so that an allocation succeeds as it does in the code):
`TypeCorrect`, `ObjectsAreSafe`, `NoWakeIsMissed`. That two objects for each
thread suffice is itself a lemma, by counting. `KernelInv` says what a call knows at
each step (`CallOK`, `SyncOK`): the object it found is in the table while it holds
the bucket or a reference, carries its id from the moment `es_lock` is taken, and
has lost its id and all other users when it is removed; `ObjectOK` that the
reference count is one more than the number of users and that an object outside
the table is owned by its allocator; `OneObjectPerId` only makes sense for
objects that have an id, since a hidden one stays in the table until it is removed.
`HandledOK` bounds the wakes that have been performed by the server's counter, which a late
waiter compares with. Nothing in `KernelInv` is about the clients, so that it
can be used again:

**`EpochMutexProofs`**, from these and `MutexAssumption`: `LockExcludes`,
`NobodyIsForgotten` (`WakePending`), `MutexObjectsAreSafe`. `MutexInv` adds to
`KernelInv` what each thread knows at its place (`ThreadOK`), that the waiter
count is the number of threads between its increment and its decrement
(`CountOK`), that for a thread which has set the waiter bit and not blocked yet
the bit is still there (in the word, or in the copy of an unlock that has yet to
wake) or its epoch is already passed, so that it will not sleep (`NotStale`), and the heart of the matter,
`SomebodyComes`: while a thread sleeps, the bit is there, or another thread is on its
way that will wake or will set the bit again. A thread that has advanced the counter
and not yet entered `esync_wake` is on its way too: `Coming` is the server's counter
with the epochs those threads are about to bring it.

**`EventlinkProofs`**, from `EventlinkAssumption` (finitely many threads whose
calls have the C types, wait counts up to `UINT64_MAX` included; signal counters
stay below it): `TypeCorrect`, `NoSignalIsLost`
(`SignalsExact`), `BaseIsSafe` (`BaseSafe`). `EventlinkInv` has two halves. `LifeInv` is about the
base: its reference count is exactly the number of ports and of calls that
hold one (`RefsOK`), a port is live only while its base is (`LivePorts`), and
each step of a destroy or of a no-senders notification knows which of these it still
owns (`OpOK`, `NoSenderOK`, `PortOK`). `SignalInv` is about the counters:
the threads on a queue are distinct and in a wait on that side (`Asleep`), and,
unless the side is in `misled`, there is one at most, which may wait on that
side, and whose count is the side's wait counter and not passed yet
(`OnQueue`, `QueueOK`); a woken thread carries the reason in its result, and that reason is
true (`WaitOK`). Neither half is inductive without that last part: what a wait
returns is decided by the signaler, before the waiter runs.

**Only model-checked**: liveness (`DequeueEnds`, `RestoreEnds`,
`EventuallyInvoked`, `CancelEnds`, `WaitReturns`, `AllFinish`,
`EverythingReturns`, `BootSettles`), because the prover has neither fairness nor
`ENABLED`. Every safety property that a passing run checks is also a theorem. The four
runs that find a violation are counterexamples and have nothing to prove.

## 5. Findings

1. **A stale hold exposes unwritten bytes** (`mpsc_ring.c:288`). A writer loads
   `mr_head_tail`, is delayed, and then stores the hold for what it loaded. If
   meanwhile another writer's data was written and consumed, that hold is older
   than `tail`; `mpsc_ring_read_start` takes it as limit and `limit - pos` is a
   huge `uint32_t`. The compare-exchange fails later, but the reader has seen
   the hold by then.
2. **`MIN` on wrapped offsets** (`mpsc_ring.c:318`). With a hold just below 2^32
   and `head` beyond it, the reader's limit is `head` and passes the reservation.
3. **Canceling a nested queue** (`mpsc_queue.c:434`) that has a wakeup pending
   enqueues its chain on the target once more, and can return while the target
   still has it.
4. **A refused image boots** (`boot_platform.c:293`): the result of the
   verification is dropped; the comment in `bootloader.c` says the caller must halt.

Observations that are not runs of their own:

- Canceling a thread queue during its last drain (`mpsc_queue.c:438`): the drain
  sees CANCELED and its thread can terminate before the canceler's
  `thread_wakeup_thread` (`:156`) names it. The queue's reference was dropped at
  `:184`; `waitq.c:1663` asserts that the thread is valid. `WakeupDead` is that
  step, and `NoPanic` excepts it and nothing else.
- Canceling with a send under way: an enqueuer between its append and its
  `os_atomic_or_orig` finds CANCELED and panics (`mpsc_queue.c:381`). With
  `QuietCancel = FALSE` in `MpscDaemon.cfg` TLC reports `NoPanic` violated after
  seven states. `test_mpsc_queue.c:129` cancels one queue when the other has
  counted the last element, without waiting for the enqueue that sent it.
- What `mpsc_ring_write` returns: the ring refuses data that would fill it
  (`leftover >= mr_capacity`, `mpsc_ring.c:272`) and then returns a space that may
  equal the size; `telemetry.c:593` counts equality as written.
- `XNUXX_BOOT_RECOVERY_FAILED` is returned by no path: a recovery callback that
  fails, or is missing, leaves the result of the failed check (`bootloader.c:49`).
- Provider fallback (`kernel.c:620`): an available XNU provider whose init fails
  is replaced by the native one; `distribution/README.md:13` ("no implicit
  fallback from a failed privileged provider") and
  `doc/xnu++_independence.md:14` rule that out. `ProviderCoherent` accepts it.
  The XNU functions may have enabled interrupts by then, and `kernel.c` does not
  disable them before it loads the native tables.
- A wait on the wild side of an eventlink that times out or is aborted leaves
  `el_wait_counter` set (`ipc_eventlink.c:738`): the next waits there return
  `KERN_INVALID_ARGUMENT` although nobody waits, until a signal passes the
  counter. The model keeps the stale counter.
- A wait on a wild side for a count of `UINT64_MAX`, which the traps take unchecked
  (`ipc_eventlink.c:574-588`), sets `el_wait_counter` to the value that means that
  nobody waits (`:736-752`). A second thread may then wait there too; the signal
  that passes its count wakes the first of the two, whose wait returns the count 0,
  and the second sleeps on. `SignalsExact` excepts the sides where such a wait was
  made (`misled`); without the exception TLC reports it violated.
- The comment on `KERN_APFS_REFLOCK_OUT_LOCKED` in `kern_apfs_reflock.h` says that
  `wait_for_unlock` is to be called by the same thread; the code needs `unlock`.

## 6. Not modelled

The SHA-256 routine, the early console and the string routines (pure data
transformations); the assembly entry (no state but the processor's); the VGA
terminal, the keyboard map and the descriptor tables' bytes;
`kernel64.c`, whose control flow is that of `kernel.c`; weak memory orders; the
failure return of `kernel_thread_create`; `kern_apfs_reflock_read_ref` and
`kdp_eventlink_find_owner`, which only read; priorities; the wait-then-wake test
of `epoch_sync.c`, a single step of the client already in `EpochSync`. The panic
of the reference lock about too many waiters needs more than 65535 threads
waiting at once, which the assumption on `MaxWaiters` excludes.

The imported XNU beyond these files (two million lines) is out of proportion to
one project: its subsystems share state through locks and objects that have no
boundary small enough to be modelled faithfully by themselves.

## 7. Plan

Done: the ring, the queue and its refinement, the daemon with siblings, the boot
path, the reference lock, the epoch objects with a mutex on top, eventlinks, each
with its proofs. Next:

1. *Proofs*: which cancelations of a nested queue are safe (one with no wakeup
   pending is), as a hypothesis on the owners weaker than `CarefulOwners`; the step
   invariants that liveness arguments rest on (what decreases while a drain, a
   waiter or a destroy proceeds).
2. *Ring, repaired*: the ring with a hold re-validated after it is published and
   a comparison relative to `tail`, to state `HOLD_EMPTY` at the wrap as a
   property and to prove `CursorWindowWritten` without `CursorOrdered`.
3. *Telemetry client*, with its read lock and notification thread call.
4. *Native console*: the terminal's cursor and scrolling, the keyboard states,
   and the memory map (heap at 1 MiB against the image).
5. *Thread calls* (`osfmk/kern/thread_call.c`), which the daemon model takes for
   granted.
