-------------------------- MODULE MpscDaemonProofs --------------------------
(***************************************************************************)
(* Proofs about MpscDaemon, for any number of queues, clients and elements *)
(* and any nesting, when no nested queue is canceled (what a cancelation   *)
(* of one does is a finding) and owners wait for the sends under way.      *)
(*                                                                         *)
(* The argument follows the wakeup of a queue, of which there is one at    *)
(* most: it is carried by a client, then by the thread, the thread call or *)
(* the chain, and taken by the drain's xor.                                *)
(***************************************************************************)
EXTENDS MpscDaemon, TLAPS

\* What the theorems assume of the owners.
CarefulOwners == QuietCancel /\ \A k \in Kinds : \A q \in Cancelable : k[q] # "nested"

-----------------------------------------------------------------------------
(* The inductive invariant *)

\* The steps of a drain between its xor and its unlock.
Looking == {"clearwakeup", "dequeue", "invoke", "nested"}
Busy == Looking \cup {"batchend", "assertwait", "unlock"}

Pcs == {"idle", "append", "orwakeup", "wakeup", "orcanceled", "block"}
Ops == {NONE, "enqueue", "activate", "cancel"}
Things == Elements \cup Queues

CtxType ==
    [pc : Pcs, op : Ops, home : Queues \cup {NONE}, q : Queues \cup {NONE}, elm : Things \cup {NONE}]

DaemonType ==
    /\ kind \in Kinds
    /\ gone \in [Queues -> BOOLEAN]
    /\ state \in [Queues -> SUBSET StateBits]
    /\ fifo \in [Queues -> Seq(Things)] /\ batch \in [Queues -> Seq(Things)]
    /\ dpc \in [Queues -> {"idle", "xor", "wakecanceler", "terminated"} \cup Busy]
    /\ drained \in [Queues -> BOOLEAN] /\ unflushed \in [Queues -> BOOLEAN]
    /\ waiting \in [Queues -> BOOLEAN] /\ called \in [Queues -> BOOLEAN]
    /\ cwait \in [Queues -> BOOLEAN]
    /\ ctx \in [Clients -> CtxType]

Canceled(q) == "CANCELED" \in state[q]

\* A client that sends, and one that cancels.
SendOK(c) ==
    ctx[c].op \in {"enqueue", "activate"} =>
        /\ ctx[c].pc \in {"append", "orwakeup", "wakeup"}
        /\ ctx[c].home \in Queues /\ ctx[c].q \in Queues
        /\ ctx[c].q = ctx[c].home \/ IsTarget(ctx[c].q)
        /\ ~Canceled(ctx[c].home)

CancelOK(c) ==
    ctx[c].op = "cancel" =>
        /\ ctx[c].pc \in {"orcanceled", "wakeup", "block"}
        /\ ctx[c].home \in Queues /\ ctx[c].q = ctx[c].home
        /\ kind[ctx[c].home] \in {"thread", "call"} /\ ~IsTarget(ctx[c].home)
        /\ ~gone[ctx[c].home] /\ "INACTIVE" \notin state[ctx[c].home]
        /\ \A d \in Clients : ~Sending(d, ctx[c].home) /\ (Canceling(d, ctx[c].home) => d = c)
        /\ IF ctx[c].pc = "orcanceled" THEN ~Canceled(ctx[c].home) /\ cwait[ctx[c].home]
           ELSE Canceled(ctx[c].home)

\* An element is in one place: with a client that is about to append it, or on a queue.
ElmOK(c) ==
    /\ ctx[c].pc # "append" => ctx[c].elm = NONE
    /\ ctx[c].pc = "append" =>
         /\ ctx[c].elm \in Things /\ ~InBatchOrQueue(ctx[c].elm)
         /\ \A d \in Clients : ctx[d].elm = ctx[c].elm => d = c
         /\ ctx[c].elm \in Queues => kind[ctx[c].elm] = "nested" /\ Target[ctx[c].elm] = ctx[c].q

CtxOK(c) ==
    /\ ctx[c].op = NONE => ctx[c] = Idle
    /\ SendOK(c) /\ CancelOK(c) /\ ElmOK(c)

\* What a canceled queue is like.
CanceledOK(q) ==
    /\ Canceled(q) =>
         /\ kind[q] \in {"thread", "call"} /\ ~IsTarget(q)
         /\ gone[q] \/ \E c \in Clients : Canceling(c, q)
         /\ \A c \in Clients : ~Sending(c, q)
         /\ "INACTIVE" \notin state[q]
    /\ Canceled(q) /\ ~cwait[q] =>
         /\ fifo[q] = <<>> /\ batch[q] = <<>>
         /\ "WAKEUP" \in state[q] => dpc[q] = "clearwakeup"
         /\ kind[q] = "thread" => dpc[q] = "terminated"
    /\ gone[q] => Canceled(q) /\ ~cwait[q] /\ ~called[q] /\ dpc[q] \in {"idle", "terminated"}

\* The drain of a queue and its state.
DrainOK(q) ==
    /\ "DRAINING" \in state[q] <=> dpc[q] \in Busy
    /\ dpc[q] # "idle" => "INACTIVE" \notin state[q]
    /\ batch[q] # <<>> => dpc[q] \in {"invoke", "nested"}
    /\ dpc[q] = "invoke" => batch[q] # <<>>
    /\ dpc[q] \in {"invoke", "nested"} => drained[q]
    /\ unflushed[q] => q \in BatchQueues /\ drained[q] /\ dpc[q] \in {"dequeue", "invoke", "nested", "batchend"}
    /\ dpc[q] = "assertwait" => kind[q] = "thread"
    /\ kind[q] = "thread" /\ dpc[q] = "unlock" => waiting[q] \/ Canceled(q)
    /\ dpc[q] = "terminated" => kind[q] = "thread" /\ Canceled(q) /\ ~cwait[q]
    /\ dpc[q] = "wakecanceler" => Canceled(q) /\ "WAKEUP" \notin state[q] /\ fifo[q] = <<>>
    /\ called[q] => kind[q] = "call"

\* A nested queue is drained from its target, one at a time.
NestOK(n) ==
    kind[n] = "nested" /\ dpc[n] # "idle" =>
        /\ dpc[Target[n]] = "nested"
        /\ \A m \in Queues : kind[m] = "nested" /\ Target[m] = Target[n] /\ dpc[m] # "idle" => m = n

\* What is on a queue is an element or, once, the chain of a nested queue.
ChainOK(q) ==
    /\ \A n \in Queues : n \in ToSet(fifo[q]) \cup ToSet(batch[q]) => kind[n] = "nested" /\ Target[n] = q
    /\ \A n \in Queues : ~(n \in ToSet(fifo[q]) /\ n \in ToSet(batch[q]))
    /\ \A i, j \in 1 .. Len(fifo[q]) : fifo[q][i] = fifo[q][j] /\ fifo[q][i] \in Queues => i = j
    /\ \A i, j \in 1 .. Len(batch[q]) : batch[q][i] = batch[q][j] /\ batch[q][i] \in Queues => i = j

\* The wakeup of q is with client c ...
Carries(c, q) ==
    \/ ctx[c].pc = "wakeup" /\ ctx[c].q = q
    \/ ctx[c].pc = "append" /\ ctx[c].elm = q

\* ... or has reached what runs its drain.
Summoned(q) ==
    \/ kind[q] = "thread" /\ dpc[q] = "idle" /\ ~waiting[q]
    \/ kind[q] = "call" /\ called[q]
    \/ kind[q] = "nested" /\ InBatchOrQueue(q)

\* There is one wakeup at most, for a queue that is idle and has WAKEUP set.
TokenOK(q) ==
    ~Canceled(q) =>
        /\ \A c \in Clients : Carries(c, q) =>
              /\ "WAKEUP" \in state[q] /\ "INACTIVE" \notin state[q]
              /\ dpc[q] = "idle" /\ ~Summoned(q)
              /\ \A d \in Clients : Carries(d, q) => d = c
        /\ Summoned(q) => "WAKEUP" \in state[q] /\ "INACTIVE" \notin state[q] /\ dpc[q] = "idle"
        /\ dpc[q] = "xor" => "WAKEUP" \in state[q]

\* And there is one if WAKEUP is set, or a drain that will see it.
TokenThere(q) ==
    "WAKEUP" \in state[q] /\ "INACTIVE" \notin state[q] =>
        \/ \E c \in Clients : Carries(c, q)
        \/ Summoned(q)
        \/ dpc[q] \in Busy \cup {"xor"}

\* Whoever found the queue empty sets WAKEUP, unless the drain is still to look.
LookedAfter(q) ==
    fifo[q] # <<>> =>
        \/ "WAKEUP" \in state[q]
        \/ \E c \in Clients : ctx[c].pc = "orwakeup" /\ ctx[c].q = q
        \/ dpc[q] \in Looking

CoreOK(q) ==
    /\ CanceledOK(q) /\ DrainOK(q) /\ ChainOK(q)
    /\ TokenOK(q) /\ TokenThere(q) /\ LookedAfter(q)

DaemonInv ==
    /\ DaemonType /\ failed = FALSE
    /\ \A c \in Clients : CtxOK(c)
    /\ \A q \in Queues : CoreOK(q)
    /\ \A q \in Queues : NestOK(q)

-----------------------------------------------------------------------------
(* Sequences *)

\* Appending adds the element to the set of those on the queue.
LEMMA ToSetAppend ==
    ASSUME NEW S, NEW s \in Seq(S), NEW e \in S
    PROVE  ToSet(Append(s, e)) = ToSet(s) \cup {e}
<1>1. /\ DOMAIN Append(s, e) = 1 .. Len(s) + 1 /\ DOMAIN s = 1 .. Len(s) /\ Len(s) \in Nat
      /\ \A i \in 1 .. Len(s) : Append(s, e)[i] = s[i]
      /\ Append(s, e)[Len(s) + 1] = e
  OBVIOUS
<1>2. \A i : i \in 1 .. Len(s) + 1 <=> i \in 1 .. Len(s) \/ i = Len(s) + 1
  BY <1>1
<1>3. \A x : x \in ToSet(Append(s, e)) => x \in ToSet(s) \cup {e}
  BY <1>1, <1>2 DEF ToSet
<1>4. \A x : x \in ToSet(s) => x \in ToSet(Append(s, e))
  BY <1>1, <1>2 DEF ToSet
<1>5. Len(s) + 1 \in DOMAIN Append(s, e)
  BY <1>1, <1>2
<1>6. e \in ToSet(Append(s, e))
  BY <1>1, <1>5 DEF ToSet
<1> QED
  BY <1>3, <1>4, <1>6

\* An empty queue has no elements.
LEMMA ToSetEmpty == ToSet(<<>>) = {}
BY DEF ToSet

\* Taking the first element leaves the others.
LEMMA ToSetTail ==
    ASSUME NEW S, NEW s \in Seq(S), s # <<>>
    PROVE  /\ ToSet(s) = {Head(s)} \cup ToSet(Tail(s))
           /\ Head(s) \in S /\ Head(s) = s[1] /\ Tail(s) \in Seq(S)
           /\ Len(s) \in Nat \ {0} /\ Len(Tail(s)) = Len(s) - 1
           /\ \A i \in 1 .. Len(Tail(s)) : Tail(s)[i] = s[i + 1]
<1>1. /\ Head(s) \in S /\ Head(s) = s[1] /\ Tail(s) \in Seq(S)
      /\ Len(s) \in Nat \ {0} /\ Len(Tail(s)) = Len(s) - 1
      /\ \A i \in 1 .. Len(Tail(s)) : Tail(s)[i] = s[i + 1]
      /\ DOMAIN s = 1 .. Len(s) /\ DOMAIN Tail(s) = 1 .. Len(Tail(s))
  OBVIOUS
<1>2. \A i \in 1 .. Len(s) : i = 1 \/ (i - 1 \in 1 .. Len(Tail(s)) /\ s[i] = Tail(s)[i - 1])
  BY <1>1
<1>3. \A i \in 1 .. Len(Tail(s)) : i + 1 \in 1 .. Len(s)
  BY <1>1
<1>4. 1 \in 1 .. Len(s)
  BY <1>1
<1>5. ASSUME NEW x, x \in ToSet(s) PROVE x \in {Head(s)} \cup ToSet(Tail(s))
  <2>1. PICK i \in 1 .. Len(s) : x = s[i]
    BY <1>1, <1>5 DEF ToSet
  <2>2. i = 1 => x = Head(s)
    BY <1>1, <2>1
  <2>3. i # 1 => i - 1 \in DOMAIN Tail(s) /\ x = Tail(s)[i - 1]
    BY <1>1, <1>2, <2>1
  <2> QED
    BY <2>2, <2>3 DEF ToSet
<1>6. \A x : x \in {Head(s)} \cup ToSet(Tail(s)) => x \in ToSet(s)
  BY <1>1, <1>3, <1>4 DEF ToSet
<1> QED
  BY <1>1, <1>5, <1>6

-----------------------------------------------------------------------------
(* Facts of every state *)

\* Every nested queue has a target, which is another queue.
Nested == \A n \in Queues : kind[n] = "nested" => Target[n] \in Queues /\ Target[n] # n

\* DaemonAssumption says so of every kind a queue may have.
LEMMA TargetOther == ASSUME kind \in Kinds PROVE Nested
BY DaemonAssumption DEF Nested

\* The queue a sender works on is not canceled.
LEMMA SenderLive ==
    ASSUME \A q \in Queues : CanceledOK(q), NEW c \in Clients, CtxOK(c),
           ctx[c].op \in {"enqueue", "activate"}
    PROVE  ctx[c].q \in Queues /\ ~Canceled(ctx[c].q)
BY DEF CtxOK, SendOK, CanceledOK

\* A queue that may be sent to is not canceled.
LEMMA MaySendLive ==
    ASSUME NEW q \in Queues, CanceledOK(q), MaySend(q)
    PROVE  ~Canceled(q) /\ ~gone[q]
BY DEF CanceledOK, MaySend

\* What a client is doing says which call it is in.
LEMMA OpOfPc ==
    ASSUME DaemonType, NEW c \in Clients, CtxOK(c)
    PROVE  /\ ctx[c].pc \in {"append", "orwakeup"} => ctx[c].op \in {"enqueue", "activate"}
           /\ ctx[c].pc \in {"orcanceled", "block"} => ctx[c].op = "cancel"
           /\ ctx[c].pc = "wakeup" => ctx[c].op \in {"enqueue", "activate", "cancel"}
           /\ ctx[c].pc = "append" => ctx[c].elm \in Things
           /\ ctx[c].pc # "append" => ctx[c].elm = NONE
BY DaemonAssumption DEF DaemonType, CtxType, Ops, Pcs, CtxOK, SendOK, CancelOK, ElmOK, Idle

\* An idle client sends nothing and carries no wakeup.
LEMMA IdleQuiet ==
    ASSUME NEW r, r = Idle
    PROVE  r.pc = "idle" /\ r.op = NONE /\ r.home = NONE /\ r.q = NONE /\ r.elm = NONE
BY DEF Idle

\* A call that goes on to step v.
LEMMA CallGoesOn ==
    ASSUME NEW r \in CtxType, NEW v \in Pcs, NEW new, new = [r EXCEPT !.pc = v]
    PROVE  /\ new \in CtxType /\ new.pc = v /\ new.op = r.op /\ new.home = r.home /\ new.q = r.q
           /\ new.elm = r.elm
BY DEF CtxType

\* A client that carries a wakeup to q: q is not gone, and canceled only if the
\* client cancels it.
LEMMA WakerFacts ==
    ASSUME DaemonInv, NEW c \in Clients, ctx[c].pc = "wakeup"
    PROVE  /\ ctx[c].q \in Queues /\ ~gone[ctx[c].q] /\ Carries(c, ctx[c].q) /\ ctx[c].elm = NONE
           /\ ctx[c].op \in {"enqueue", "activate", "cancel"}
           /\ ctx[c].op = "cancel" => Canceled(ctx[c].q) /\ ctx[c].home = ctx[c].q
           /\ ctx[c].op # "cancel" => ~Canceled(ctx[c].q)
<1>1. CtxOK(c) /\ DaemonType /\ ctx[c].op \in {"enqueue", "activate", "cancel"} /\ ctx[c].elm = NONE
  BY OpOfPc DEF DaemonInv
<1>2. \A q \in Queues : CanceledOK(q)
  BY DEF DaemonInv, CoreOK
<1>3. CASE ctx[c].op = "cancel"
  BY <1>1, <1>3 DEF CtxOK, CancelOK, Carries
<1>4. CASE ctx[c].op # "cancel"
  BY <1>1, <1>2, <1>4, SenderLive DEF CanceledOK, Carries
<1> QED
  BY <1>1, <1>3, <1>4

\* An idle client is in its type.
LEMMA IdleType == Idle \in CtxType
BY DEF Idle, CtxType, Pcs, Ops

-----------------------------------------------------------------------------
(* What a step leaves alone *)

\* The state of q itself.
OwnStays(q) ==
    /\ gone'[q] = gone[q] /\ state'[q] = state[q] /\ fifo'[q] = fifo[q] /\ batch'[q] = batch[q]
    /\ drained'[q] = drained[q] /\ unflushed'[q] = unflushed[q]
    /\ waiting'[q] = waiting[q] /\ called'[q] = called[q] /\ cwait'[q] = cwait[q]
    /\ dpc'[q] = dpc[q]

\* What the clients other than c have to do with any queue stays.
OthersStay(c) == \A d \in Clients \ {c} : ctx'[d] = ctx[d]

\* A queue that client c's step does not concern stays as it is.
LEMMA OtherQueue ==
    ASSUME NEW c \in Clients, NEW q \in Queues, CoreOK(q), kind' = kind, OwnStays(q), OthersStay(c),
           Canceling(c, q) => Canceling(c, q)',
           Sending(c, q)' => Sending(c, q) \/ MaySend(q),
           Carries(c, q)' <=> Carries(c, q),
           InBatchOrQueue(q)' <=> InBatchOrQueue(q),
           ctx[c].pc = "orwakeup" /\ ctx[c].q = q => ctx'[c].pc = "orwakeup" /\ ctx'[c].q = q
    PROVE  CoreOK(q)'
<1>1. \A d \in Clients : Canceling(d, q) => Canceling(d, q)'
  BY DEF OthersStay, Canceling
<1>2. \A d \in Clients : Sending(d, q)' => Sending(d, q) \/ MaySend(q)
  BY DEF OthersStay, Sending
<1>3. \A d \in Clients : Carries(d, q)' <=> Carries(d, q)
  BY DEF OthersStay, Carries
<1>4. Summoned(q)' <=> Summoned(q)
  BY DEF Summoned, OwnStays
<1>5. Canceled(q)' <=> Canceled(q)
  BY DEF Canceled, OwnStays
<1>6. IsTarget(q)' <=> IsTarget(q)
  BY DEF IsTarget
<1>7. CanceledOK(q)'
  <2>1. CanceledOK(q) /\ (MaySend(q) => ~Canceled(q))
    BY MaySendLive DEF CoreOK
  <2> QED
    BY <1>1, <1>2, <1>5, <1>6, <2>1 DEF CanceledOK, OwnStays
<1>8. DrainOK(q)'
  BY <1>5 DEF CoreOK, DrainOK, OwnStays
<1>9. ChainOK(q)'
  BY DEF CoreOK, ChainOK, OwnStays
<1>10. TokenOK(q)'
  BY <1>3, <1>4, <1>5 DEF CoreOK, TokenOK, OwnStays
<1>11. TokenThere(q)'
  BY <1>3, <1>4 DEF CoreOK, TokenThere, OwnStays
<1>12. LookedAfter(q)'
  BY DEF CoreOK, LookedAfter, OwnStays, OthersStay
<1> QED
  BY <1>7, <1>8, <1>9, <1>10, <1>11, <1>12 DEF CoreOK

\* A drain's step leaves every queue that it does not name as it is.
LEMMA OtherDrain ==
    ASSUME NEW q \in Queues, CoreOK(q), kind' = kind, ctx' = ctx, OwnStays(q),
           InBatchOrQueue(q)' <=> InBatchOrQueue(q)
    PROVE  CoreOK(q)'
<1>1. \A d \in Clients : (Canceling(d, q)' <=> Canceling(d, q)) /\ (Sending(d, q)' <=> Sending(d, q))
                         /\ (Carries(d, q)' <=> Carries(d, q))
  BY DEF Canceling, Sending, Carries
<1>4. Summoned(q)' <=> Summoned(q)
  BY DEF Summoned, OwnStays
<1>5. Canceled(q)' <=> Canceled(q)
  BY DEF Canceled, OwnStays
<1>6. IsTarget(q)' <=> IsTarget(q)
  BY DEF IsTarget
<1>7. CanceledOK(q)'
  BY <1>1, <1>5, <1>6 DEF CanceledOK, OwnStays, CoreOK
<1>8. DrainOK(q)'
  BY <1>5 DEF CoreOK, DrainOK, OwnStays
<1>9. ChainOK(q)'
  BY DEF CoreOK, ChainOK, OwnStays
<1>10. TokenOK(q)'
  BY <1>1, <1>4, <1>5 DEF CoreOK, TokenOK, OwnStays
<1>11. TokenThere(q)'
  BY <1>1, <1>4 DEF CoreOK, TokenThere, OwnStays
<1>12. LookedAfter(q)'
  BY DEF CoreOK, LookedAfter, OwnStays
<1> QED
  BY <1>7, <1>8, <1>9, <1>10, <1>11, <1>12 DEF CoreOK

\* What the step of client c may do to what the other clients rely on.
ClientFrame(c) ==
    /\ kind' = kind /\ OthersStay(c)
    /\ \A q \in Queues :
         /\ Canceled(q)' => Canceled(q) \/ Canceling(c, q)
         /\ Canceled(q) => Canceled(q)'
         /\ "INACTIVE" \in state'[q] => "INACTIVE" \in state[q]
         /\ gone'[q] => gone[q] \/ Canceling(c, q)
         /\ cwait[q] => cwait'[q]
         /\ Sending(c, q)' => Sending(c, q) \/ MaySend(q)
         /\ Canceling(c, q)' => Canceling(c, q) \/ MaySend(q)
    /\ \A x : InBatchOrQueue(x)' => InBatchOrQueue(x) \/ (ctx[c].pc = "append" /\ ctx[c].elm = x)
    /\ \A d \in Clients \ {c} : ctx[d].pc = "append" => ctx'[c].elm # ctx[d].elm

\* The other clients' calls are as they were.
LEMMA OtherClient ==
    ASSUME NEW c \in Clients, NEW d \in Clients \ {c}, CtxOK(c), CtxOK(d), ClientFrame(c)
    PROVE  CtxOK(d)'
<1>1. ctx'[d] = ctx[d] /\ kind' = kind
  BY DEF ClientFrame, OthersStay
<1>2. SendOK(d)'
  <2> SUFFICES ASSUME ctx[d].op \in {"enqueue", "activate"} PROVE SendOK(d)'
    BY <1>1 DEF SendOK
  <2>1. IsTarget(ctx[d].q)' <=> IsTarget(ctx[d].q)
    BY <1>1 DEF IsTarget
  <2>2. Sending(d, ctx[d].home)
    BY DEF Sending
  <2>3. ~Canceling(c, ctx[d].home)
    BY <2>2 DEF CtxOK, CancelOK, Canceling
  <2> QED
    BY <1>1, <2>1, <2>3 DEF SendOK, CtxOK, ClientFrame, Canceled
<1>3. CancelOK(d)'
  <2> SUFFICES ASSUME ctx[d].op = "cancel" PROVE CancelOK(d)'
    BY <1>1 DEF CancelOK
  <2>0. PICK h : h = ctx[d].home
    OBVIOUS
  <2>1. h \in Queues /\ Canceling(d, h) /\ ~Canceling(c, h) /\ ~Sending(c, h) /\ ~MaySend(h)
    BY <2>0 DEF CtxOK, CancelOK, Canceling, MaySend
  <2>2. IsTarget(h)' <=> IsTarget(h)
    BY <1>1 DEF IsTarget
  <2>3. \A e \in Clients : ~Sending(e, h)' /\ (Canceling(e, h)' => e = d)
    <3> SUFFICES ASSUME NEW e \in Clients PROVE ~Sending(e, h)' /\ (Canceling(e, h)' => e = d)
      OBVIOUS
    <3>1. CASE e = c
      BY <2>1, <3>1 DEF ClientFrame
    <3>2. CASE e # c
      <4>1. ctx'[e] = ctx[e] /\ ctx'[d] = ctx[d]
        BY <3>2 DEF ClientFrame, OthersStay
      <4>2. ~Sending(e, h) /\ (Canceling(e, h) => e = d)
        BY <2>0 DEF CtxOK, CancelOK
      <4> QED
        BY <4>1, <4>2 DEF Sending, Canceling
    <3> QED
      BY <3>1, <3>2
  <2>4. (Canceled(h)' <=> Canceled(h)) /\ ("INACTIVE" \in state'[h] => "INACTIVE" \in state[h])
        /\ (gone'[h] => gone[h]) /\ (cwait[h] => cwait'[h])
    BY <2>1 DEF ClientFrame
  <2>5. /\ ctx[d].pc \in {"orcanceled", "wakeup", "block"}
        /\ h \in Queues /\ ctx[d].q = h
        /\ kind[h] \in {"thread", "call"} /\ ~IsTarget(h)
        /\ ~gone[h] /\ "INACTIVE" \notin state[h]
        /\ IF ctx[d].pc = "orcanceled" THEN ~Canceled(h) /\ cwait[h] ELSE Canceled(h)
    BY <2>0 DEF CtxOK, CancelOK
  <2>6. ctx'[d].home = h
    BY <1>1, <2>0
  <2> QED
    BY <1>1, <2>2, <2>3, <2>4, <2>5, <2>6 DEF CancelOK
<1>4. ElmOK(d)'
  <2> SUFFICES ASSUME ctx[d].pc = "append" PROVE ElmOK(d)'
    BY <1>1 DEF ElmOK, CtxOK
  <2>0. PICK x : x = ctx[d].elm
    OBVIOUS
  <2>1. /\ x \in Things /\ ~InBatchOrQueue(x) /\ \A e \in Clients : ctx[e].elm = x => e = d
        /\ x \in Queues => kind[x] = "nested" /\ Target[x] = ctx[d].q
    BY <2>0 DEF CtxOK, ElmOK
  <2>2. ~InBatchOrQueue(x)'
    BY <2>0, <2>1 DEF ClientFrame
  <2>3. \A e \in Clients : ctx'[e].elm = x => e = d
    BY <2>0, <2>1 DEF ClientFrame, OthersStay
  <2>4. ctx'[d].elm = x
    BY <1>1, <2>0
  <2> QED
    BY <1>1, <2>1, <2>2, <2>3, <2>4 DEF ElmOK
<1> QED
  BY <1>1, <1>2, <1>3, <1>4 DEF CtxOK

\* A client's step preserves the invariant if it does so for the client and the queues.
LEMMA ClientInv ==
    ASSUME DaemonInv, NEW c \in Clients, ClientFrame(c), dpc' = dpc, DaemonType', failed' = FALSE,
           CtxOK(c)', \A q \in Queues : CoreOK(q)'
    PROVE  DaemonInv'
<1>1. \A d \in Clients : CtxOK(d)'
  BY OtherClient DEF DaemonInv
<1>2. \A q \in Queues : NestOK(q)'
  BY DEF DaemonInv, NestOK, ClientFrame
<1> QED
  BY <1>1, <1>2 DEF DaemonInv

-----------------------------------------------------------------------------
(* The clients' steps *)

\* mpsc_daemon_enqueue
LEMMA EnqueueCallInv ==
    ASSUME DaemonInv, NEW c \in Clients, NEW q \in Queues, NEW e \in Elements, EnqueueCall(c, q, e)
    PROVE  DaemonInv'
<1> DEFINE new == [pc |-> "append", op |-> "enqueue", home |-> q, q |-> q, elm |-> e]
<1>1. /\ ctx'[c] = new /\ OthersStay(c) /\ ctx' \in [Clients -> CtxType]
      /\ new.pc = "append" /\ new.op = "enqueue" /\ new.home = q /\ new.q = q /\ new.elm = e
  BY DEF EnqueueCall, DaemonInv, DaemonType, CtxType, Pcs, Ops, Things, OthersStay
<1>2. /\ ctx[c].pc = "idle" /\ ctx[c].op = NONE /\ ctx[c].home = NONE /\ ctx[c].q = NONE
      /\ ctx[c].elm = NONE
  BY IdleQuiet DEF EnqueueCall
<1>3. /\ kind' = kind /\ gone' = gone /\ state' = state /\ fifo' = fifo /\ batch' = batch /\ dpc' = dpc
      /\ drained' = drained /\ unflushed' = unflushed /\ waiting' = waiting /\ called' = called
      /\ cwait' = cwait /\ failed' = failed
  BY DEF EnqueueCall, drainVars
<1> HIDE DEF new
<1>4. /\ e \notin Queues /\ e # NONE /\ MaySend(q) /\ ~InBatchOrQueue(e)
      /\ \A d \in Clients : ctx[d].elm # e
      /\ NONE \notin Queues \cup {"enqueue", "activate", "cancel"}
  BY DaemonAssumption DEF EnqueueCall
<1>5. \A x : InBatchOrQueue(x)' <=> InBatchOrQueue(x)
  BY <1>3 DEF InBatchOrQueue
<1>6. \A r \in Queues : ~Canceling(c, r) /\ ~Canceling(c, r)' /\ (Sending(c, r)' => r = q)
                        /\ ~Carries(c, r) /\ ~Carries(c, r)'
  BY <1>1, <1>2, <1>4 DEF Canceling, Sending, Carries
<1>7. \A r \in Queues : CoreOK(r)'
  <2> SUFFICES ASSUME NEW r \in Queues PROVE CoreOK(r)'
    OBVIOUS
  <2>1. CoreOK(r) /\ OwnStays(r) /\ (Sending(c, r)' => MaySend(r))
    BY <1>3, <1>4, <1>6 DEF DaemonInv, OwnStays
  <2> QED
    BY <1>1, <1>2, <1>3, <1>5, <1>6, <2>1, OtherQueue
<1>8. ClientFrame(c)
  BY <1>1, <1>2, <1>3, <1>4, <1>5, <1>6 DEF ClientFrame, Canceled
<1>9. CtxOK(c)'
  <2>1. ~Canceled(q)
    BY <1>4, MaySendLive DEF DaemonInv, CoreOK
  <2>2. ~Canceled(q)'
    BY <1>3, <2>1 DEF Canceled
  <2>3. \A d \in Clients : ctx'[d].elm = e => d = c
    BY <1>4, <1>1 DEF OthersStay
  <2> QED
    BY <1>1, <1>3, <1>4, <1>5, <2>2, <2>3 DEF CtxOK, SendOK, CancelOK, ElmOK, Things
<1> QED
  BY <1>1, <1>3, <1>7, <1>8, <1>9, ClientInv DEF DaemonInv, DaemonType

\* mpsc_queue_append: an element comes in, or the wakeup of a nested queue passes
\* from the client to the target's queue.
LEMMA EnqueueAppendInv ==
    ASSUME DaemonInv, NEW c \in Clients, EnqueueAppend(c)
    PROVE  DaemonInv'
<1>1. PICK q, x : q = ctx[c].q /\ x = ctx[c].elm
  OBVIOUS
<1>2. /\ ctx[c].op \in {"enqueue", "activate"} /\ ctx[c].pc = "append" /\ q \in Queues /\ ~Canceled(q)
      /\ x \in Things /\ ~InBatchOrQueue(x) /\ \A d \in Clients : ctx[d].elm = x => d = c
      /\ x \in Queues => kind[x] = "nested" /\ Target[x] = q
      /\ NONE \notin Things /\ NONE \notin {"enqueue", "activate", "cancel"}
  BY <1>1, OpOfPc, SenderLive, DaemonAssumption
     DEF EnqueueAppend, DaemonInv, CoreOK, CtxOK, ElmOK, Things
<1>3. x # q /\ fifo[q] \in Seq(Things) /\ x \notin ToSet(fifo[q]) /\ x \notin ToSet(batch[q])
  BY <1>2, TargetOther DEF Nested, DaemonInv, DaemonType, InBatchOrQueue
<1>4. /\ fifo' = [fifo EXCEPT ![q] = Append(fifo[q], x)]
      /\ kind' = kind /\ gone' = gone /\ state' = state /\ batch' = batch /\ dpc' = dpc
      /\ drained' = drained /\ unflushed' = unflushed /\ waiting' = waiting /\ called' = called
      /\ cwait' = cwait /\ failed' = failed
  BY <1>1, <1>3 DEF EnqueueAppend, drainVars, AppendChain
<1>5. PICK new : /\ new = IF fifo[q] = <<>> THEN [ctx[c] EXCEPT !.pc = "orwakeup", !.elm = NONE]
                          ELSE Idle
                 /\ ctx' = [ctx EXCEPT ![c] = new]
  BY <1>1, <1>2 DEF EnqueueAppend, Resume
<1>6. /\ new \in CtxType /\ new.elm = NONE
      /\ fifo[q] = <<>> => /\ new.pc = "orwakeup" /\ new.op = ctx[c].op /\ new.home = ctx[c].home
                           /\ new.q = q
      /\ fifo[q] # <<>> => /\ new = Idle /\ new.pc = "idle" /\ new.op = NONE
                           /\ new.home = NONE /\ new.q = NONE
  BY <1>1, <1>5 DEF DaemonInv, DaemonType, CtxType, Pcs, Ops, Idle
<1>7. ctx'[c] = new /\ OthersStay(c) /\ ctx' \in [Clients -> CtxType]
  BY <1>5, <1>6 DEF DaemonInv, DaemonType, OthersStay
<1>8. /\ fifo'[q] = Append(fifo[q], x) /\ fifo'[q] \in Seq(Things)
      /\ ToSet(fifo'[q]) = ToSet(fifo[q]) \cup {x}
      /\ \A r \in Queues \ {q} : fifo'[r] = fifo[r]
      /\ fifo' \in [Queues -> Seq(Things)]
  <2>1. fifo'[q] = Append(fifo[q], x) /\ Append(fifo[q], x) \in Seq(Things)
    BY <1>2, <1>3, <1>4 DEF DaemonInv, DaemonType
  <2> QED
    BY <1>2, <1>3, <1>4, <2>1, ToSetAppend DEF DaemonInv, DaemonType
<1>9. \A y : InBatchOrQueue(y)' <=> InBatchOrQueue(y) \/ y = x
  <2>1. \A r \in Queues : \A y : y \in ToSet(fifo'[r]) \cup ToSet(batch'[r])
                 <=> y \in ToSet(fifo[r]) \cup ToSet(batch[r]) \/ (r = q /\ y = x)
    BY <1>4, <1>8
  <2> QED
    BY <1>2, <2>1 DEF InBatchOrQueue
<1>10. \A r \in Queues : ~Canceling(c, r) /\ ~Canceling(c, r)' /\ (Sending(c, r)' => Sending(c, r))
                        /\ (Carries(c, r) <=> r = x) /\ ~Carries(c, r)'
  BY <1>1, <1>2, <1>6, <1>7 DEF Canceling, Sending, Carries
<1>11. ClientFrame(c)
  <2>1. \A d \in Clients \ {c} : ctx[d].pc = "append" => ctx'[c].elm # ctx[d].elm
    BY <1>2, <1>6, <1>7, OpOfPc DEF DaemonInv
  <2> QED
    BY <1>1, <1>2, <1>4, <1>7, <1>9, <1>10, <2>1 DEF ClientFrame, Canceled
<1>12. CtxOK(c)'
  <2>1. CASE fifo[q] # <<>>
    BY <1>2, <1>6, <1>7, <2>1 DEF CtxOK, SendOK, CancelOK, ElmOK
  <2>2. CASE fifo[q] = <<>>
    <3>1. SendOK(c) /\ (IsTarget(q)' <=> IsTarget(q))
      BY <1>2, <1>4 DEF DaemonInv, CtxOK, IsTarget, Canceled
    <3> QED
      BY <1>1, <1>2, <1>4, <1>6, <1>7, <2>2, <3>1 DEF CtxOK, SendOK, CancelOK, ElmOK, Canceled
  <2> QED
    BY <2>1, <2>2
<1>13. ASSUME NEW r \in Queues \ {q, x} PROVE CoreOK(r)'
  <2>1. CoreOK(r) /\ OwnStays(r)
    BY <1>4, <1>8, <1>13 DEF DaemonInv, OwnStays
  <2> QED
    BY <1>2, <1>4, <1>7, <1>9, <1>10, <1>13, <2>1, OtherQueue
<1>14. ASSUME x \in Queues PROVE CoreOK(x)'
  <2>1. CoreOK(x) /\ OwnStays(x) /\ kind[x] = "nested" /\ Carries(c, x) /\ InBatchOrQueue(x)' /\ ~Canceled(x)
    BY <1>2, <1>3, <1>4, <1>8, <1>9, <1>10, <1>14 DEF DaemonInv, OwnStays, CoreOK, CanceledOK
  <2>2. \A d \in Clients : ~Carries(d, x)'
    <3>1. \A d \in Clients \ {c} : ~Carries(d, x)
      BY <2>1 DEF CoreOK, TokenOK
    <3> QED
      BY <1>7, <1>10, <1>14, <3>1 DEF OthersStay, Carries
  <2>3. Summoned(x)' /\ "WAKEUP" \in state[x] /\ "INACTIVE" \notin state[x] /\ dpc[x] = "idle"
    BY <1>4, <2>1 DEF CoreOK, TokenOK, Summoned
  <2>4. ~Canceled(x)' /\ (gone[x] => Canceled(x))
    BY <1>4, <2>1 DEF Canceled, CoreOK, CanceledOK
  <2>5. CanceledOK(x)'
    BY <2>1, <2>4 DEF CanceledOK, OwnStays
  <2>6. DrainOK(x)' /\ ChainOK(x)'
    <3>1. DrainOK(x)'
      BY <1>4, <2>1, <2>4 DEF CoreOK, DrainOK, OwnStays
    <3>2. ChainOK(x)'
      BY <1>4, <2>1 DEF CoreOK, ChainOK, OwnStays
    <3> QED
      BY <3>1, <3>2
  <2>7. TokenOK(x)' /\ TokenThere(x)'
    BY <2>1, <2>2, <2>3 DEF TokenOK, TokenThere, OwnStays
  <2>8. LookedAfter(x)'
    BY <2>1, <2>3 DEF LookedAfter, OwnStays
  <2> QED
    BY <2>5, <2>6, <2>7, <2>8 DEF CoreOK
<1>15. CoreOK(q)'
  <2>1. CoreOK(q) /\ ~Canceled(q)' /\ ~gone[q]
    BY <1>2, <1>4 DEF DaemonInv, CoreOK, CanceledOK, Canceled
  <2>2. CanceledOK(q)'
    BY <1>4, <2>1 DEF CanceledOK
  <2>3. DrainOK(q)'
    BY <1>2, <1>4, <2>1 DEF CoreOK, DrainOK, Canceled
  <2>4. ChainOK(q)'
    <3>1. ChainOK(q) /\ \A n \in Queues : ~(n \in ToSet(fifo'[q]) /\ n \in ToSet(batch'[q]))
      BY <1>3, <1>4, <1>8, <2>1 DEF CoreOK, ChainOK
    <3>2. ASSUME NEW i \in 1 .. Len(fifo'[q]), NEW j \in 1 .. Len(fifo'[q]),
                 fifo'[q][i] = fifo'[q][j] /\ fifo'[q][i] \in Queues
          PROVE  i = j
      <4>1. /\ Len(fifo[q]) \in Nat /\ Len(fifo'[q]) = Len(fifo[q]) + 1 /\ fifo'[q][Len(fifo[q]) + 1] = x
            /\ \A k \in 1 .. Len(fifo[q]) : fifo'[q][k] = fifo[q][k] /\ fifo[q][k] # x
        BY <1>2, <1>3, <1>8 DEF ToSet
      <4>2. \A k, l \in 1 .. Len(fifo[q]) : fifo[q][k] = fifo[q][l] /\ fifo[q][k] \in Queues => k = l
        BY <3>1 DEF ChainOK
      <4> QED
        BY <3>2, <4>1, <4>2
    <3> QED
      BY <1>2, <1>4, <1>8, <3>1, <3>2 DEF ChainOK
  <2>5. /\ \A d \in Clients : Carries(d, q)' <=> Carries(d, q)
        /\ Summoned(q)' <=> Summoned(q)
    <3>1. \A d \in Clients : Carries(d, q)' <=> Carries(d, q)
      BY <1>2, <1>3, <1>7, <1>10 DEF OthersStay, Carries
    <3> QED
      BY <1>3, <1>4, <1>9, <3>1 DEF Summoned
  <2>6. TokenOK(q)' /\ TokenThere(q)'
    BY <1>4, <2>1, <2>5, <1>2 DEF CoreOK, TokenOK, TokenThere
  <2>7. LookedAfter(q)'
    <3>1. CASE fifo[q] = <<>>
      BY <1>6, <1>7, <3>1 DEF LookedAfter
    <3>2. CASE fifo[q] # <<>>
      BY <1>2, <1>4, <1>7, <2>1, <3>2 DEF LookedAfter, CoreOK, OthersStay
    <3> QED
      BY <3>1, <3>2
  <2> QED
    BY <2>2, <2>3, <2>4, <2>6, <2>7 DEF CoreOK
<1>16. \A r \in Queues : CoreOK(r)'
  <2> SUFFICES ASSUME NEW r \in Queues PROVE CoreOK(r)'
    OBVIOUS
  <2>1. CASE r = q
    BY <1>15, <2>1
  <2>2. CASE r = x
    BY <1>14, <2>2
  <2> QED
    BY <1>13, <2>1, <2>2
<1> QED
  BY <1>4, <1>7, <1>8, <1>11, <1>12, <1>16, ClientInv DEF DaemonInv, DaemonType

\* The state change of an enqueue: whoever finds the queue idle takes its wakeup.
LEMMA EnqueueOrWakeupInv ==
    ASSUME DaemonInv, NEW c \in Clients, EnqueueOrWakeup(c)
    PROVE  DaemonInv'
<1>1. PICK q : q = ctx[c].q
  OBVIOUS
<1>2. /\ ctx[c].op \in {"enqueue", "activate"} /\ ctx[c].pc = "orwakeup" /\ q \in Queues /\ ~Canceled(q)
      /\ ctx[c].elm = NONE
      /\ NONE \notin Things /\ NONE \notin {"enqueue", "activate", "cancel"}
  BY <1>1, OpOfPc, SenderLive, DaemonAssumption
     DEF EnqueueOrWakeup, DaemonInv, CoreOK, CtxOK, ElmOK, Things
<1>3. "CANCELED" \notin state[q] /\ failed = FALSE
  BY <1>2 DEF Canceled, DaemonInv
<1>4. /\ state' = [state EXCEPT ![q] = state[q] \cup {"WAKEUP"}]
      /\ kind' = kind /\ gone' = gone /\ fifo' = fifo /\ batch' = batch /\ dpc' = dpc
      /\ drained' = drained /\ unflushed' = unflushed /\ waiting' = waiting /\ called' = called
      /\ cwait' = cwait
  BY <1>1, <1>3 DEF EnqueueOrWakeup, drainVars
<1>4a. failed' = FALSE
  BY <1>1, <1>3 DEF EnqueueOrWakeup
<1> DEFINE free == state[q] \cap {"DRAINING", "WAKEUP", "INACTIVE"} = {}
<1>5. PICK new : /\ new = IF free THEN [ctx[c] EXCEPT !.pc = "wakeup"] ELSE Idle
                 /\ ctx' = [ctx EXCEPT ![c] = new]
  BY <1>1, <1>2 DEF EnqueueOrWakeup, Resume
<1>6. /\ new \in CtxType /\ new.elm = NONE
      /\ free => /\ new.pc = "wakeup" /\ new.op = ctx[c].op /\ new.home = ctx[c].home
                 /\ new.q = q
      /\ ~free => /\ new = Idle /\ new.pc = "idle" /\ new.op = NONE
                  /\ new.home = NONE /\ new.q = NONE
  <2>1. ctx[c] \in CtxType /\ "wakeup" \in Pcs
    BY DEF DaemonInv, DaemonType, Pcs
  <2>2. CASE free
    BY <1>1, <1>2, <1>5, <2>1, <2>2, CallGoesOn
  <2>3. CASE ~free
    BY <1>5, <2>3, IdleQuiet, IdleType
  <2> QED
    BY <2>2, <2>3
<1>7. ctx'[c] = new /\ OthersStay(c) /\ ctx' \in [Clients -> CtxType]
  BY <1>5, <1>6 DEF DaemonInv, DaemonType, OthersStay
<1>8. /\ state'[q] = state[q] \cup {"WAKEUP"} /\ \A r \in Queues \ {q} : state'[r] = state[r]
      /\ state' \in [Queues -> SUBSET StateBits]
  BY <1>2, <1>4 DEF DaemonInv, DaemonType, StateBits
<1>9. \A y : InBatchOrQueue(y)' <=> InBatchOrQueue(y)
  BY <1>4 DEF InBatchOrQueue
<1>10. \A r \in Queues : ~Canceling(c, r) /\ ~Canceling(c, r)' /\ (Sending(c, r)' => Sending(c, r))
                        /\ ~Carries(c, r) /\ (Carries(c, r)' <=> free /\ r = q)
                        /\ (Canceled(r)' <=> Canceled(r))
  BY <1>1, <1>2, <1>6, <1>7, <1>8 DEF Canceling, Sending, Carries, Canceled
<1>11. ClientFrame(c)
  <2>1. \A d \in Clients \ {c} : ctx[d].pc = "append" => ctx'[c].elm # ctx[d].elm
    BY <1>2, <1>6, <1>7, OpOfPc DEF DaemonInv
  <2> QED
    BY <1>1, <1>2, <1>4, <1>7, <1>8, <1>9, <1>10, <2>1 DEF ClientFrame
<1>12. CtxOK(c)'
  <2>1. CASE ~free
    BY <1>2, <1>6, <1>7, <2>1 DEF CtxOK, SendOK, CancelOK, ElmOK
  <2>2. CASE free
    <3>1. SendOK(c) /\ (IsTarget(q)' <=> IsTarget(q))
      BY <1>2, <1>4 DEF DaemonInv, CtxOK, IsTarget
    <3>2. PICK h \in Queues : h = ctx[c].home
      BY <1>2, <3>1 DEF SendOK
    <3>3. ~Canceled(h)'
      BY <1>2, <1>10, <3>1, <3>2 DEF SendOK
    <3> QED
      BY <1>1, <1>2, <1>6, <1>7, <2>2, <3>1, <3>2, <3>3 DEF CtxOK, SendOK, CancelOK, ElmOK
  <2> QED
    BY <2>1, <2>2
<1>13. ASSUME NEW r \in Queues \ {q} PROVE CoreOK(r)'
  <2>1. CoreOK(r) /\ OwnStays(r)
    BY <1>4, <1>8, <1>13 DEF DaemonInv, OwnStays
  <2> QED
    BY <1>1, <1>4, <1>7, <1>9, <1>10, <1>13, <2>1, OtherQueue
<1>14. CoreOK(q)'
  <2>1. CoreOK(q) /\ ~Canceled(q)' /\ ~gone[q]
    BY <1>2, <1>10 DEF DaemonInv, CoreOK, CanceledOK
  <2>2. CanceledOK(q)'
    BY <1>4, <2>1 DEF CanceledOK
  <2>3. DrainOK(q)'
    BY <1>2, <1>4, <1>8, <2>1 DEF CoreOK, DrainOK
  <2>4. ChainOK(q)'
    BY <1>4, <2>1 DEF CoreOK, ChainOK
  <2>5. Summoned(q)' <=> Summoned(q)
    BY <1>4, <1>9 DEF Summoned
  <2>6. "WAKEUP" \in state'[q] /\ ("INACTIVE" \in state'[q] <=> "INACTIVE" \in state[q])
    BY <1>8
  <2>7. \A d \in Clients \ {c} : Carries(d, q)' <=> Carries(d, q)
    BY <1>7 DEF OthersStay, Carries
  <2>8. free => (\A d \in Clients : ~Carries(d, q)) /\ ~Summoned(q) /\ dpc[q] = "idle"
    BY <1>2, <2>1 DEF CoreOK, TokenOK, DrainOK, DaemonInv, DaemonType
  <2>9. TokenOK(q)'
    <3>1. CASE free
      BY <1>4, <1>10, <2>5, <2>6, <2>7, <2>8, <3>1, <1>2 DEF TokenOK
    <3>2. CASE ~free
      BY <1>2, <1>4, <1>10, <2>1, <2>5, <2>6, <2>7, <3>2 DEF TokenOK, CoreOK
    <3> QED
      BY <3>1, <3>2
  <2>10. TokenThere(q)'
    <3>1. CASE free
      BY <1>2, <1>10, <3>1 DEF TokenThere
    <3>2. CASE ~free
      <4>1. "DRAINING" \in state[q] => dpc[q] \in Busy
        BY <2>1 DEF CoreOK, DrainOK
      <4> QED
        BY <1>2, <1>4, <1>10, <2>1, <2>5, <2>6, <2>7, <3>2, <4>1 DEF TokenThere, CoreOK
    <3> QED
      BY <3>1, <3>2
  <2>11. LookedAfter(q)'
    BY <2>6 DEF LookedAfter
  <2> QED
    BY <2>2, <2>3, <2>4, <2>9, <2>10, <2>11 DEF CoreOK
<1>15. \A r \in Queues : CoreOK(r)'
  BY <1>13, <1>14
<1> QED
  BY <1>4, <1>4a, <1>7, <1>8, <1>11, <1>12, <1>15, ClientInv DEF DaemonInv, DaemonType

\* The wakeup passes from the client to the thread or to the thread call.
LEMMA DeliverInv ==
    ASSUME DaemonInv, NEW c \in Clients, NEW q \in Queues, q = ctx[c].q, ctx[c].pc = "wakeup",
           \/ kind[q] = "thread" /\ waiting' = [waiting EXCEPT ![q] = FALSE] /\ called' = called
           \/ kind[q] = "call" /\ called' = [called EXCEPT ![q] = TRUE] /\ waiting' = waiting,
           ctx' = [ctx EXCEPT ![c] = Resume(c)],
           kind' = kind, gone' = gone, state' = state, fifo' = fifo, batch' = batch, dpc' = dpc,
           drained' = drained, unflushed' = unflushed, cwait' = cwait, failed' = FALSE
    PROVE  DaemonInv'
<1>1. /\ ~gone[q] /\ Carries(c, q) /\ ctx[c].elm = NONE
      /\ ctx[c].op \in {"enqueue", "activate", "cancel"}
      /\ ctx[c].op = "cancel" => Canceled(q) /\ ctx[c].home = q
      /\ ctx[c].op # "cancel" => ~Canceled(q)
      /\ NONE \notin Things /\ NONE \notin {"enqueue", "activate", "cancel"}
  BY WakerFacts, DaemonAssumption DEF Things
<1>2. PICK new : new = Resume(c)
  OBVIOUS
<1>3. /\ new \in CtxType /\ new.elm = NONE
      /\ ctx[c].op = "cancel" => /\ new.pc = "block" /\ new.op = "cancel" /\ new.home = q
                                 /\ new.q = q
      /\ ctx[c].op # "cancel" => /\ new = Idle /\ new.pc = "idle" /\ new.op = NONE
                                 /\ new.home = NONE /\ new.q = NONE
  <2>1. ctx[c] \in CtxType
    BY DEF DaemonInv, DaemonType
  <2>2. CASE ctx[c].op = "cancel"
    BY <1>1, <1>2, <2>1, <2>2 DEF Resume, CtxType, Pcs
  <2>3. CASE ctx[c].op # "cancel"
    BY <1>2, <2>3, IdleQuiet, IdleType DEF Resume
  <2> QED
    BY <2>2, <2>3
<1>4. ctx'[c] = new /\ OthersStay(c) /\ ctx' \in [Clients -> CtxType]
  BY <1>2, <1>3 DEF DaemonInv, DaemonType, OthersStay
<1>5. /\ kind[q] = "thread" => waiting'[q] = FALSE /\ called'[q] = called[q]
      /\ kind[q] = "call" => called'[q] = TRUE /\ waiting'[q] = waiting[q]
      /\ kind[q] \in {"thread", "call"}
      /\ \A r \in Queues \ {q} : waiting'[r] = waiting[r] /\ called'[r] = called[r]
      /\ waiting' \in [Queues -> BOOLEAN] /\ called' \in [Queues -> BOOLEAN]
  <2>1. waiting \in [Queues -> BOOLEAN] /\ called \in [Queues -> BOOLEAN]
    BY DEF DaemonInv, DaemonType
  <2> QED
    BY <2>1
<1>6. \A y : InBatchOrQueue(y)' <=> InBatchOrQueue(y)
  BY DEF InBatchOrQueue
<1>7. \A r \in Queues : /\ Canceling(c, r)' <=> Canceling(c, r)
                        /\ Sending(c, r)' => Sending(c, r)
                        /\ Carries(c, r) <=> r = q
                        /\ ~Carries(c, r)'
                        /\ Canceled(r)' <=> Canceled(r)
  BY <1>1, <1>3, <1>4 DEF Canceling, Sending, Carries, Canceled
<1>8. ClientFrame(c)
  <2>1. \A d \in Clients \ {c} : ctx[d].pc = "append" => ctx'[c].elm # ctx[d].elm
    BY <1>1, <1>3, <1>4, OpOfPc DEF DaemonInv
  <2> QED
    BY <1>4, <1>6, <1>7, <2>1 DEF ClientFrame
<1>9. CtxOK(c)'
  <2>1. CASE ctx[c].op # "cancel"
    BY <1>1, <1>3, <1>4, <2>1 DEF CtxOK, SendOK, CancelOK, ElmOK
  <2>2. CASE ctx[c].op = "cancel"
    <3>1. /\ kind[q] \in {"thread", "call"} /\ ~IsTarget(q) /\ ~gone[q] /\ "INACTIVE" \notin state[q]
          /\ \A d \in Clients : ~Sending(d, q) /\ (Canceling(d, q) => d = c)
      BY <1>1, <2>2 DEF DaemonInv, CtxOK, CancelOK
    <3>2. IsTarget(q)' <=> IsTarget(q)
      BY DEF IsTarget
    <3>3. \A d \in Clients : ~Sending(d, q)' /\ (Canceling(d, q)' => d = c)
      BY <1>4, <1>7, <3>1 DEF OthersStay, Sending, Canceling
    <3>4. Canceled(q)'
      BY <1>1, <1>7, <2>2
    <3> QED
      BY <1>1, <1>3, <1>4, <2>2, <3>1, <3>2, <3>3, <3>4 DEF CtxOK, SendOK, CancelOK, ElmOK
  <2> QED
    BY <2>1, <2>2
<1>10. ASSUME NEW r \in Queues \ {q} PROVE CoreOK(r)'
  <2>1. CoreOK(r) /\ OwnStays(r)
    BY <1>5, <1>10 DEF DaemonInv, OwnStays
  <2> QED
    BY <1>4, <1>6, <1>7, <1>10, <2>1, OtherQueue
<1>11. CoreOK(q)'
  <2>1. CoreOK(q) /\ (Canceled(q)' <=> Canceled(q))
    BY <1>7 DEF DaemonInv
  <2>2. (\A d \in Clients : Sending(d, q)' => Sending(d, q)) /\ (\A d \in Clients : Canceling(d, q) => Canceling(d, q)')
    BY <1>4, <1>7 DEF OthersStay, Sending, Canceling
  <2>3. IsTarget(q)' <=> IsTarget(q)
    BY DEF IsTarget
  <2>4. CanceledOK(q)'
    BY <1>1, <2>1, <2>2, <2>3 DEF CanceledOK, CoreOK
  <2>5. ~Canceled(q) => dpc[q] = "idle" /\ "WAKEUP" \in state[q] /\ "INACTIVE" \notin state[q]
    BY <1>1, <2>1 DEF CoreOK, TokenOK
  <2>6. DrainOK(q)'
    BY <1>5, <2>1, <2>5 DEF DrainOK, CoreOK
  <2>7. ChainOK(q)' /\ LookedAfter(q)'
    <3>1. ChainOK(q)'
      BY <2>1 DEF ChainOK, CoreOK
    <3>2. \A d \in Clients : ctx[d].pc = "orwakeup" /\ ctx[d].q = q => ctx'[d].pc = "orwakeup" /\ ctx'[d].q = q
      BY <1>4 DEF OthersStay
    <3>3. LookedAfter(q)'
      BY <2>1, <3>2 DEF LookedAfter, CoreOK
    <3> QED
      BY <3>1, <3>3
  <2>8. dpc[q] = "idle" => Summoned(q)'
    BY <1>5 DEF Summoned
  <2>9. TokenOK(q)'
    <3> SUFFICES ASSUME ~Canceled(q) PROVE TokenOK(q)'
      BY <2>1 DEF TokenOK
    <3>1. \A d \in Clients : ~Carries(d, q)'
      BY <1>1, <1>4, <1>7, <2>1 DEF OthersStay, Carries, CoreOK, TokenOK
    <3> QED
      BY <2>5, <3>1 DEF TokenOK
  <2>10. TokenThere(q)'
    <3> SUFFICES ASSUME "WAKEUP" \in state[q], "INACTIVE" \notin state[q], dpc[q] # "idle"
                 PROVE  dpc[q] \in Busy \cup {"xor"}
      BY <2>8 DEF TokenThere
    <3> QED
      BY <2>1 DEF CoreOK, DrainOK, CanceledOK, DaemonInv, DaemonType
  <2> QED
    BY <2>4, <2>6, <2>7, <2>9, <2>10 DEF CoreOK
<1>12. \A r \in Queues : CoreOK(r)'
  BY <1>10, <1>11
<1> QED
  BY <1>4, <1>5, <1>8, <1>9, <1>12, ClientInv DEF DaemonInv, DaemonType

\* _mpsc_queue_thread_wakeup and _mpsc_queue_thread_call_wakeup
LEMMA WakeupInv ==
    ASSUME DaemonInv, NEW c \in Clients, WakeupThread(c) \/ WakeupCall(c)
    PROVE  DaemonInv'
<1>1. PICK q : q = ctx[c].q
  OBVIOUS
<1>2. ctx[c].pc = "wakeup"
  BY DEF WakeupThread, WakeupCall
<1>3. q \in Queues /\ gone[q] = FALSE /\ failed = FALSE
  <2>1. q \in Queues /\ ~gone[q]
    BY <1>1, <1>2, WakerFacts
  <2> QED
    BY <2>1 DEF DaemonInv, DaemonType
<1>4. failed' = FALSE
  BY <1>1, <1>3 DEF WakeupThread, WakeupCall
<1>5. CASE WakeupThread(c)
  BY <1>1, <1>2, <1>3, <1>4, <1>5, DeliverInv DEF WakeupThread, drainVars
<1>6. CASE WakeupCall(c)
  BY <1>1, <1>2, <1>3, <1>4, <1>6, DeliverInv DEF WakeupCall, drainVars
<1> QED
  BY <1>5, <1>6

\* _mpsc_daemon_queue_nested_wakeup: the wakeup stays with the client, as the chain
\* it is about to append.
LEMMA WakeupNestedInv ==
    ASSUME DaemonInv, NEW c \in Clients, WakeupNested(c)
    PROVE  DaemonInv'
<1>1. PICK q : q = ctx[c].q
  OBVIOUS
<1>2. ctx[c].pc = "wakeup" /\ kind[q] = "nested"
  BY <1>1 DEF WakeupNested
<1>3. /\ q \in Queues /\ ~gone[q] /\ Carries(c, q) /\ CoreOK(q) /\ ~Canceled(q)
      /\ ctx[c].op \in {"enqueue", "activate", "cancel"}
      /\ ctx[c].op = "cancel" => Canceled(q)
  <2>1. q \in Queues /\ ~gone[q] /\ Carries(c, q) /\ CoreOK(q)
        /\ ctx[c].op \in {"enqueue", "activate", "cancel"}
        /\ (ctx[c].op = "cancel" => Canceled(q))
    BY <1>1, <1>2, WakerFacts DEF DaemonInv
  <2> QED
    BY <1>2, <2>1 DEF CoreOK, CanceledOK
<1>4. gone[q] = FALSE /\ failed = FALSE
  BY <1>3 DEF DaemonInv, DaemonType
<1>5. failed' = FALSE
  BY <1>1, <1>4 DEF WakeupNested
<1>6. PICK new : /\ new = [ctx[c] EXCEPT !.pc = "append", !.q = Target[q], !.elm = q]
                 /\ ctx' = [ctx EXCEPT ![c] = new]
  BY <1>1 DEF WakeupNested
<1>7. /\ kind' = kind /\ gone' = gone /\ state' = state /\ fifo' = fifo /\ batch' = batch /\ dpc' = dpc
      /\ drained' = drained /\ unflushed' = unflushed /\ waiting' = waiting /\ called' = called
      /\ cwait' = cwait
  BY DEF WakeupNested, drainVars
<1>8. Target[q] \in Queues /\ IsTarget(Target[q])
  BY <1>2, <1>3, TargetOther DEF DaemonInv, DaemonType, Nested, IsTarget
<1>9. /\ new \in CtxType /\ new.pc = "append" /\ new.op = ctx[c].op /\ new.home = ctx[c].home
      /\ new.q = Target[q] /\ new.elm = q
  BY <1>3, <1>6, <1>8 DEF DaemonInv, DaemonType, CtxType, Pcs, Things
<1>10. ctx'[c] = new /\ OthersStay(c) /\ ctx' \in [Clients -> CtxType]
  BY <1>6, <1>9 DEF DaemonInv, DaemonType, OthersStay
<1>11. \A y : InBatchOrQueue(y)' <=> InBatchOrQueue(y)
  BY <1>7 DEF InBatchOrQueue
<1>12. \A r \in Queues : /\ Canceling(c, r)' <=> Canceling(c, r)
                         /\ Sending(c, r)' => Sending(c, r)
                         /\ Carries(c, r)' <=> Carries(c, r)
                         /\ Canceled(r)' <=> Canceled(r)
  BY <1>1, <1>2, <1>7, <1>9, <1>10 DEF Canceling, Sending, Carries, Canceled
<1>13. ~InBatchOrQueue(q) /\ \A d \in Clients : ctx[d].elm # q
  <2>1. ~Summoned(q) /\ \A d \in Clients : Carries(d, q) => d = c
    BY <1>3 DEF CoreOK, TokenOK
  <2>2. \A d \in Clients : ctx[d].elm = q => ctx[d].pc = "append"
    BY <1>3, OpOfPc, DaemonAssumption DEF DaemonInv
  <2> QED
    BY <1>2, <2>1, <2>2 DEF Summoned, Carries
<1>14. ClientFrame(c)
  BY <1>7, <1>9, <1>10, <1>11, <1>12, <1>13 DEF ClientFrame
<1>15. CtxOK(c)'
  <2>1. SendOK(c) /\ (IsTarget(Target[q])' <=> IsTarget(Target[q])) /\ ctx[c].op \in {"enqueue", "activate"}
    BY <1>3, <1>7 DEF DaemonInv, CtxOK, IsTarget
  <2>2. PICK h \in Queues : h = ctx[c].home
    BY <2>1 DEF SendOK
  <2>3. ~Canceled(h)'
    BY <1>12, <2>1, <2>2 DEF SendOK
  <2>4. \A d \in Clients : ctx'[d].elm = q => d = c
    BY <1>10, <1>13 DEF OthersStay
  <2>5. NONE \notin {"enqueue", "activate", "cancel"}
    BY DaemonAssumption
  <2> QED
    BY <1>2, <1>3, <1>7, <1>8, <1>9, <1>10, <1>11, <1>13, <2>1, <2>2, <2>3, <2>4, <2>5
       DEF CtxOK, SendOK, CancelOK, ElmOK, Things
<1>16. ASSUME NEW r \in Queues PROVE CoreOK(r)'
  <2>1. CoreOK(r) /\ OwnStays(r)
    BY <1>7 DEF DaemonInv, OwnStays
  <2> QED
    BY <1>2, <1>7, <1>10, <1>11, <1>12, <2>1, OtherQueue
<1> QED
  BY <1>5, <1>7, <1>10, <1>14, <1>15, <1>16, ClientInv DEF DaemonInv, DaemonType

\* mpsc_daemon_queue_activate: whoever activates a queue with WAKEUP set takes its wakeup.
LEMMA ActivateInv ==
    ASSUME DaemonInv, NEW c \in Clients, NEW q \in Queues, Activate(c, q)
    PROVE  DaemonInv'
<1> DEFINE set == {"WAKEUP", "INACTIVE"} \subseteq state[q]
<1>1. /\ ctx[c].pc = "idle" /\ ctx[c].op = NONE /\ ctx[c].home = NONE /\ ctx[c].q = NONE
      /\ ctx[c].elm = NONE /\ MaySend(q)
      /\ NONE \notin Things /\ NONE \notin {"enqueue", "activate", "cancel"}
  BY IdleQuiet, DaemonAssumption DEF Activate, Things
<1>2. CoreOK(q) /\ ~Canceled(q) /\ ~gone[q]
  BY <1>1, MaySendLive DEF DaemonInv, CoreOK
<1>3. /\ state' = [state EXCEPT ![q] = state[q] \ {"INACTIVE"}]
      /\ kind' = kind /\ gone' = gone /\ fifo' = fifo /\ batch' = batch /\ dpc' = dpc
      /\ drained' = drained /\ unflushed' = unflushed /\ waiting' = waiting /\ called' = called
      /\ cwait' = cwait /\ failed' = failed
  BY DEF Activate, drainVars
<1>4. PICK new : /\ new = IF set
                          THEN [pc |-> "wakeup", op |-> "activate", home |-> q, q |-> q, elm |-> NONE]
                          ELSE Idle
                 /\ ctx' = [ctx EXCEPT ![c] = new]
  BY DEF Activate
<1>5. /\ new \in CtxType /\ new.elm = NONE
      /\ set => /\ new.pc = "wakeup" /\ new.op = "activate" /\ new.home = q /\ new.q = q
      /\ ~set => /\ new = Idle /\ new.pc = "idle" /\ new.op = NONE /\ new.home = NONE /\ new.q = NONE
  <2>1. CASE set
    BY <1>4, <2>1 DEF CtxType, Pcs, Ops
  <2>2. CASE ~set
    BY <1>4, <2>2, IdleQuiet, IdleType
  <2> QED
    BY <2>1, <2>2
<1> HIDE DEF set
<1>6. ctx'[c] = new /\ OthersStay(c) /\ ctx' \in [Clients -> CtxType]
  BY <1>4, <1>5 DEF DaemonInv, DaemonType, OthersStay
<1>7. /\ state'[q] = state[q] \ {"INACTIVE"} /\ \A r \in Queues \ {q} : state'[r] = state[r]
      /\ state' \in [Queues -> SUBSET StateBits]
  BY <1>3 DEF DaemonInv, DaemonType, StateBits
<1>8. \A y : InBatchOrQueue(y)' <=> InBatchOrQueue(y)
  BY <1>3 DEF InBatchOrQueue
<1>9. \A r \in Queues : /\ ~Canceling(c, r) /\ ~Canceling(c, r)' /\ (Sending(c, r)' => r = q)
                        /\ ~Carries(c, r) /\ (Carries(c, r)' <=> set /\ r = q)
                        /\ (Canceled(r)' <=> Canceled(r))
  BY <1>1, <1>5, <1>6, <1>7 DEF Canceling, Sending, Carries, Canceled, Things
<1>10. ClientFrame(c)
  <2>1. \A d \in Clients \ {c} : ctx[d].pc = "append" => ctx'[c].elm # ctx[d].elm
    BY <1>1, <1>5, <1>6, OpOfPc DEF DaemonInv
  <2> QED
    BY <1>1, <1>3, <1>6, <1>7, <1>8, <1>9, <2>1 DEF ClientFrame
<1>11. CtxOK(c)'
  <2>1. CASE ~set
    BY <1>1, <1>5, <1>6, <2>1 DEF CtxOK, SendOK, CancelOK, ElmOK
  <2>2. CASE set
    <3>1. ~Canceled(q)'
      BY <1>2, <1>9
    <3> QED
      BY <1>1, <1>5, <1>6, <2>2, <3>1 DEF CtxOK, SendOK, CancelOK, ElmOK
  <2> QED
    BY <2>1, <2>2
<1>12. ASSUME NEW r \in Queues \ {q} PROVE CoreOK(r)'
  <2>1. CoreOK(r) /\ OwnStays(r)
    BY <1>3, <1>7, <1>12 DEF DaemonInv, OwnStays
  <2> QED
    BY <1>1, <1>3, <1>6, <1>8, <1>9, <1>12, <2>1, OtherQueue
<1>13. CoreOK(q)'
  <2>1. ~Canceled(q)'
    BY <1>2, <1>9
  <2>2. CanceledOK(q)'
    BY <1>2, <1>3, <2>1 DEF CanceledOK
  <2>3. DrainOK(q)'
    BY <1>2, <1>3, <1>7, <2>1 DEF CoreOK, DrainOK
  <2>4. ChainOK(q)'
    BY <1>2, <1>3 DEF CoreOK, ChainOK
  <2>5. Summoned(q)' <=> Summoned(q)
    BY <1>3, <1>8 DEF Summoned
  <2>6. "INACTIVE" \notin state'[q] /\ ("WAKEUP" \in state'[q] <=> "WAKEUP" \in state[q])
    BY <1>7
  <2>7. \A d \in Clients \ {c} : Carries(d, q)' <=> Carries(d, q)
    BY <1>6 DEF OthersStay, Carries
  <2>8. set => /\ "WAKEUP" \in state[q] /\ (\A d \in Clients : ~Carries(d, q)) /\ ~Summoned(q)
               /\ dpc[q] = "idle"
    BY <1>2 DEF CoreOK, TokenOK, DrainOK, set
  <2>9. TokenOK(q)'
    <3>1. CASE set
      BY <1>3, <1>9, <2>5, <2>6, <2>7, <2>8, <3>1 DEF TokenOK
    <3>2. CASE ~set
      BY <1>2, <1>3, <1>9, <2>5, <2>6, <2>7, <3>2 DEF TokenOK, CoreOK
    <3> QED
      BY <3>1, <3>2
  <2>10. TokenThere(q)'
    <3>1. CASE set
      BY <1>9, <3>1 DEF TokenThere
    <3>2. CASE ~set
      <4>1. "WAKEUP" \in state[q] => "INACTIVE" \notin state[q]
        BY <3>2 DEF set
      <4> QED
        BY <1>2, <1>3, <1>9, <2>5, <2>6, <2>7, <3>2, <4>1 DEF TokenThere, CoreOK
    <3> QED
      BY <3>1, <3>2
  <2>11. LookedAfter(q)'
    BY <1>1, <1>2, <1>3, <1>6, <2>6 DEF LookedAfter, CoreOK, OthersStay
  <2> QED
    BY <2>2, <2>3, <2>4, <2>9, <2>10, <2>11 DEF CoreOK
<1>14. \A r \in Queues : CoreOK(r)'
  BY <1>12, <1>13
<1> QED
  BY <1>3, <1>6, <1>7, <1>10, <1>11, <1>14, ClientInv DEF DaemonInv, DaemonType

\* The assert_wait of a cancelation.
LEMMA CancelAssertWaitInv ==
    ASSUME CarefulOwners, DaemonInv, NEW c \in Clients, NEW q \in Queues, CancelAssertWait(c, q)
    PROVE  DaemonInv'
<1>1. /\ ctx[c].pc = "idle" /\ ctx[c].op = NONE /\ ctx[c].home = NONE /\ ctx[c].q = NONE
      /\ ctx[c].elm = NONE /\ MaySend(q) /\ ~IsTarget(q) /\ "INACTIVE" \notin state[q]
      /\ \A d \in Clients : ~Sending(d, q) /\ ~Canceling(d, q)
      /\ NONE \notin Things /\ NONE \notin {"enqueue", "activate", "cancel"}
  BY IdleQuiet, DaemonAssumption DEF CancelAssertWait, MayCancel, MaySend, Things, CarefulOwners
<1>2. CoreOK(q) /\ ~Canceled(q) /\ ~gone[q] /\ kind[q] \in {"thread", "call"}
  <2>1. kind \in Kinds /\ q \in Cancelable /\ kind[q] # "unknown"
    BY DEF DaemonInv, DaemonType, CancelAssertWait, MayCancel, MaySend
  <2>2. kind[q] \in {"thread", "call", "nested", "unknown"} /\ kind[q] # "nested"
    BY <2>1, DaemonAssumption DEF CarefulOwners
  <2> QED
    BY <1>1, <2>1, <2>2, MaySendLive DEF DaemonInv, CoreOK
<1>3. /\ cwait' = [cwait EXCEPT ![q] = TRUE]
      /\ kind' = kind /\ gone' = gone /\ fifo' = fifo /\ batch' = batch /\ dpc' = dpc
      /\ drained' = drained /\ unflushed' = unflushed /\ waiting' = waiting /\ called' = called
      /\ state' = state /\ failed' = failed
  BY DEF CancelAssertWait, drainVars
<1>4. PICK new : /\ new = [pc |-> "orcanceled", op |-> "cancel", home |-> q, q |-> q, elm |-> NONE]
                 /\ ctx' = [ctx EXCEPT ![c] = new]
  BY DEF CancelAssertWait
<1>5. /\ new \in CtxType /\ new.elm = NONE /\ new.pc = "orcanceled" /\ new.op = "cancel"
      /\ new.home = q /\ new.q = q
  BY <1>4 DEF CtxType, Pcs, Ops
<1>6. ctx'[c] = new /\ OthersStay(c) /\ ctx' \in [Clients -> CtxType]
  BY <1>4, <1>5 DEF DaemonInv, DaemonType, OthersStay
<1>7. cwait'[q] = TRUE /\ (\A r \in Queues \ {q} : cwait'[r] = cwait[r]) /\ cwait' \in [Queues -> BOOLEAN]
  BY <1>3 DEF DaemonInv, DaemonType
<1>8. \A y : InBatchOrQueue(y)' <=> InBatchOrQueue(y)
  BY <1>3 DEF InBatchOrQueue
<1>9. \A r \in Queues : /\ ~Canceling(c, r) /\ (Canceling(c, r)' <=> r = q) /\ ~Sending(c, r)'
                        /\ ~Carries(c, r) /\ ~Carries(c, r)'
                        /\ (Canceled(r)' <=> Canceled(r))
  BY <1>1, <1>3, <1>5, <1>6 DEF Canceling, Sending, Carries, Canceled, Things
<1>10. ClientFrame(c)
  <2>1. \A d \in Clients \ {c} : ctx[d].pc = "append" => ctx'[c].elm # ctx[d].elm
    BY <1>1, <1>5, <1>6, OpOfPc DEF DaemonInv
  <2> QED
    BY <1>1, <1>3, <1>6, <1>7, <1>8, <1>9, <2>1 DEF ClientFrame
<1>11. CtxOK(c)'
  <2>1. IsTarget(q)' <=> IsTarget(q)
    BY <1>3 DEF IsTarget
  <2>2. \A d \in Clients : ~Sending(d, q)' /\ (Canceling(d, q)' => d = c)
    BY <1>1, <1>6, <1>9 DEF OthersStay, Sending, Canceling
  <2>3. ~Canceled(q)' /\ cwait'[q]
    BY <1>2, <1>7, <1>9
  <2> QED
    BY <1>1, <1>2, <1>3, <1>5, <1>6, <2>1, <2>2, <2>3 DEF CtxOK, SendOK, CancelOK, ElmOK
<1>12. ASSUME NEW r \in Queues \ {q} PROVE CoreOK(r)'
  <2>1. CoreOK(r) /\ OwnStays(r)
    BY <1>3, <1>7, <1>12 DEF DaemonInv, OwnStays
  <2> QED
    BY <1>1, <1>3, <1>6, <1>8, <1>9, <1>12, <2>1, OtherQueue
<1>13. CoreOK(q)'
  <2>1. ~Canceled(q)'
    BY <1>2, <1>9
  <2>2. CanceledOK(q)'
    BY <1>2, <1>3, <2>1 DEF CanceledOK
  <2>3. DrainOK(q)'
    BY <1>2, <1>3, <2>1 DEF CoreOK, DrainOK
  <2>4. ChainOK(q)'
    BY <1>2, <1>3 DEF CoreOK, ChainOK
  <2>5. (Summoned(q)' <=> Summoned(q)) /\ \A d \in Clients : Carries(d, q)' <=> Carries(d, q)
    <3>1. \A d \in Clients : Carries(d, q)' <=> Carries(d, q)
      BY <1>6, <1>9 DEF OthersStay, Carries
    <3> QED
      BY <1>3, <1>8, <3>1 DEF Summoned
  <2>6. TokenOK(q)'
    BY <1>2, <1>3, <2>5 DEF TokenOK, CoreOK
  <2>7. TokenThere(q)'
    BY <1>2, <1>3, <2>5 DEF TokenThere, CoreOK
  <2>8. LookedAfter(q)'
    BY <1>1, <1>2, <1>3, <1>6 DEF LookedAfter, CoreOK, OthersStay
  <2> QED
    BY <2>2, <2>3, <2>4, <2>6, <2>7, <2>8 DEF CoreOK
<1>14. \A r \in Queues : CoreOK(r)'
  BY <1>12, <1>13
<1> QED
  BY <1>3, <1>6, <1>7, <1>10, <1>11, <1>14, ClientInv DEF DaemonInv, DaemonType

\* The state change of a cancelation; the queue is not nested, so it is always woken.
LEMMA CancelOrInv ==
    ASSUME DaemonInv, NEW c \in Clients, CancelOr(c)
    PROVE  DaemonInv'
<1>1. PICK q : q = ctx[c].q
  OBVIOUS
<1>2. /\ ctx[c].pc = "orcanceled" /\ ctx[c].op = "cancel" /\ ctx[c].home = q /\ q \in Queues
      /\ ctx[c].elm = NONE
      /\ kind[q] \in {"thread", "call"} /\ ~IsTarget(q) /\ ~gone[q] /\ "INACTIVE" \notin state[q]
      /\ \A d \in Clients : ~Sending(d, q) /\ (Canceling(d, q) => d = c)
      /\ ~Canceled(q) /\ cwait[q]
      /\ NONE \notin Things /\ NONE \notin {"enqueue", "activate", "cancel"}
  BY <1>1, OpOfPc, DaemonAssumption DEF CancelOr, DaemonInv, CtxOK, CancelOK, Things
<1>3. failed = FALSE /\ state[q] \cap {"CANCELED", "INACTIVE"} = {} /\ kind[q] # "nested"
  BY <1>2 DEF DaemonInv, Canceled
<1>4. failed' = FALSE
  BY <1>1, <1>3 DEF CancelOr
<1>5. /\ state' = [state EXCEPT ![q] = state[q] \cup {"CANCELED"}]
      /\ kind' = kind /\ gone' = gone /\ fifo' = fifo /\ batch' = batch /\ dpc' = dpc
      /\ drained' = drained /\ unflushed' = unflushed /\ waiting' = waiting /\ called' = called
      /\ cwait' = cwait
  BY <1>1, <1>3 DEF CancelOr, drainVars
<1>6. PICK new : new = [ctx[c] EXCEPT !.pc = "wakeup"] /\ ctx' = [ctx EXCEPT ![c] = new]
  BY <1>1, <1>3 DEF CancelOr
<1>7. /\ new \in CtxType /\ new.elm = NONE /\ new.pc = "wakeup" /\ new.op = "cancel"
      /\ new.home = q /\ new.q = q
  <2>1. ctx[c] \in CtxType /\ "wakeup" \in Pcs
    BY DEF DaemonInv, DaemonType, Pcs
  <2> QED
    BY <1>1, <1>2, <1>6, <2>1, CallGoesOn
<1>8. ctx'[c] = new /\ OthersStay(c) /\ ctx' \in [Clients -> CtxType]
  BY <1>6, <1>7 DEF DaemonInv, DaemonType, OthersStay
<1>9. /\ state'[q] = state[q] \cup {"CANCELED"} /\ \A r \in Queues \ {q} : state'[r] = state[r]
      /\ state' \in [Queues -> SUBSET StateBits]
  BY <1>2, <1>5 DEF DaemonInv, DaemonType, StateBits
<1>10. \A y : InBatchOrQueue(y)' <=> InBatchOrQueue(y)
  BY <1>5 DEF InBatchOrQueue
<1>11. \A r \in Queues : /\ (Canceling(c, r) <=> r = q) /\ (Canceling(c, r)' <=> r = q) /\ ~Sending(c, r)'
                         /\ ~Carries(c, r) /\ (Carries(c, r)' <=> r = q)
                         /\ (Canceled(r)' <=> Canceled(r) \/ r = q)
  BY <1>1, <1>2, <1>7, <1>8, <1>9 DEF Canceling, Sending, Carries, Canceled, Things
<1>12. ClientFrame(c)
  <2>1. \A d \in Clients \ {c} : ctx[d].pc = "append" => ctx'[c].elm # ctx[d].elm
    BY <1>2, <1>7, <1>8, OpOfPc DEF DaemonInv
  <2> QED
    BY <1>2, <1>5, <1>8, <1>9, <1>10, <1>11, <2>1 DEF ClientFrame
<1>13. /\ IsTarget(q)' <=> IsTarget(q)
       /\ \A d \in Clients : ~Sending(d, q)' /\ (Canceling(d, q)' => d = c)
  <2>1. IsTarget(q)' <=> IsTarget(q)
    BY <1>5 DEF IsTarget
  <2> QED
    BY <1>2, <1>8, <1>11, <2>1 DEF OthersStay, Sending, Canceling
<1>14. CtxOK(c)'
  <2>1. Canceled(q)' /\ "INACTIVE" \notin state'[q]
    BY <1>2, <1>9, <1>11
  <2> QED
    BY <1>2, <1>5, <1>7, <1>8, <1>13, <2>1 DEF CtxOK, SendOK, CancelOK, ElmOK
<1>15. ASSUME NEW r \in Queues \ {q} PROVE CoreOK(r)'
  <2>1. CoreOK(r) /\ OwnStays(r)
    BY <1>5, <1>9, <1>15 DEF DaemonInv, OwnStays
  <2> QED
    BY <1>2, <1>5, <1>8, <1>10, <1>11, <1>15, <2>1, OtherQueue
<1>16. CoreOK(q)'
  <2>1. Canceled(q)' /\ "INACTIVE" \notin state'[q] /\ CoreOK(q) /\ Canceling(c, q)' /\ cwait[q]
    BY <1>2, <1>9, <1>11 DEF DaemonInv
  <2>2. CanceledOK(q)'
    BY <1>2, <1>5, <1>13, <2>1 DEF CanceledOK
  <2>3. DrainOK(q)'
    BY <1>2, <1>5, <1>9, <2>1 DEF CoreOK, DrainOK
  <2>4. ChainOK(q)'
    BY <1>5, <2>1 DEF CoreOK, ChainOK
  <2>5. TokenOK(q)'
    BY <2>1 DEF TokenOK
  <2>6. TokenThere(q)'
    BY <1>2, <1>11 DEF TokenThere
  <2>7. LookedAfter(q)'
    BY <1>2, <1>5, <1>8, <1>9, <2>1 DEF LookedAfter, CoreOK, OthersStay
  <2> QED
    BY <2>2, <2>3, <2>4, <2>5, <2>6, <2>7 DEF CoreOK
<1>17. \A r \in Queues : CoreOK(r)'
  BY <1>15, <1>16
<1> QED
  BY <1>4, <1>5, <1>8, <1>9, <1>12, <1>14, <1>17, ClientInv DEF DaemonInv, DaemonType

\* The return of a cancelation: the drain is over, and nobody refers to the queue.
LEMMA CancelReturnInv ==
    ASSUME DaemonInv, NEW c \in Clients, CancelReturn(c)
    PROVE  DaemonInv'
<1>1. PICK q : q = ctx[c].home
  OBVIOUS
<1>2. /\ ctx[c].pc = "block" /\ ctx[c].op = "cancel" /\ ctx[c].q = q /\ q \in Queues
      /\ ctx[c].elm = NONE /\ ~cwait[q]
      /\ kind[q] \in {"thread", "call"}
      /\ \A d \in Clients : ~Sending(d, q) /\ (Canceling(d, q) => d = c)
      /\ Canceled(q)
      /\ NONE \notin Things /\ NONE \notin {"enqueue", "activate", "cancel"}
  BY <1>1, OpOfPc, DaemonAssumption DEF CancelReturn, DaemonInv, CtxOK, CancelOK, Things
<1>3. /\ called' = [called EXCEPT ![q] = FALSE] /\ gone' = [gone EXCEPT ![q] = TRUE]
      /\ kind' = kind /\ state' = state /\ fifo' = fifo /\ batch' = batch /\ dpc' = dpc
      /\ drained' = drained /\ unflushed' = unflushed /\ waiting' = waiting
      /\ cwait' = cwait /\ failed' = failed
      /\ ctx' = [ctx EXCEPT ![c] = Idle]
      /\ kind[q] = "call" => dpc[q] = "idle"
  BY <1>1 DEF CancelReturn, drainVars
<1>4. ctx'[c] = Idle /\ OthersStay(c) /\ ctx' \in [Clients -> CtxType]
  BY <1>3, IdleType DEF DaemonInv, DaemonType, OthersStay
<1>5. /\ ctx'[c].pc = "idle" /\ ctx'[c].op = NONE /\ ctx'[c].home = NONE /\ ctx'[c].q = NONE
      /\ ctx'[c].elm = NONE
  BY <1>4, IdleQuiet
<1>6. /\ called'[q] = FALSE /\ gone'[q] = TRUE
      /\ \A r \in Queues \ {q} : called'[r] = called[r] /\ gone'[r] = gone[r]
      /\ called' \in [Queues -> BOOLEAN] /\ gone' \in [Queues -> BOOLEAN]
  BY <1>2, <1>3 DEF DaemonInv, DaemonType
<1>7. \A y : InBatchOrQueue(y)' <=> InBatchOrQueue(y)
  BY <1>3 DEF InBatchOrQueue
<1>8. \A r \in Queues : /\ (Canceling(c, r) <=> r = q) /\ ~Canceling(c, r)' /\ ~Sending(c, r)'
                        /\ ~Carries(c, r) /\ ~Carries(c, r)'
                        /\ (Canceled(r)' <=> Canceled(r))
  BY <1>1, <1>2, <1>3, <1>5 DEF Canceling, Sending, Carries, Canceled, Things
<1>9. ClientFrame(c)
  <2>1. \A d \in Clients \ {c} : ctx[d].pc = "append" => ctx'[c].elm # ctx[d].elm
    BY <1>2, <1>5, OpOfPc DEF DaemonInv
  <2> QED
    BY <1>2, <1>3, <1>4, <1>6, <1>7, <1>8, <2>1 DEF ClientFrame
<1>10. CtxOK(c)'
  BY <1>2, <1>4, <1>5 DEF CtxOK, SendOK, CancelOK, ElmOK
<1>11. ASSUME NEW r \in Queues \ {q} PROVE CoreOK(r)'
  <2>1. CoreOK(r) /\ OwnStays(r)
    BY <1>3, <1>6, <1>11 DEF DaemonInv, OwnStays
  <2> QED
    BY <1>2, <1>3, <1>4, <1>7, <1>8, <1>11, <2>1, OtherQueue
<1>12. CoreOK(q)'
  <2>1. Canceled(q)' /\ CoreOK(q) /\ gone'[q] /\ ~called'[q] /\ ~cwait[q]
    BY <1>2, <1>6, <1>8 DEF DaemonInv
  <2>2. /\ dpc[q] \in {"idle", "terminated"} /\ "WAKEUP" \notin state[q] /\ "INACTIVE" \notin state[q]
        /\ fifo[q] = <<>> /\ batch[q] = <<>> /\ ~IsTarget(q)
        /\ kind[q] = "thread" => dpc[q] = "terminated"
    BY <1>2, <1>3, <2>1 DEF CoreOK, CanceledOK
  <2>3. (IsTarget(q)' <=> IsTarget(q)) /\ \A d \in Clients : ~Sending(d, q)'
    <3>1. IsTarget(q)' <=> IsTarget(q)
      BY <1>3 DEF IsTarget
    <3> QED
      BY <1>2, <1>4, <1>8, <3>1 DEF OthersStay, Sending
  <2>4. CanceledOK(q)'
    BY <1>2, <1>3, <2>1, <2>2, <2>3 DEF CanceledOK
  <2>5. DrainOK(q)'
    BY <1>2, <1>3, <2>1 DEF CoreOK, DrainOK
  <2>6. ChainOK(q)'
    BY <1>3, <2>1 DEF CoreOK, ChainOK
  <2>7. TokenOK(q)' /\ TokenThere(q)' /\ LookedAfter(q)'
    BY <1>3, <2>1, <2>2 DEF TokenOK, TokenThere, LookedAfter
  <2> QED
    BY <2>4, <2>5, <2>6, <2>7 DEF CoreOK
<1>13. \A r \in Queues : CoreOK(r)'
  BY <1>11, <1>12
<1> QED
  BY <1>3, <1>4, <1>6, <1>9, <1>10, <1>13, ClientInv DEF DaemonInv, DaemonType

-----------------------------------------------------------------------------
(* The drains' steps *)

\* What the step of a drain may do to what the clients rely on.
DrainFrame ==
    /\ kind' = kind /\ gone' = gone /\ ctx' = ctx
    /\ \A r \in Queues :
         /\ Canceled(r)' <=> Canceled(r)
         /\ "INACTIVE" \in state'[r] <=> "INACTIVE" \in state[r]
         /\ cwait[r] => cwait'[r] \/ Canceled(r)
    /\ \A x : InBatchOrQueue(x)' => InBatchOrQueue(x)

\* The clients' calls are as they were.
LEMMA DrainClients ==
    ASSUME NEW c \in Clients, CtxOK(c), DrainFrame
    PROVE  CtxOK(c)'
<1>1. \A x : (IsTarget(x)' <=> IsTarget(x))
  BY DEF DrainFrame, IsTarget
<1>2. ctx' = ctx /\ kind' = kind /\ gone' = gone
  BY DEF DrainFrame
<1>3. SendOK(c)'
  <2> SUFFICES ASSUME ctx[c].op \in {"enqueue", "activate"} PROVE SendOK(c)'
    BY <1>2 DEF SendOK
  <2>1. PICK h \in Queues : h = ctx[c].home
    BY DEF CtxOK, SendOK
  <2>2. ~Canceled(h)'
    BY <2>1 DEF CtxOK, SendOK, DrainFrame
  <2>3. PICK q \in Queues : q = ctx[c].q
    BY DEF CtxOK, SendOK
  <2> QED
    BY <1>1, <1>2, <2>1, <2>2, <2>3 DEF CtxOK, SendOK
<1>4. CancelOK(c)'
  <2> SUFFICES ASSUME ctx[c].op = "cancel" PROVE CancelOK(c)'
    BY <1>2 DEF CancelOK
  <2>1. PICK h : h = ctx[c].home
    OBVIOUS
  <2>2. /\ ctx[c].pc \in {"orcanceled", "wakeup", "block"}
        /\ h \in Queues /\ ctx[c].q = h
        /\ kind[h] \in {"thread", "call"} /\ ~IsTarget(h)
        /\ ~gone[h] /\ "INACTIVE" \notin state[h]
        /\ IF ctx[c].pc = "orcanceled" THEN ~Canceled(h) /\ cwait[h] ELSE Canceled(h)
        /\ \A d \in Clients : ~Sending(d, h) /\ (Canceling(d, h) => d = c)
    BY <2>1 DEF CtxOK, CancelOK
  <2>3. \A d \in Clients : ~Sending(d, h)' /\ (Canceling(d, h)' => d = c)
    BY <1>2, <2>2 DEF Sending, Canceling
  <2>4. (Canceled(h)' <=> Canceled(h)) /\ "INACTIVE" \notin state'[h] /\ (cwait[h] => cwait'[h] \/ Canceled(h))
    BY <2>2 DEF DrainFrame
  <2>5. ctx'[c].home = h
    BY <1>2, <2>1
  <2> QED
    BY <1>1, <1>2, <2>2, <2>3, <2>4, <2>5 DEF CancelOK
<1>5. ElmOK(c)'
  <2>1. PICK x : x = ctx[c].elm
    OBVIOUS
  <2>2. InBatchOrQueue(x)' => InBatchOrQueue(x)
    BY DEF DrainFrame
  <2> QED
    BY <1>2, <2>1, <2>2 DEF CtxOK, ElmOK
<1> QED
  BY <1>2, <1>3, <1>4, <1>5 DEF CtxOK

\* A step that moves the drain of one queue, not to start or to return to another.
LEMMA OneDrainInv ==
    ASSUME DaemonInv, NEW q \in Queues, DrainFrame, DaemonType', failed' = FALSE,
           dpc[q] # "nested", kind[q] # "nested" \/ dpc[q] # "idle",
           \A r \in Queues \ {q} : OwnStays(r) /\ (InBatchOrQueue(r)' <=> InBatchOrQueue(r)),
           CoreOK(q)'
    PROVE  DaemonInv'
<1>1. \A c \in Clients : CtxOK(c)'
  BY DrainClients DEF DaemonInv
<1>2. \A r \in Queues : CoreOK(r)'
  BY OtherDrain DEF DaemonInv, DrainFrame
<1>3. ASSUME NEW n \in Queues PROVE NestOK(n)'
  <2> SUFFICES ASSUME kind[n] = "nested", dpc'[n] # "idle" PROVE NestOK(n)'
    BY DEF NestOK, DrainFrame
  <2>1. \A m \in Queues : kind[m] = "nested" /\ dpc'[m] # "idle" => dpc[m] # "idle"
    BY DEF OwnStays
  <2>2. NestOK(n) /\ dpc[n] # "idle" /\ Target[n] \in Queues
    BY <2>1, TargetOther DEF DaemonInv, DaemonType, Nested
  <2>3. dpc'[Target[n]] = "nested"
    BY <2>2 DEF NestOK, OwnStays
  <2> QED
    BY <2>1, <2>2, <2>3 DEF NestOK, DrainFrame
<1> QED
  BY <1>1, <1>2, <1>3 DEF DaemonInv

\* _mpsc_queue_thread_continue and _mpsc_queue_thread_call_drain: the drain starts.
LEMMA RunInv ==
    ASSUME DaemonInv, NEW q \in Queues, ThreadRun(q) \/ ThreadCallRun(q)
    PROVE  DaemonInv'
<1>1. /\ dpc' = [dpc EXCEPT ![q] = "xor"] /\ dpc[q] = "idle" /\ kind[q] # "nested"
      /\ kind' = kind /\ gone' = gone /\ state' = state /\ fifo' = fifo /\ batch' = batch
      /\ drained' = drained /\ unflushed' = unflushed /\ waiting' = waiting
      /\ cwait' = cwait /\ ctx' = ctx /\ failed' = failed
      /\ kind[q] = "thread" => called' = called /\ ~waiting[q]
      /\ kind[q] = "call" => called' = [called EXCEPT ![q] = FALSE] /\ called[q]
      /\ kind[q] \in {"thread", "call"}
  BY DEF ThreadRun, ThreadCallRun
<1>2. /\ dpc'[q] = "xor" /\ \A r \in Queues \ {q} : dpc'[r] = dpc[r] /\ called'[r] = called[r]
      /\ kind[q] = "call" => called'[q] = FALSE
      /\ kind[q] = "thread" => called'[q] = called[q]
      /\ called' \in [Queues -> BOOLEAN]
      /\ dpc' \in [Queues -> {"idle", "xor", "wakecanceler", "terminated"} \cup Busy]
  BY <1>1 DEF DaemonInv, DaemonType
<1>3. \A x : InBatchOrQueue(x)' <=> InBatchOrQueue(x)
  BY <1>1 DEF InBatchOrQueue
<1>4. DrainFrame
  BY <1>1, <1>3 DEF DrainFrame, Canceled
<1>5. CoreOK(q)'
  <2>1. CoreOK(q) /\ (Canceled(q)' <=> Canceled(q)) /\ Summoned(q)
    BY <1>1, <1>4 DEF DaemonInv, DrainFrame, Summoned
  <2>2. "INACTIVE" \notin state[q]
    BY <2>1 DEF CoreOK, CanceledOK, TokenOK
  <2>3. CanceledOK(q)'
    <3>1. ~gone[q] /\ (Canceled(q) /\ ~cwait[q] => kind[q] = "call" /\ "WAKEUP" \notin state[q])
      BY <1>1, <2>1 DEF CoreOK, CanceledOK
    <3>2. /\ IsTarget(q)' <=> IsTarget(q)
          /\ \A c \in Clients : (Canceling(c, q)' <=> Canceling(c, q)) /\ (Sending(c, q)' <=> Sending(c, q))
      BY <1>1 DEF IsTarget, Canceling, Sending
    <3> QED
      BY <1>1, <2>1, <3>1, <3>2 DEF CoreOK, CanceledOK
  <2>4. DrainOK(q)'
    BY <1>1, <1>2, <2>1, <2>2 DEF CoreOK, DrainOK, Busy, Looking
  <2>5. ChainOK(q)'
    BY <1>1, <2>1 DEF CoreOK, ChainOK
  <2>6. TokenOK(q)'
    <3> SUFFICES ASSUME ~Canceled(q) PROVE TokenOK(q)'
      BY <2>1 DEF TokenOK
    <3>1. "WAKEUP" \in state[q] /\ \A c \in Clients : ~Carries(c, q)
      BY <2>1 DEF CoreOK, TokenOK
    <3>2. ~Summoned(q)' /\ \A c \in Clients : ~Carries(c, q)'
      BY <1>1, <1>2, <3>1 DEF Summoned, Carries
    <3> QED
      BY <1>1, <3>1, <3>2 DEF TokenOK
  <2>7. TokenThere(q)'
    BY <1>2 DEF TokenThere
  <2>8. LookedAfter(q)'
    BY <1>1, <2>1 DEF CoreOK, LookedAfter, Looking
  <2> QED
    BY <2>3, <2>4, <2>5, <2>6, <2>7, <2>8 DEF CoreOK
<1>6. \A r \in Queues \ {q} : OwnStays(r)
  BY <1>1, <1>2 DEF OwnStays
<1>7. DaemonType' /\ failed' = FALSE
  BY <1>1, <1>2 DEF DaemonInv, DaemonType
<1> QED
  BY <1>1, <1>3, <1>4, <1>5, <1>6, <1>7, OneDrainInv

\* While a drain runs there is no other wakeup under way, unless to cancel.
LEMMA BusyCore ==
    ASSUME NEW q \in Queues, CoreOK(q), DrainFrame, dpc[q] \in Busy \cup {"xor"}, dpc'[q] \in Busy,
           called'[q] = called[q], cwait'[q] = cwait[q], InBatchOrQueue(q)' => InBatchOrQueue(q),
           Canceled(q) /\ ~cwait[q] =>
               /\ fifo'[q] = <<>> /\ batch'[q] = <<>>
               /\ "WAKEUP" \in state'[q] => dpc'[q] = "clearwakeup",
           DrainOK(q)', ChainOK(q)', LookedAfter(q)'
    PROVE  CoreOK(q)'
<1>1. dpc[q] \notin {"idle", "terminated"} /\ dpc'[q] \notin {"idle", "xor"}
  BY DEF Busy, Looking
<1>2. ~gone[q] /\ (Canceled(q) /\ ~cwait[q] => kind[q] # "thread")
  BY <1>1 DEF CoreOK, CanceledOK
<1>3. /\ IsTarget(q)' <=> IsTarget(q)
      /\ \A c \in Clients : /\ Canceling(c, q)' <=> Canceling(c, q)
                            /\ Sending(c, q)' <=> Sending(c, q)
                            /\ Carries(c, q)' <=> Carries(c, q)
  BY DEF DrainFrame, IsTarget, Canceling, Sending, Carries
<1>4. Canceled(q)' <=> Canceled(q)
  BY DEF DrainFrame
<1>5. CanceledOK(q)'
  BY <1>2, <1>3, <1>4 DEF CoreOK, CanceledOK, DrainFrame
<1>6. TokenOK(q)'
  <2> SUFFICES ASSUME ~Canceled(q) PROVE TokenOK(q)'
    BY <1>4 DEF TokenOK
  <2>1. ~Summoned(q) /\ \A c \in Clients : ~Carries(c, q)
    BY <1>1 DEF CoreOK, TokenOK
  <2>2. ~Summoned(q)'
    BY <1>1, <2>1 DEF Summoned, DrainFrame
  <2> QED
    BY <1>1, <1>3, <2>1, <2>2 DEF TokenOK
<1>7. TokenThere(q)'
  BY DEF TokenThere
<1> QED
  BY <1>5, <1>6, <1>7 DEF CoreOK

\* The drain's xor finds DRAINING clear and, unless it is to cancel, WAKEUP set.
LEMMA DrainXorInv ==
    ASSUME DaemonInv, NEW q \in Queues, DrainXor(q)
    PROVE  DaemonInv'
<1>1. PICK st : st = Xor(state[q], {"DRAINING", "WAKEUP"})
  OBVIOUS
<1>2. CoreOK(q) /\ dpc[q] = "xor" /\ "DRAINING" \notin state[q] /\ (~Canceled(q) => "WAKEUP" \in state[q])
  BY DEF DrainXor, DaemonInv, CoreOK, DrainOK, TokenOK, Busy, Looking
<1>3. /\ "DRAINING" \in st /\ ("WAKEUP" \in st <=> "WAKEUP" \notin state[q])
      /\ "CANCELED" \in st <=> "CANCELED" \in state[q]
      /\ "INACTIVE" \in st <=> "INACTIVE" \in state[q]
      /\ st \in SUBSET StateBits
  BY <1>1, <1>2 DEF Xor, DaemonInv, DaemonType, StateBits
<1>4. ~("DRAINING" \notin st) /\ ~("WAKEUP" \in st /\ "CANCELED" \notin st) /\ failed = FALSE
  BY <1>2, <1>3 DEF Canceled, DaemonInv
<1>5. failed' = FALSE
  BY <1>1, <1>4 DEF DrainXor
<1>6. PICK to : to = IF "WAKEUP" \in st THEN "clearwakeup" ELSE "dequeue"
  OBVIOUS
<1>7. /\ state' = [state EXCEPT ![q] = st] /\ dpc' = [dpc EXCEPT ![q] = to]
      /\ drained' = [drained EXCEPT ![q] = FALSE]
      /\ kind' = kind /\ gone' = gone /\ fifo' = fifo /\ batch' = batch
      /\ unflushed' = unflushed /\ waiting' = waiting /\ called' = called
      /\ cwait' = cwait /\ ctx' = ctx
  BY <1>1, <1>6 DEF DrainXor
<1>8. /\ state'[q] = st /\ dpc'[q] = to /\ drained'[q] = FALSE
      /\ \A r \in Queues \ {q} : state'[r] = state[r] /\ dpc'[r] = dpc[r] /\ drained'[r] = drained[r]
      /\ state' \in [Queues -> SUBSET StateBits] /\ drained' \in [Queues -> BOOLEAN]
      /\ dpc' \in [Queues -> {"idle", "xor", "wakecanceler", "terminated"} \cup Busy]
      /\ to \in {"clearwakeup", "dequeue"} /\ to \in Busy
  BY <1>3, <1>6, <1>7 DEF DaemonInv, DaemonType, Busy, Looking
<1>9. \A x : InBatchOrQueue(x)' <=> InBatchOrQueue(x)
  BY <1>7 DEF InBatchOrQueue
<1>10. DrainFrame
  BY <1>3, <1>7, <1>8, <1>9 DEF DrainFrame, Canceled
<1>11. CoreOK(q)'
  <2>1. DrainOK(q)'
    <3>1. ~unflushed[q] /\ batch[q] = <<>> /\ "INACTIVE" \notin state[q]
      BY <1>2 DEF CoreOK, DrainOK
    <3>2. Canceled(q)' <=> Canceled(q)
      BY <1>10 DEF DrainFrame
    <3> QED
      BY <1>2, <1>3, <1>7, <1>8, <3>1, <3>2 DEF CoreOK, DrainOK
  <2>2. ChainOK(q)'
    BY <1>2, <1>7 DEF CoreOK, ChainOK
  <2>3. LookedAfter(q)'
    BY <1>8 DEF LookedAfter, Looking
  <2>4. Canceled(q) /\ ~cwait[q] => fifo[q] = <<>> /\ batch[q] = <<>>
    BY <1>2 DEF CoreOK, CanceledOK
  <2> QED
    BY <1>2, <1>6, <1>7, <1>8, <1>9, <1>10, <2>1, <2>2, <2>3, <2>4, BusyCore
<1>12. \A r \in Queues \ {q} : OwnStays(r)
  BY <1>7, <1>8 DEF OwnStays
<1>13. DaemonType'
  BY <1>7, <1>8 DEF DaemonInv, DaemonType
<1> QED
  BY <1>2, <1>5, <1>9, <1>10, <1>11, <1>12, <1>13, OneDrainInv

\* The drain that cancels clears the WAKEUP it has set.
LEMMA DrainClearWakeupInv ==
    ASSUME DaemonInv, NEW q \in Queues, DrainClearWakeup(q)
    PROVE  DaemonInv'
<1>1. CoreOK(q) /\ dpc[q] = "clearwakeup"
  BY DEF DaemonInv, DrainClearWakeup
<1>2. /\ state' = [state EXCEPT ![q] = state[q] \ {"WAKEUP"}] /\ dpc' = [dpc EXCEPT ![q] = "dequeue"]
      /\ drained' = drained /\ kind' = kind /\ gone' = gone /\ fifo' = fifo /\ batch' = batch
      /\ unflushed' = unflushed /\ waiting' = waiting /\ called' = called
      /\ cwait' = cwait /\ ctx' = ctx /\ failed' = failed
  BY DEF DrainClearWakeup
<1>3. /\ state'[q] = state[q] \ {"WAKEUP"} /\ dpc'[q] = "dequeue"
      /\ \A r \in Queues \ {q} : state'[r] = state[r] /\ dpc'[r] = dpc[r]
      /\ state' \in [Queues -> SUBSET StateBits]
      /\ dpc' \in [Queues -> {"idle", "xor", "wakecanceler", "terminated"} \cup Busy]
  BY <1>2 DEF DaemonInv, DaemonType, Busy, Looking
<1>4. \A x : InBatchOrQueue(x)' <=> InBatchOrQueue(x)
  BY <1>2 DEF InBatchOrQueue
<1>5. DrainFrame
  BY <1>2, <1>3, <1>4 DEF DrainFrame, Canceled
<1>6. CoreOK(q)'
  <2>1. DrainOK(q)'
    <3>1. Canceled(q)' <=> Canceled(q)
      BY <1>5 DEF DrainFrame
    <3> QED
      BY <1>1, <1>2, <1>3, <3>1 DEF CoreOK, DrainOK, Busy, Looking
  <2>2. ChainOK(q)'
    BY <1>1, <1>2 DEF CoreOK, ChainOK
  <2>3. LookedAfter(q)'
    BY <1>3 DEF LookedAfter, Looking
  <2>4. Canceled(q) /\ ~cwait[q] => fifo[q] = <<>> /\ batch[q] = <<>>
    BY <1>1 DEF CoreOK, CanceledOK
  <2>5. dpc[q] \in Busy /\ dpc'[q] \in Busy /\ "WAKEUP" \notin state'[q]
    BY <1>1, <1>3 DEF Busy, Looking
  <2> QED
    BY <1>1, <1>2, <1>4, <1>5, <2>1, <2>2, <2>3, <2>4, <2>5, BusyCore
<1>7. \A r \in Queues \ {q} : OwnStays(r)
  BY <1>2, <1>3 DEF OwnStays
<1>8. DaemonType' /\ failed' = FALSE
  BY <1>2, <1>3 DEF DaemonInv, DaemonType
<1> QED
  BY <1>1, <1>4, <1>5, <1>6, <1>7, <1>8, OneDrainInv

\* mpsc_queue_dequeue_batch
LEMMA DrainDequeueInv ==
    ASSUME DaemonInv, NEW q \in Queues, DrainDequeue(q)
    PROVE  DaemonInv'
<1>1. CoreOK(q) /\ dpc[q] = "dequeue" /\ fifo[q] # <<>> /\ batch[q] = <<>>
  BY DEF DaemonInv, DrainDequeue, CoreOK, DrainOK
<1>2. /\ batch' = [batch EXCEPT ![q] = fifo[q]] /\ fifo' = [fifo EXCEPT ![q] = <<>>]
      /\ drained' = [drained EXCEPT ![q] = TRUE] /\ dpc' = [dpc EXCEPT ![q] = "invoke"]
      /\ kind' = kind /\ gone' = gone /\ state' = state
      /\ unflushed' = unflushed /\ waiting' = waiting /\ called' = called
      /\ cwait' = cwait /\ ctx' = ctx /\ failed' = failed
  BY DEF DrainDequeue
<1>3. /\ batch'[q] = fifo[q] /\ fifo'[q] = <<>> /\ drained'[q] = TRUE /\ dpc'[q] = "invoke"
      /\ \A r \in Queues \ {q} : batch'[r] = batch[r] /\ fifo'[r] = fifo[r]
                                 /\ drained'[r] = drained[r] /\ dpc'[r] = dpc[r]
      /\ batch' \in [Queues -> Seq(Things)] /\ fifo' \in [Queues -> Seq(Things)]
      /\ drained' \in [Queues -> BOOLEAN]
      /\ dpc' \in [Queues -> {"idle", "xor", "wakecanceler", "terminated"} \cup Busy]
  BY <1>2 DEF DaemonInv, DaemonType, Busy, Looking
<1>4. \A x : InBatchOrQueue(x)' <=> InBatchOrQueue(x)
  <2>1. \A r \in Queues : ToSet(fifo'[r]) \cup ToSet(batch'[r]) = ToSet(fifo[r]) \cup ToSet(batch[r])
    BY <1>1, <1>3, ToSetEmpty
  <2> QED
    BY <2>1 DEF InBatchOrQueue
<1>5. DrainFrame
  BY <1>2, <1>3, <1>4 DEF DrainFrame, Canceled
<1>6. CoreOK(q)'
  <2>1. DrainOK(q)'
    <3>1. Canceled(q)' <=> Canceled(q)
      BY <1>5 DEF DrainFrame
    <3> QED
      BY <1>1, <1>2, <1>3, <3>1 DEF CoreOK, DrainOK, Busy, Looking
  <2>2. ChainOK(q)'
    <3>1. Len(<<>>) = 0 /\ \A i : i \notin 1 .. 0
      OBVIOUS
    <3> QED
      BY <1>1, <1>2, <1>3, <3>1, ToSetEmpty DEF CoreOK, ChainOK
  <2>3. LookedAfter(q)'
    BY <1>3 DEF LookedAfter
  <2>4. ~(Canceled(q) /\ ~cwait[q])
    BY <1>1 DEF CoreOK, CanceledOK
  <2>5. dpc[q] \in Busy /\ dpc'[q] \in Busy
    BY <1>1, <1>3 DEF Busy, Looking
  <2> QED
    BY <1>1, <1>2, <1>4, <1>5, <2>1, <2>2, <2>3, <2>4, <2>5, BusyCore
<1>7. \A r \in Queues \ {q} : OwnStays(r)
  BY <1>2, <1>3 DEF OwnStays
<1>8. DaemonType' /\ failed' = FALSE
  BY <1>2, <1>3 DEF DaemonInv, DaemonType
<1> QED
  BY <1>1, <1>4, <1>5, <1>6, <1>7, <1>8, OneDrainInv

\* A step of a running drain that touches nothing but unflushed and waiting of its queue.
LEMMA QuietDrainInv ==
    ASSUME DaemonInv, NEW q \in Queues, NEW to \in Busy, dpc[q] \in Busy \ {"nested"},
           dpc' = [dpc EXCEPT ![q] = to], to # "clearwakeup", dpc[q] # "clearwakeup",
           kind' = kind, gone' = gone, state' = state, fifo' = fifo, batch' = batch, drained' = drained,
           called' = called, cwait' = cwait, ctx' = ctx, failed' = failed,
           \A r \in Queues \ {q} : unflushed'[r] = unflushed[r] /\ waiting'[r] = waiting[r],
           unflushed' \in [Queues -> BOOLEAN], waiting' \in [Queues -> BOOLEAN],
           DrainOK(q)', LookedAfter(q)'
    PROVE  DaemonInv'
<1>1. /\ CoreOK(q) /\ dpc'[q] = to /\ (\A r \in Queues \ {q} : dpc'[r] = dpc[r])
      /\ dpc' \in [Queues -> {"idle", "xor", "wakecanceler", "terminated"} \cup Busy]
  BY DEF DaemonInv, DaemonType
<1>2. \A x : InBatchOrQueue(x)' <=> InBatchOrQueue(x)
  BY DEF InBatchOrQueue
<1>3. DrainFrame
  BY <1>2 DEF DrainFrame, Canceled
<1>4. ChainOK(q)'
  BY <1>1 DEF CoreOK, ChainOK
<1>5. Canceled(q) /\ ~cwait[q] => fifo[q] = <<>> /\ batch[q] = <<>> /\ "WAKEUP" \notin state[q]
  BY <1>1 DEF CoreOK, CanceledOK
<1>6. CoreOK(q)'
  BY <1>1, <1>2, <1>3, <1>4, <1>5, BusyCore
<1>7. \A r \in Queues \ {q} : OwnStays(r)
  BY <1>1 DEF OwnStays
<1>8. DaemonType' /\ failed' = FALSE
  BY <1>1 DEF DaemonInv, DaemonType
<1>9. dpc[q] # "nested" /\ dpc[q] # "idle"
  BY DEF Busy, Looking
<1> QED
  BY <1>2, <1>3, <1>6, <1>7, <1>8, <1>9, OneDrainInv

\* Nothing is queued: the drain ends its batch, if it has one.
LEMMA DrainEmptyInv ==
    ASSUME DaemonInv, NEW q \in Queues, DrainEmpty(q)
    PROVE  DaemonInv'
<1>1. PICK to : to = IF drained[q] /\ q \in BatchQueues THEN "batchend" ELSE AfterBatches(q)
  OBVIOUS
<1>2. /\ dpc' = [dpc EXCEPT ![q] = to] /\ dpc[q] = "dequeue" /\ fifo[q] = <<>>
      /\ kind' = kind /\ gone' = gone /\ state' = state /\ fifo' = fifo /\ batch' = batch
      /\ drained' = drained /\ unflushed' = unflushed /\ waiting' = waiting /\ called' = called
      /\ cwait' = cwait /\ ctx' = ctx /\ failed' = failed
  BY <1>1 DEF DrainEmpty
<1>3. /\ to \in Busy /\ to \in {"batchend", "assertwait", "unlock"} /\ dpc[q] \in Busy \ {"nested"}
      /\ drained[q] /\ q \in BatchQueues => to = "batchend"
      /\ to = "assertwait" => kind[q] = "thread"
      /\ to = "unlock" => kind[q] # "thread"
  BY <1>1, <1>2 DEF AfterBatches, Busy, Looking
<1>4. dpc'[q] = to /\ CoreOK(q) /\ (Canceled(q)' <=> Canceled(q))
  BY <1>2 DEF DaemonInv, DaemonType, Canceled
<1>5. DrainOK(q)'
  BY <1>2, <1>3, <1>4 DEF CoreOK, DrainOK
<1>6. LookedAfter(q)'
  BY <1>2 DEF LookedAfter
<1>7. unflushed \in [Queues -> BOOLEAN] /\ waiting \in [Queues -> BOOLEAN]
  BY DEF DaemonInv, DaemonType
<1> QED
  BY <1>2, <1>3, <1>5, <1>6, <1>7, QuietDrainInv

\* invoke(MPSC_QUEUE_BATCH_END, dq)
LEMMA DrainBatchEndInv ==
    ASSUME DaemonInv, NEW q \in Queues, DrainBatchEnd(q)
    PROVE  DaemonInv'
<1>1. PICK to : to = AfterBatches(q)
  OBVIOUS
<1>2. /\ dpc' = [dpc EXCEPT ![q] = to] /\ dpc[q] = "batchend"
      /\ unflushed' = [unflushed EXCEPT ![q] = FALSE]
      /\ kind' = kind /\ gone' = gone /\ state' = state /\ fifo' = fifo /\ batch' = batch
      /\ drained' = drained /\ waiting' = waiting /\ called' = called
      /\ cwait' = cwait /\ ctx' = ctx /\ failed' = failed
  BY <1>1 DEF DrainBatchEnd
<1>3. /\ to \in Busy /\ to \in {"assertwait", "unlock"} /\ dpc[q] \in Busy \ {"nested"}
      /\ to = "assertwait" => kind[q] = "thread"
      /\ to = "unlock" => kind[q] # "thread"
  BY <1>1, <1>2 DEF AfterBatches, Busy, Looking
<1>4. unflushed \in [Queues -> BOOLEAN] /\ waiting \in [Queues -> BOOLEAN]
  BY DEF DaemonInv, DaemonType
<1>5. /\ unflushed'[q] = FALSE /\ unflushed' \in [Queues -> BOOLEAN]
      /\ \A r \in Queues \ {q} : unflushed'[r] = unflushed[r]
  BY <1>2, <1>4
<1>6. dpc'[q] = to /\ CoreOK(q) /\ (Canceled(q)' <=> Canceled(q))
  BY <1>2 DEF DaemonInv, DaemonType, Canceled
<1>7. DrainOK(q)'
  BY <1>2, <1>3, <1>5, <1>6 DEF CoreOK, DrainOK
<1>8. LookedAfter(q)'
  BY <1>2, <1>6 DEF LookedAfter, CoreOK, Looking
<1> QED
  BY <1>2, <1>3, <1>4, <1>5, <1>7, <1>8, QuietDrainInv

\* The thread's assert_wait
LEMMA DrainAssertWaitInv ==
    ASSUME DaemonInv, NEW q \in Queues, DrainAssertWait(q)
    PROVE  DaemonInv'
<1>1. /\ dpc' = [dpc EXCEPT ![q] = "unlock"] /\ dpc[q] = "assertwait"
      /\ waiting' = [waiting EXCEPT ![q] = TRUE]
      /\ kind' = kind /\ gone' = gone /\ state' = state /\ fifo' = fifo /\ batch' = batch
      /\ drained' = drained /\ unflushed' = unflushed /\ called' = called
      /\ cwait' = cwait /\ ctx' = ctx /\ failed' = failed
  BY DEF DrainAssertWait
<1>2. "unlock" \in Busy /\ dpc[q] \in Busy \ {"nested"}
  BY <1>1 DEF Busy, Looking
<1>3. unflushed \in [Queues -> BOOLEAN] /\ waiting \in [Queues -> BOOLEAN]
  BY DEF DaemonInv, DaemonType
<1>4. /\ waiting'[q] = TRUE /\ waiting' \in [Queues -> BOOLEAN]
      /\ \A r \in Queues \ {q} : waiting'[r] = waiting[r]
  BY <1>1, <1>3
<1>5. dpc'[q] = "unlock" /\ CoreOK(q) /\ (Canceled(q)' <=> Canceled(q))
  BY <1>1 DEF DaemonInv, DaemonType, Canceled
<1>6. DrainOK(q)'
  BY <1>1, <1>2, <1>4, <1>5 DEF CoreOK, DrainOK
<1>7. LookedAfter(q)'
  BY <1>1, <1>5 DEF LookedAfter, CoreOK, Looking
<1> QED
  BY <1>1, <1>2, <1>3, <1>4, <1>6, <1>7, QuietDrainInv

\* What is left of a batch.
LEMMA TailChain ==
    ASSUME DaemonInv, NEW q \in Queues, dpc[q] = "invoke", kind' = kind, fifo' = fifo,
           batch' = [batch EXCEPT ![q] = Tail(batch[q])]
    PROVE  /\ batch[q] # <<>> /\ ToSet(batch[q]) = {Head(batch[q])} \cup ToSet(batch'[q])
           /\ batch'[q] = Tail(batch[q])
           /\ Head(batch[q]) \in Things
           /\ Head(batch[q]) \in Queues => Head(batch[q]) \notin ToSet(batch'[q])
           /\ \A r \in Queues \ {q} : batch'[r] = batch[r]
           /\ batch' \in [Queues -> Seq(Things)]
           /\ ChainOK(q)'
           /\ \A x : InBatchOrQueue(x)' => InBatchOrQueue(x)
           /\ \A x : InBatchOrQueue(x) /\ x # Head(batch[q]) => InBatchOrQueue(x)'
<1> DEFINE s == batch[q]
<1>1. s # <<>> /\ s \in Seq(Things) /\ ChainOK(q)
  BY DEF DaemonInv, DaemonType, CoreOK, DrainOK
<1>2. /\ ToSet(s) = {Head(s)} \cup ToSet(Tail(s))
      /\ Head(s) \in Things /\ Head(s) = s[1] /\ Tail(s) \in Seq(Things)
      /\ Len(s) \in Nat \ {0} /\ Len(Tail(s)) = Len(s) - 1
      /\ \A i \in 1 .. Len(Tail(s)) : Tail(s)[i] = s[i + 1]
  BY <1>1, ToSetTail
<1>3. /\ batch'[q] = Tail(s) /\ batch' \in [Queues -> Seq(Things)]
      /\ \A r \in Queues \ {q} : batch'[r] = batch[r]
  BY <1>2 DEF DaemonInv, DaemonType
<1>4. \A i, j \in 1 .. Len(s) : s[i] = s[j] /\ s[i] \in Queues => i = j
  BY <1>1 DEF ChainOK
<1> HIDE DEF s
<1>5. \A i, j \in 1 .. Len(Tail(s)) : Tail(s)[i] = Tail(s)[j] /\ Tail(s)[i] \in Queues => i = j
  <2> SUFFICES ASSUME NEW i \in 1 .. Len(Tail(s)), NEW j \in 1 .. Len(Tail(s)),
                      Tail(s)[i] = Tail(s)[j], Tail(s)[i] \in Queues
               PROVE  i = j
    OBVIOUS
  <2>1. i + 1 \in 1 .. Len(s) /\ j + 1 \in 1 .. Len(s) /\ s[i + 1] = s[j + 1] /\ s[i + 1] \in Queues
    BY <1>2
  <2>2. i + 1 = j + 1
    BY <1>4, <2>1
  <2> QED
    BY <2>2
<1>6. Head(s) \in Queues => Head(s) \notin ToSet(Tail(s))
  <2> SUFFICES ASSUME Head(s) \in Queues, Head(s) \in ToSet(Tail(s)) PROVE FALSE
    OBVIOUS
  <2>1. PICK i \in 1 .. Len(Tail(s)) : Tail(s)[i] = Head(s)
    BY <1>2 DEF ToSet
  <2>2. i + 1 \in 1 .. Len(s) /\ 1 \in 1 .. Len(s) /\ s[i + 1] = s[1] /\ s[1] \in Queues
    BY <1>2, <2>1
  <2>3. i + 1 = 1
    BY <1>4, <2>2
  <2> QED
    BY <2>3
<1>7. ChainOK(q)'
  <2>1. ToSet(batch'[q]) \subseteq ToSet(batch[q])
    BY <1>2, <1>3 DEF s
  <2> QED
    BY <1>1, <1>3, <1>5, <2>1 DEF ChainOK
<1>8. \A r \in Queues : \A x : /\ x \in ToSet(batch'[r]) => x \in ToSet(batch[r])
                               /\ x \in ToSet(batch[r]) /\ x # Head(s) => x \in ToSet(batch'[r])
  BY <1>2, <1>3 DEF s
<1>9. \A x : /\ InBatchOrQueue(x)' => InBatchOrQueue(x)
             /\ InBatchOrQueue(x) /\ x # Head(s) => InBatchOrQueue(x)'
  BY <1>8 DEF InBatchOrQueue
<1> QED
  BY <1>1, <1>2, <1>3, <1>6, <1>7, <1>9 DEF s

\* invoke(cur, dq) of a client's element
LEMMA DrainInvokeInv ==
    ASSUME DaemonInv, NEW q \in Queues, DrainInvoke(q)
    PROVE  DaemonInv'
<1>1. PICK to : to = IF batch'[q] = <<>> THEN "dequeue" ELSE "invoke"
  OBVIOUS
<1>2. /\ dpc' = [dpc EXCEPT ![q] = to] /\ dpc[q] = "invoke" /\ Head(batch[q]) \in Elements
      /\ batch' = [batch EXCEPT ![q] = Tail(batch[q])]
      /\ kind' = kind /\ gone' = gone /\ state' = state /\ fifo' = fifo
      /\ drained' = drained /\ waiting' = waiting /\ called' = called
      /\ cwait' = cwait /\ ctx' = ctx /\ failed' = failed
  BY <1>1 DEF DrainInvoke, AfterInvoke
<1>3. /\ unflushed' \in [Queues -> BOOLEAN] /\ (unflushed'[q] => q \in BatchQueues)
      /\ \A r \in Queues \ {q} : unflushed'[r] = unflushed[r]
  <2>1. PICK b : b = (q \in BatchQueues)
    OBVIOUS
  <2>2. b \in BOOLEAN
    BY <2>1
  <2>3. unflushed' = [unflushed EXCEPT ![q] = b]
    BY <2>1 DEF DrainInvoke
  <2>4. unflushed \in [Queues -> BOOLEAN]
    BY DEF DaemonInv, DaemonType
  <2>5. /\ unflushed' \in [Queues -> BOOLEAN] /\ unflushed'[q] = b
        /\ \A r \in Queues \ {q} : unflushed'[r] = unflushed[r]
    BY <2>2, <2>3, <2>4
  <2> QED
    BY <2>1, <2>5
<1>4. /\ ToSet(batch[q]) = {Head(batch[q])} \cup ToSet(batch'[q])
      /\ \A r \in Queues \ {q} : batch'[r] = batch[r]
      /\ batch' \in [Queues -> Seq(Things)] /\ batch[q] # <<>>
      /\ ChainOK(q)'
      /\ \A x : InBatchOrQueue(x)' => InBatchOrQueue(x)
      /\ \A x : InBatchOrQueue(x) /\ x # Head(batch[q]) => InBatchOrQueue(x)'
  BY <1>2, TailChain
<1>5. \A r \in Queues : InBatchOrQueue(r)' <=> InBatchOrQueue(r)
  BY <1>2, <1>4, DaemonAssumption
<1>6. /\ CoreOK(q) /\ dpc'[q] = to /\ (\A r \in Queues \ {q} : dpc'[r] = dpc[r])
      /\ to \in Looking /\ to \in Busy /\ dpc[q] \in Busy /\ to \in {"dequeue", "invoke"}
      /\ dpc' \in [Queues -> {"idle", "xor", "wakecanceler", "terminated"} \cup Busy]
  BY <1>1, <1>2 DEF DaemonInv, DaemonType, Busy, Looking
<1>7. DrainFrame
  BY <1>2, <1>4 DEF DrainFrame, Canceled
<1>8. CoreOK(q)'
  <2>1. DrainOK(q)'
    <3>1. Canceled(q)' <=> Canceled(q)
      BY <1>7 DEF DrainFrame
    <3> QED
      BY <1>1, <1>2, <1>3, <1>6, <3>1 DEF CoreOK, DrainOK
  <2>2. LookedAfter(q)'
    BY <1>6 DEF LookedAfter
  <2>3. ~(Canceled(q) /\ ~cwait[q])
    BY <1>4, <1>6 DEF CoreOK, CanceledOK
  <2> QED
    BY <1>2, <1>4, <1>5, <1>6, <1>7, <2>1, <2>2, <2>3, BusyCore
<1>9. \A r \in Queues \ {q} : OwnStays(r)
  BY <1>2, <1>3, <1>4, <1>6 DEF OwnStays
<1>10. DaemonType' /\ failed' = FALSE
  BY <1>2, <1>3, <1>4, <1>6 DEF DaemonInv, DaemonType
<1> QED
  BY <1>2, <1>5, <1>7, <1>8, <1>9, <1>10, OneDrainInv

\* mpsc_daemon_queue_nested_invoke: the chain was the wakeup of the nested queue, and its
\* drain starts.
LEMMA DrainNestedInv ==
    ASSUME DaemonInv, NEW q \in Queues, DrainNested(q)
    PROVE  DaemonInv'
<1>1. PICK n : n = Head(batch[q])
  OBVIOUS
<1>2. /\ n \in Queues /\ dpc[q] = "invoke" /\ dpc' = [dpc EXCEPT ![q] = "nested", ![n] = "xor"]
      /\ batch' = [batch EXCEPT ![q] = Tail(batch[q])]
      /\ kind' = kind /\ gone' = gone /\ state' = state /\ fifo' = fifo
      /\ drained' = drained /\ unflushed' = unflushed /\ waiting' = waiting /\ called' = called
      /\ cwait' = cwait /\ ctx' = ctx /\ failed' = failed
  BY <1>1 DEF DrainNested
<1>3. /\ ToSet(batch[q]) = {n} \cup ToSet(batch'[q]) /\ n \notin ToSet(batch'[q])
      /\ \A r \in Queues \ {q} : batch'[r] = batch[r]
      /\ batch' \in [Queues -> Seq(Things)] /\ batch[q] # <<>>
      /\ ChainOK(q)'
      /\ \A x : InBatchOrQueue(x)' => InBatchOrQueue(x)
      /\ \A x : InBatchOrQueue(x) /\ x # n => InBatchOrQueue(x)'
  BY <1>1, <1>2, TailChain
<1>4. \A r \in Queues : CoreOK(r)
  BY DEF DaemonInv
<1>5. kind[n] = "nested" /\ Target[n] = q /\ n # q /\ n \notin ToSet(fifo[q]) /\ InBatchOrQueue(n)
  <2>1. n \in ToSet(batch[q])
    BY <1>3
  <2>2. kind[n] = "nested" /\ Target[n] = q /\ n \notin ToSet(fifo[q])
    BY <1>2, <1>4, <2>1 DEF CoreOK, ChainOK
  <2> QED
    BY <1>2, <2>1, <2>2, TargetOther DEF DaemonInv, DaemonType, Nested, InBatchOrQueue
<1>6. /\ ~Canceled(n) /\ ~gone[n] /\ dpc[n] = "idle" /\ "WAKEUP" \in state[n] /\ "INACTIVE" \notin state[n]
      /\ \A c \in Clients : ~Carries(c, n)
  <2>1. Summoned(n) /\ CoreOK(n) /\ ~Canceled(n)
    BY <1>2, <1>4, <1>5 DEF Summoned, CoreOK, CanceledOK
  <2> QED
    BY <2>1 DEF CoreOK, CanceledOK, TokenOK
<1>7. ~InBatchOrQueue(n)'
  <2>1. \A r \in Queues \ {q} : n \notin ToSet(fifo[r]) \cup ToSet(batch[r])
    BY <1>2, <1>4, <1>5 DEF CoreOK, ChainOK
  <2> QED
    BY <1>2, <1>3, <1>5, <2>1 DEF InBatchOrQueue
<1>8. /\ dpc'[q] = "nested" /\ dpc'[n] = "xor" /\ (\A r \in Queues \ {q, n} : dpc'[r] = dpc[r])
      /\ dpc' \in [Queues -> {"idle", "xor", "wakecanceler", "terminated"} \cup Busy]
  BY <1>2, <1>5 DEF DaemonInv, DaemonType, Busy, Looking
<1>9. DrainFrame
  BY <1>2, <1>3 DEF DrainFrame, Canceled
<1>10. CoreOK(q)'
  <2>1. DrainOK(q)'
    <3>1. Canceled(q)' <=> Canceled(q)
      BY <1>9 DEF DrainFrame
    <3> QED
      BY <1>2, <1>4, <1>8, <3>1 DEF CoreOK, DrainOK, Busy, Looking
  <2>2. LookedAfter(q)'
    BY <1>8 DEF LookedAfter, Looking
  <2>3. ~(Canceled(q) /\ ~cwait[q])
    BY <1>3, <1>4 DEF CoreOK, CanceledOK
  <2>4. dpc[q] \in Busy /\ dpc'[q] \in Busy
    BY <1>2, <1>8 DEF Busy, Looking
  <2> QED
    BY <1>2, <1>3, <1>4, <1>9, <2>1, <2>2, <2>3, <2>4, BusyCore
<1>11. CoreOK(n)'
  <2>1. ~Canceled(n)' /\ CoreOK(n) /\ batch'[n] = batch[n] /\ (\A c \in Clients : ~Carries(c, n)')
    BY <1>2, <1>3, <1>4, <1>5, <1>6, <1>9 DEF DrainFrame, Carries
  <2>2. CanceledOK(n)'
    BY <1>2, <1>6, <2>1 DEF CanceledOK
  <2>3. DrainOK(n)'
    BY <1>2, <1>6, <1>8, <2>1 DEF CoreOK, DrainOK, Busy, Looking
  <2>4. ChainOK(n)'
    BY <1>2, <2>1 DEF CoreOK, ChainOK
  <2>5. ~Summoned(n)'
    BY <1>2, <1>5, <1>7 DEF Summoned
  <2>6. TokenOK(n)' /\ TokenThere(n)' /\ LookedAfter(n)'
    BY <1>2, <1>6, <1>8, <2>1, <2>5 DEF TokenOK, TokenThere, LookedAfter
  <2> QED
    BY <2>2, <2>3, <2>4, <2>6 DEF CoreOK
<1>12. ASSUME NEW r \in Queues \ {q, n} PROVE CoreOK(r)'
  <2>1. OwnStays(r) /\ (InBatchOrQueue(r)' <=> InBatchOrQueue(r))
    BY <1>2, <1>3, <1>8, <1>12 DEF OwnStays
  <2> QED
    BY <1>2, <1>4, <1>12, <2>1, OtherDrain
<1>13. ASSUME NEW m \in Queues PROVE NestOK(m)'
  <2> SUFFICES ASSUME kind[m] = "nested", dpc'[m] # "idle" PROVE NestOK(m)'
    BY <1>2 DEF NestOK
  <2>1. \A k \in Queues \ {n} : kind[k] = "nested" /\ dpc'[k] # "idle" =>
            /\ dpc[k] # "idle" /\ Target[k] \in Queues /\ Target[k] # q /\ Target[k] # n
            /\ dpc[Target[k]] = "nested"
    <3> SUFFICES ASSUME NEW k \in Queues \ {n}, kind[k] = "nested", dpc'[k] # "idle"
                 PROVE  /\ dpc[k] # "idle" /\ Target[k] \in Queues /\ Target[k] # q /\ Target[k] # n
                        /\ dpc[Target[k]] = "nested"
      OBVIOUS
    <3>1. dpc[k] # "idle" /\ NestOK(k) /\ Target[k] \in Queues
      BY <1>2, <1>8, TargetOther DEF DaemonInv, DaemonType, Nested
    <3>2. dpc[Target[k]] = "nested"
      BY <3>1 DEF NestOK
    <3> QED
      BY <1>2, <1>6, <3>1, <3>2
  <2>2. CASE m = n
    BY <1>2, <1>5, <1>8, <2>1, <2>2 DEF NestOK
  <2>3. CASE m # n
    <3>1. /\ dpc[m] # "idle" /\ Target[m] \in Queues /\ Target[m] # q /\ Target[m] # n
          /\ dpc[Target[m]] = "nested" /\ NestOK(m)
      BY <2>1, <2>3 DEF DaemonInv
    <3>2. dpc'[Target[m]] = "nested"
      BY <1>8, <3>1
    <3>3. \A k \in Queues : kind[k] = "nested" /\ Target[k] = Target[m] /\ dpc'[k] # "idle" => k = m
      BY <1>5, <2>1, <3>1 DEF NestOK
    <3> QED
      BY <1>2, <3>2, <3>3 DEF NestOK
  <2> QED
    BY <2>2, <2>3
<1>14. DaemonType' /\ failed' = FALSE
  BY <1>2, <1>3, <1>8 DEF DaemonInv, DaemonType
<1>15. \A c \in Clients : CtxOK(c)'
  BY <1>9, DrainClients DEF DaemonInv
<1> QED
  BY <1>10, <1>11, <1>12, <1>13, <1>14, <1>15 DEF DaemonInv

\* A drain that was invoked from its target's returns to it.
LEMMA ReturnInv ==
    ASSUME DaemonInv, NEW q \in Queues, kind[q] = "nested", dpc[q] \in Busy \ {"nested"},
           dpc' = [dpc EXCEPT ![q] = "idle", ![Target[q]] = AfterInvoke(Target[q])],
           DrainFrame, DaemonType', failed' = FALSE, fifo' = fifo, batch' = batch,
           \A r \in Queues \ {q} :
               /\ gone'[r] = gone[r] /\ state'[r] = state[r] /\ drained'[r] = drained[r]
               /\ unflushed'[r] = unflushed[r] /\ waiting'[r] = waiting[r]
               /\ called'[r] = called[r] /\ cwait'[r] = cwait[r],
           CoreOK(q)'
    PROVE  DaemonInv'
<1>1. PICK t : t = Target[q]
  OBVIOUS
<1>2. /\ t \in Queues /\ t # q /\ dpc[q] # "idle" /\ dpc[t] = "nested" /\ IsTarget(t)
      /\ \A m \in Queues : kind[m] = "nested" /\ Target[m] = t /\ dpc[m] # "idle" => m = q
  <2>1. t \in Queues /\ t # q /\ dpc[q] # "idle" /\ NestOK(q)
    BY <1>1, TargetOther DEF DaemonInv, DaemonType, Nested, Busy, Looking
  <2> QED
    BY <1>1, <2>1 DEF NestOK, IsTarget
<1>3. PICK to : to = IF batch[t] = <<>> THEN "dequeue" ELSE "invoke"
  OBVIOUS
<1>4. dpc'[q] = "idle" /\ dpc'[t] = to /\ \A r \in Queues \ {q, t} : dpc'[r] = dpc[r]
  BY <1>1, <1>2, <1>3 DEF DaemonInv, DaemonType, AfterInvoke
<1>5. \A x : InBatchOrQueue(x)' <=> InBatchOrQueue(x)
  BY DEF InBatchOrQueue
<1>6. CoreOK(t)'
  <2>1. CoreOK(t) /\ ~Canceled(t) /\ (Canceled(t)' <=> Canceled(t)) /\ to \in {"dequeue", "invoke"}
    BY <1>2, <1>3 DEF DaemonInv, CoreOK, CanceledOK, DrainFrame
  <2>2. dpc[t] \in Busy /\ to \in Busy /\ to \in Looking
    BY <1>2, <2>1 DEF Busy, Looking
  <2>3. DrainOK(t)'
    BY <1>2, <1>3, <1>4, <2>1, <2>2 DEF CoreOK, DrainOK, DrainFrame
  <2>4. ChainOK(t)'
    BY <2>1 DEF CoreOK, ChainOK, DrainFrame
  <2>5. LookedAfter(t)'
    BY <1>4, <2>2 DEF LookedAfter
  <2> QED
    BY <1>2, <1>4, <1>5, <2>1, <2>2, <2>3, <2>4, <2>5, BusyCore
<1>7. ASSUME NEW r \in Queues \ {q, t} PROVE CoreOK(r)'
  <2>1. OwnStays(r) /\ CoreOK(r)
    BY <1>4, <1>7 DEF OwnStays, DaemonInv
  <2> QED
    BY <1>5, <1>7, <2>1, OtherDrain DEF DrainFrame
<1>8. ASSUME NEW m \in Queues PROVE NestOK(m)'
  <2> SUFFICES ASSUME kind[m] = "nested", dpc'[m] # "idle" PROVE NestOK(m)'
    BY DEF NestOK, DrainFrame
  <2>1. \A k \in Queues : kind[k] = "nested" /\ dpc'[k] # "idle" => dpc[k] # "idle" /\ k # q
    BY <1>2, <1>4
  <2>2. NestOK(m) /\ dpc[m] # "idle" /\ m # q /\ Target[m] \in Queues
    BY <2>1, TargetOther DEF DaemonInv, DaemonType, Nested
  <2>3. dpc[Target[m]] = "nested" /\ Target[m] # t /\ Target[m] # q
    BY <1>2, <2>2 DEF NestOK
  <2>4. dpc'[Target[m]] = "nested"
    BY <1>4, <2>2, <2>3
  <2> QED
    BY <2>1, <2>2, <2>4 DEF NestOK, DrainFrame
<1>9. \A c \in Clients : CtxOK(c)'
  BY DrainClients DEF DaemonInv
<1> QED
  BY <1>6, <1>7, <1>8, <1>9 DEF DaemonInv

\* Giving up DRAINING: a wakeup that came meanwhile is taken by this drain; otherwise what
\* is queued has an enqueuer that is about to set WAKEUP, and a canceled queue is empty.
LEMMA DrainUnlockInv ==
    ASSUME DaemonInv, NEW q \in Queues, DrainUnlock(q)
    PROVE  DaemonInv'
<1>1. PICK st : st = state[q] \ {"DRAINING"}
  OBVIOUS
<1>2. PICK b : b = (waiting[q] /\ "WAKEUP" \notin st)
  OBVIOUS
<1>3. CoreOK(q) /\ dpc[q] = "unlock" /\ batch[q] = <<>> /\ dpc[q] \in Busy \ {"nested"}
  BY DEF DrainUnlock, DaemonInv, CoreOK, DrainOK, Busy, Looking
<1>4. /\ state' = [state EXCEPT ![q] = st] /\ waiting' = [waiting EXCEPT ![q] = b]
      /\ kind' = kind /\ gone' = gone /\ fifo' = fifo /\ batch' = batch /\ drained' = drained
      /\ unflushed' = unflushed /\ called' = called /\ cwait' = cwait /\ ctx' = ctx /\ failed' = failed
      /\ "WAKEUP" \in st => dpc' = [dpc EXCEPT ![q] = "xor"]
      /\ "WAKEUP" \notin st /\ "CANCELED" \in st => dpc' = [dpc EXCEPT ![q] = "wakecanceler"]
      /\ "WAKEUP" \notin st /\ "CANCELED" \notin st => dpc' = Returned(q, "idle")
  BY <1>1, <1>2 DEF DrainUnlock
<1>5. /\ waiting' \in [Queues -> BOOLEAN] /\ waiting'[q] = b
      /\ \A r \in Queues \ {q} : waiting'[r] = waiting[r]
  <2>1. b \in BOOLEAN /\ waiting \in [Queues -> BOOLEAN]
    BY <1>2 DEF DaemonInv, DaemonType
  <2> QED
    BY <1>4, <2>1
<1>6. /\ state' \in [Queues -> SUBSET StateBits] /\ state'[q] = st
      /\ \A r \in Queues \ {q} : state'[r] = state[r]
      /\ "WAKEUP" \in st <=> "WAKEUP" \in state[q]
      /\ "CANCELED" \in st <=> "CANCELED" \in state[q]
      /\ "INACTIVE" \in st <=> "INACTIVE" \in state[q]
      /\ "DRAINING" \notin st
  BY <1>1, <1>4 DEF DaemonInv, DaemonType
<1>7. \A x : InBatchOrQueue(x)' <=> InBatchOrQueue(x)
  BY <1>4 DEF InBatchOrQueue
<1>8. DrainFrame
  BY <1>4, <1>6, <1>7 DEF DrainFrame, Canceled
<1>9. /\ IsTarget(q)' <=> IsTarget(q)
      /\ Canceled(q)' <=> Canceled(q)
      /\ \A c \in Clients : /\ Canceling(c, q)' <=> Canceling(c, q)
                            /\ Sending(c, q)' <=> Sending(c, q)
                            /\ Carries(c, q)' <=> Carries(c, q)
  BY <1>4, <1>8 DEF DrainFrame, IsTarget, Canceling, Sending, Carries
<1>10. CanceledOK(q)'
  BY <1>3, <1>4, <1>6, <1>9 DEF CoreOK, CanceledOK
<1>11. ChainOK(q)'
  BY <1>3, <1>4 DEF CoreOK, ChainOK
<1>12. /\ ~Canceled(q) => ~Summoned(q) /\ \A c \in Clients : ~Carries(c, q)
       /\ ~unflushed[q] /\ "INACTIVE" \notin state[q] /\ ~gone[q]
       /\ kind[q] = "thread" /\ ~Canceled(q) => waiting[q]
       /\ fifo[q] # <<>> => "WAKEUP" \in st \/ \E c \in Clients : ctx[c].pc = "orwakeup" /\ ctx[c].q = q
  BY <1>3, <1>6 DEF CoreOK, TokenOK, DrainOK, CanceledOK, LookedAfter, Looking
<1>13. CASE "WAKEUP" \in st
  <2>1. /\ dpc'[q] = "xor" /\ (\A r \in Queues \ {q} : dpc'[r] = dpc[r])
        /\ dpc' \in [Queues -> {"idle", "xor", "wakecanceler", "terminated"} \cup Busy]
    BY <1>4, <1>13 DEF DaemonInv, DaemonType
  <2>2. DrainOK(q)'
    BY <1>3, <1>4, <1>6, <1>9, <1>12, <2>1 DEF CoreOK, DrainOK, Busy, Looking
  <2>3. ~Canceled(q) => ~Summoned(q)'
    BY <1>4, <1>7, <1>12, <2>1 DEF Summoned
  <2>4. TokenOK(q)' /\ TokenThere(q)' /\ LookedAfter(q)'
    BY <1>6, <1>9, <1>12, <1>13, <2>1, <2>3 DEF TokenOK, TokenThere, LookedAfter
  <2>5. CoreOK(q)'
    BY <1>10, <1>11, <2>2, <2>4 DEF CoreOK
  <2>6. \A r \in Queues \ {q} : OwnStays(r)
    BY <1>4, <1>5, <1>6, <2>1 DEF OwnStays
  <2>7. DaemonType' /\ failed' = FALSE
    BY <1>4, <1>5, <1>6, <2>1 DEF DaemonInv, DaemonType
  <2> QED
    BY <1>3, <1>7, <1>8, <2>5, <2>6, <2>7, OneDrainInv
<1>14. CASE "WAKEUP" \notin st /\ "CANCELED" \in st
  <2>1. /\ dpc'[q] = "wakecanceler" /\ (\A r \in Queues \ {q} : dpc'[r] = dpc[r])
        /\ dpc' \in [Queues -> {"idle", "xor", "wakecanceler", "terminated"} \cup Busy]
    BY <1>4, <1>14 DEF DaemonInv, DaemonType
  <2>2. Canceled(q)
    BY <1>6, <1>14 DEF Canceled
  <2>3. fifo[q] = <<>>
    <3>1. \A r \in Queues : CanceledOK(r)
      BY DEF DaemonInv, CoreOK
    <3>2. \A c \in Clients : ctx[c].pc = "orwakeup" => ctx[c].q # q
      BY <2>2, <3>1, OpOfPc, SenderLive DEF DaemonInv
    <3> QED
      BY <1>12, <1>14, <3>2
  <2>4. DrainOK(q)'
    BY <1>3, <1>4, <1>6, <1>9, <1>12, <1>14, <2>1, <2>2, <2>3 DEF CoreOK, DrainOK, Busy, Looking
  <2>5. TokenOK(q)' /\ TokenThere(q)' /\ LookedAfter(q)'
    BY <1>4, <1>6, <1>9, <1>14, <2>2, <2>3 DEF TokenOK, TokenThere, LookedAfter
  <2>6. CoreOK(q)'
    BY <1>10, <1>11, <2>4, <2>5 DEF CoreOK
  <2>7. \A r \in Queues \ {q} : OwnStays(r)
    BY <1>4, <1>5, <1>6, <2>1 DEF OwnStays
  <2>8. DaemonType' /\ failed' = FALSE
    BY <1>4, <1>5, <1>6, <2>1 DEF DaemonInv, DaemonType
  <2> QED
    BY <1>3, <1>7, <1>8, <2>6, <2>7, <2>8, OneDrainInv
<1>15. CASE "WAKEUP" \notin st /\ "CANCELED" \notin st
  <2>1. ~Canceled(q)
    BY <1>6, <1>15 DEF Canceled
  <2>2. kind[q] = "thread" => b
    BY <1>2, <1>12, <1>15, <2>1
  <2>3. ASSUME dpc'[q] = "idle" PROVE CoreOK(q)'
    <3>1. DrainOK(q)'
      BY <1>3, <1>4, <1>6, <1>9, <1>12, <2>3 DEF CoreOK, DrainOK, Busy, Looking
    <3>2. ~Summoned(q)'
      BY <1>4, <1>5, <1>7, <1>12, <2>1, <2>2 DEF Summoned
    <3>3. TokenOK(q)' /\ TokenThere(q)' /\ LookedAfter(q)'
      BY <1>4, <1>6, <1>9, <1>12, <1>15, <2>1, <2>3, <3>2 DEF TokenOK, TokenThere, LookedAfter
    <3> QED
      BY <1>10, <1>11, <3>1, <3>3 DEF CoreOK
  <2>4. CASE kind[q] # "nested"
    <3>1. /\ dpc'[q] = "idle" /\ (\A r \in Queues \ {q} : dpc'[r] = dpc[r])
          /\ dpc' \in [Queues -> {"idle", "xor", "wakecanceler", "terminated"} \cup Busy]
      BY <1>4, <1>15, <2>4 DEF DaemonInv, DaemonType, Returned
    <3>2. \A r \in Queues \ {q} : OwnStays(r)
      BY <1>4, <1>5, <1>6, <3>1 DEF OwnStays
    <3>3. DaemonType' /\ failed' = FALSE
      BY <1>4, <1>5, <1>6, <3>1 DEF DaemonInv, DaemonType
    <3> QED
      BY <1>3, <1>7, <1>8, <2>3, <2>4, <3>1, <3>2, <3>3, OneDrainInv
  <2>5. CASE kind[q] = "nested"
    <3>1. dpc' = [dpc EXCEPT ![q] = "idle", ![Target[q]] = AfterInvoke(Target[q])]
      BY <1>4, <1>15, <2>5 DEF Returned
    <3>2. /\ Target[q] \in Queues /\ Target[q] # q /\ AfterInvoke(Target[q]) \in Busy
      BY <2>5, TargetOther DEF DaemonInv, DaemonType, Nested, AfterInvoke, Busy, Looking
    <3>3. /\ dpc'[q] = "idle"
          /\ dpc' \in [Queues -> {"idle", "xor", "wakecanceler", "terminated"} \cup Busy]
      BY <3>1, <3>2 DEF DaemonInv, DaemonType
    <3>4. DaemonType' /\ failed' = FALSE
      BY <1>4, <1>5, <1>6, <3>3 DEF DaemonInv, DaemonType
    <3>5. \A r \in Queues \ {q} :
               /\ gone'[r] = gone[r] /\ state'[r] = state[r] /\ drained'[r] = drained[r]
               /\ unflushed'[r] = unflushed[r] /\ waiting'[r] = waiting[r]
               /\ called'[r] = called[r] /\ cwait'[r] = cwait[r]
      BY <1>4, <1>5, <1>6
    <3> QED
      BY <1>3, <1>4, <1>8, <2>3, <2>5, <3>1, <3>3, <3>4, <3>5, ReturnInv
  <2> QED
    BY <2>4, <2>5
<1> QED
  BY <1>13, <1>14, <1>15

\* thread_wakeup(&dq->mpd_state): the canceler may go on, nothing is left.
LEMMA DrainWakeCancelerInv ==
    ASSUME DaemonInv, NEW q \in Queues, DrainWakeCanceler(q)
    PROVE  DaemonInv'
<1>1. /\ CoreOK(q) /\ dpc[q] = "wakecanceler" /\ Canceled(q) /\ "WAKEUP" \notin state[q]
      /\ fifo[q] = <<>> /\ batch[q] = <<>>
  BY DEF DrainWakeCanceler, DaemonInv, CoreOK, DrainOK
<1>2. PICK last : last = IF kind[q] = "thread" THEN "terminated" ELSE "idle"
  OBVIOUS
<1>3. kind[q] \in {"thread", "call"} /\ ~gone[q]
  BY <1>1 DEF CoreOK, CanceledOK
<1>4. /\ cwait' = [cwait EXCEPT ![q] = FALSE] /\ waiting' = [waiting EXCEPT ![q] = FALSE]
      /\ dpc' = [dpc EXCEPT ![q] = last]
      /\ state' = state /\ kind' = kind /\ gone' = gone /\ fifo' = fifo /\ batch' = batch
      /\ drained' = drained /\ unflushed' = unflushed /\ called' = called /\ ctx' = ctx /\ failed' = failed
  BY <1>2, <1>3 DEF DrainWakeCanceler, Returned
<1>5. cwait \in [Queues -> BOOLEAN] /\ waiting \in [Queues -> BOOLEAN]
  BY DEF DaemonInv, DaemonType
<1>6. /\ cwait'[q] = FALSE /\ waiting'[q] = FALSE
      /\ cwait' \in [Queues -> BOOLEAN] /\ waiting' \in [Queues -> BOOLEAN]
      /\ \A r \in Queues \ {q} : cwait'[r] = cwait[r] /\ waiting'[r] = waiting[r]
  BY <1>4, <1>5
<1>7. /\ dpc'[q] = last /\ (\A r \in Queues \ {q} : dpc'[r] = dpc[r])
      /\ dpc' \in [Queues -> {"idle", "xor", "wakecanceler", "terminated"} \cup Busy]
  BY <1>2, <1>4 DEF DaemonInv, DaemonType
<1>8. \A x : InBatchOrQueue(x)' <=> InBatchOrQueue(x)
  BY <1>4 DEF InBatchOrQueue
<1>9. DrainFrame
  <2>1. \A r \in Queues : cwait[r] => cwait'[r] \/ Canceled(r)
    BY <1>1, <1>6
  <2> QED
    BY <1>4, <1>8, <2>1 DEF DrainFrame, Canceled
<1>10. CoreOK(q)'
  <2>1. /\ IsTarget(q)' <=> IsTarget(q)
        /\ Canceled(q)' <=> Canceled(q)
        /\ \A c \in Clients : /\ Canceling(c, q)' <=> Canceling(c, q)
                              /\ Sending(c, q)' <=> Sending(c, q)
    BY <1>4, <1>9 DEF DrainFrame, IsTarget, Canceling, Sending
  <2>2. CanceledOK(q)'
    BY <1>1, <1>2, <1>3, <1>4, <1>6, <1>7, <2>1 DEF CoreOK, CanceledOK
  <2>3. DrainOK(q)'
    BY <1>1, <1>2, <1>3, <1>4, <1>6, <1>7, <2>1 DEF CoreOK, DrainOK, Busy, Looking
  <2>4. ChainOK(q)'
    BY <1>1, <1>4 DEF CoreOK, ChainOK
  <2>5. TokenOK(q)' /\ TokenThere(q)' /\ LookedAfter(q)'
    BY <1>1, <1>4, <2>1 DEF TokenOK, TokenThere, LookedAfter
  <2> QED
    BY <2>2, <2>3, <2>4, <2>5 DEF CoreOK
<1>11. \A r \in Queues \ {q} : OwnStays(r)
  BY <1>4, <1>6, <1>7 DEF OwnStays
<1>12. DaemonType' /\ failed' = FALSE
  BY <1>4, <1>6, <1>7 DEF DaemonInv, DaemonType
<1> QED
  BY <1>1, <1>3, <1>8, <1>9, <1>10, <1>11, <1>12, OneDrainInv

-----------------------------------------------------------------------------
(* The invariant *)

\* The queues as they are initialized satisfy it.
LEMMA InitInv ==
    ASSUME Init
    PROVE  DaemonInv
<1>1. /\ kind \in Kinds /\ failed = FALSE
      /\ gone = [q \in Queues |-> FALSE]
      /\ state = [q \in Queues |-> IF q \in Inactive THEN {"INACTIVE"} ELSE {}]
      /\ fifo = [q \in Queues |-> <<>>] /\ batch = [q \in Queues |-> <<>>]
      /\ dpc = [q \in Queues |-> "idle"] /\ drained = [q \in Queues |-> FALSE]
      /\ unflushed = [q \in Queues |-> FALSE] /\ waiting = [q \in Queues |-> kind[q] = "thread"]
      /\ called = [q \in Queues |-> FALSE] /\ cwait = [q \in Queues |-> FALSE]
      /\ ctx = [c \in Clients |-> Idle]
  BY DEF Init
<1>2. <<>> \in Seq(Things)
  OBVIOUS
<1>3. waiting \in [Queues -> BOOLEAN] /\ \A q \in Queues : waiting[q] <=> kind[q] = "thread"
  BY <1>1
<1>4. DaemonType
  BY <1>1, <1>2, <1>3, IdleType DEF DaemonType, StateBits
<1>5. \A c \in Clients : /\ ctx[c] = Idle /\ ctx[c].pc = "idle" /\ ctx[c].op = NONE
                         /\ ctx[c].home = NONE /\ ctx[c].q = NONE /\ ctx[c].elm = NONE
  BY <1>1, IdleQuiet
<1>6. \A c \in Clients : CtxOK(c)
  BY <1>5, DaemonAssumption DEF CtxOK, SendOK, CancelOK, ElmOK
<1>7. ASSUME NEW q \in Queues PROVE CoreOK(q) /\ NestOK(q)
  <2>1. /\ ~gone[q] /\ state[q] \subseteq {"INACTIVE"} /\ fifo[q] = <<>> /\ batch[q] = <<>>
        /\ dpc[q] = "idle" /\ ~drained[q] /\ ~unflushed[q] /\ ~called[q] /\ ~cwait[q]
    BY <1>1
  <2>2. ~Canceled(q)
    BY <2>1 DEF Canceled
  <2>3. ~Summoned(q)
    <3>1. ~InBatchOrQueue(q)
      BY <1>1, ToSetEmpty DEF InBatchOrQueue
    <3> QED
      BY <1>3, <2>1, <3>1 DEF Summoned
  <2>4. \A c \in Clients : ~Carries(c, q)
    BY <1>5 DEF Carries
  <2>5. CanceledOK(q)
    BY <2>1, <2>2 DEF CanceledOK
  <2>6. DrainOK(q)
    BY <2>1 DEF DrainOK, Busy, Looking
  <2>7. ChainOK(q)
    <3>1. Len(<<>>) = 0 /\ \A i : i \notin 1 .. 0
      OBVIOUS
    <3> QED
      BY <2>1, <3>1, ToSetEmpty DEF ChainOK
  <2>8. TokenOK(q) /\ TokenThere(q) /\ LookedAfter(q) /\ NestOK(q)
    BY <2>1, <2>3, <2>4 DEF TokenOK, TokenThere, LookedAfter, NestOK
  <2> QED
    BY <2>5, <2>6, <2>7, <2>8 DEF CoreOK
<1> QED
  BY <1>1, <1>4, <1>6, <1>7 DEF DaemonInv

\* A step that changes nothing preserves it.
LEMMA StutterInv ==
    ASSUME DaemonInv,
           UNCHANGED <<kind, gone, state, fifo, drainVars, waiting, called, cwait, ctx, failed>>
    PROVE  DaemonInv'
<1>1. /\ kind' = kind /\ gone' = gone /\ state' = state /\ fifo' = fifo /\ batch' = batch /\ dpc' = dpc
      /\ drained' = drained /\ unflushed' = unflushed /\ waiting' = waiting /\ called' = called
      /\ cwait' = cwait /\ ctx' = ctx /\ failed' = failed
  BY DEF drainVars
<1>2. \A x : InBatchOrQueue(x)' <=> InBatchOrQueue(x)
  BY <1>1 DEF InBatchOrQueue
<1>3. DrainFrame
  BY <1>1, <1>2 DEF DrainFrame, Canceled
<1>4. \A c \in Clients : CtxOK(c)'
  BY <1>3, DrainClients DEF DaemonInv
<1>5. \A q \in Queues : OwnStays(q)
  BY <1>1 DEF OwnStays
<1>6. \A q \in Queues : CoreOK(q)'
  BY <1>1, <1>2, <1>5, OtherDrain DEF DaemonInv
<1>7. \A q \in Queues : NestOK(q)'
  BY <1>1 DEF DaemonInv, NestOK
<1>8. DaemonType' /\ failed' = FALSE
  BY <1>1 DEF DaemonInv, DaemonType
<1> QED
  BY <1>4, <1>6, <1>7, <1>8 DEF DaemonInv

\* Every step preserves it.
LEMMA NextInv ==
    ASSUME CarefulOwners, DaemonInv, [Next]_vars
    PROVE  DaemonInv'
<1>1. ASSUME NEW c \in Clients, ClientCall(c) PROVE DaemonInv'
  <2>1. PICK q \in Queues : \/ \E e \in Elements : EnqueueCall(c, q, e)
                            \/ Activate(c, q)
                            \/ CancelAssertWait(c, q)
    BY <1>1 DEF ClientCall
  <2> QED
    BY <2>1, EnqueueCallInv, ActivateInv, CancelAssertWaitInv
<1>2. ASSUME NEW c \in Clients, ClientStep(c) PROVE DaemonInv'
  BY <1>2, EnqueueAppendInv, EnqueueOrWakeupInv, WakeupInv, WakeupNestedInv, CancelOrInv,
     CancelReturnInv DEF ClientStep
<1>3. ASSUME NEW q \in Queues, DrainStep(q) PROVE DaemonInv'
  BY <1>3, RunInv, DrainXorInv, DrainClearWakeupInv, DrainDequeueInv, DrainEmptyInv, DrainInvokeInv,
     DrainNestedInv, DrainBatchEndInv, DrainAssertWaitInv, DrainUnlockInv, DrainWakeCancelerInv
     DEF DrainStep
<1>4. ASSUME NEW c \in Clients, WakeupDead(c) PROVE DaemonInv'
  BY <1>4, StutterInv DEF WakeupDead
<1>5. CASE Next
  BY <1>1, <1>2, <1>3, <1>4, <1>5 DEF Next
<1>6. CASE UNCHANGED vars
  BY <1>6, StutterInv DEF vars, drainVars
<1> QED
  BY <1>5, <1>6

\* The inductive invariant of the daemon queues: there is at most one wakeup of a queue, at
\* least one when it is needed, and a canceled queue is let go only when it is empty.
THEOREM InvariantHolds == CarefulOwners => (Spec => []DaemonInv)
<1> SUFFICES ASSUME CarefulOwners PROVE Spec => []DaemonInv
  OBVIOUS
<1>1. Init => DaemonInv
  BY InitInv
<1>2. DaemonInv /\ [Next]_vars => DaemonInv'
  BY NextInv
<1> QED
  BY <1>1, <1>2, PTL DEF Spec

-----------------------------------------------------------------------------
(* The properties *)

\* The queues, their drains and the clients' calls stay in their types.
THEOREM TypeCorrect == CarefulOwners => (Spec => []TypeOK)
<1> DEFINE PanicType == panicked \in BOOLEAN
<1>1. DaemonInv /\ PanicType => TypeOK
  BY DEF DaemonInv, DaemonType, TypeOK, CtxType, Pcs, Ops, Things, Busy, Looking
<1>2. Init => PanicType
  BY DEF Init
<1>3. PanicType /\ [Next]_vars => PanicType'
  <2> SUFFICES ASSUME PanicType, [Next]_vars PROVE PanicType'
    OBVIOUS
  <2>1. panicked' = panicked \/ panicked' = TRUE
    BY DEF Next, ClientCall, ClientStep, DrainStep, Running, WakeupDead, vars
  <2> QED
    BY <2>1
<1> HIDE DEF PanicType
<1> QED
  BY <1>1, <1>2, <1>3, InvariantHolds, PTL DEF Spec

\* Whoever wakes a thread that has terminated is the canceler of its queue.
LEMMA DeadWoken ==
    ASSUME DaemonInv, NEW c \in Clients, WakeupDead(c)
    PROVE  ctx[c].op = "cancel"
<1>1. PICK q : q = ctx[c].q
  OBVIOUS
<1>2. ctx[c].pc = "wakeup" /\ dpc[q] = "terminated" /\ CtxOK(c) /\ ctx[c].op \in Ops
  BY <1>1 DEF WakeupDead, DaemonInv, DaemonType, CtxType
<1>3. ctx[c].op # NONE
  BY <1>2, IdleQuiet DEF CtxOK
<1>4. CASE ctx[c].op \in {"enqueue", "activate"}
  <2>1. q \in Queues /\ (q = ctx[c].home \/ IsTarget(q))
    BY <1>1, <1>2, <1>4 DEF CtxOK, SendOK
  <2>2. Canceled(q)
    BY <1>2, <2>1 DEF DaemonInv, CoreOK, DrainOK
  <2>3. ~IsTarget(q) /\ ~Sending(c, q)
    BY <2>1, <2>2 DEF DaemonInv, CoreOK, CanceledOK
  <2> QED
    BY <1>4, <2>1, <2>3 DEF Sending
<1> QED
  BY <1>2, <1>3, <1>4 DEF Ops

\* No assertion or panic of mpsc_queue.c fires, and only a canceler wakes a dead thread,
\* whatever the number of queues, senders and owners and however queues are nested.
THEOREM NeverPanics == CarefulOwners => (Spec => []NoPanic)
<1>1. Init => NoPanic
  BY DEF Init, NoPanic
<1>2. ASSUME DaemonInv, DaemonInv', NoPanic, [Next]_vars PROVE NoPanic'
  <2>0. failed' = FALSE
    BY <1>2 DEF DaemonInv
  <2>1. CASE Running
    BY <2>0, <2>1 DEF NoPanic, Running
  <2>2. ASSUME NEW c \in Clients, WakeupDead(c) PROVE NoPanic'
    <3>1. /\ ctx'[c].pc = "wakeup" /\ dpc'[ctx'[c].q] = "terminated"
          /\ ctx'[c].op = "cancel"
      BY <1>2, <2>2, DeadWoken DEF WakeupDead, drainVars
    <3> QED
      BY <2>0, <3>1 DEF NoPanic
  <2>3. CASE UNCHANGED vars
    BY <1>2, <2>3 DEF NoPanic, vars
  <2> QED
    BY <1>2, <2>1, <2>2, <2>3 DEF Next, ClientCall, ClientStep, DrainStep
<1> QED
  BY <1>1, <1>2, InvariantHolds, PTL DEF Spec

\* Once mpsc_daemon_queue_cancel_and_wait has returned nothing refers to the queue.
THEOREM CancelIsSafe == CarefulOwners => (Spec => []NoUseAfterCancel)
<1>1. ASSUME DaemonInv PROVE NoUseAfterCancel
  <2> SUFFICES ASSUME NEW q \in Queues, gone[q]
               PROVE  /\ fifo[q] = <<>> /\ batch[q] = <<>>
                      /\ dpc[q] \in {"idle", "terminated"}
                      /\ ~ called[q]
                      /\ \A t \in Queues : q \notin ToSet(fifo[t]) \cup ToSet(batch[t])
                      /\ \A c \in Clients : ctx[c].q # q /\ ctx[c].elm # q
    BY DEF NoUseAfterCancel
  <2>1. /\ Canceled(q) /\ ~called[q] /\ dpc[q] \in {"idle", "terminated"} /\ kind[q] # "nested"
        /\ fifo[q] = <<>> /\ batch[q] = <<>>
    BY <1>1 DEF DaemonInv, CoreOK, CanceledOK
  <2>2. \A t \in Queues : q \notin ToSet(fifo[t]) \cup ToSet(batch[t])
    BY <1>1, <2>1 DEF DaemonInv, CoreOK, ChainOK
  <2>3. ASSUME NEW c \in Clients PROVE ctx[c].q # q /\ ctx[c].elm # q
    <3>1. CtxOK(c) /\ DaemonType /\ \A r \in Queues : CanceledOK(r)
      BY <1>1 DEF DaemonInv, CoreOK
    <3>2. ctx[c].elm # q
      BY <2>1, <3>1, DaemonAssumption DEF CtxOK, ElmOK
    <3>3. ctx[c].op \in {NONE, "enqueue", "activate", "cancel"}
      BY <3>1 DEF DaemonType, CtxType, Ops
    <3>4. CASE ctx[c].op = NONE
      BY <3>1, <3>2, <3>4, IdleQuiet, DaemonAssumption DEF CtxOK
    <3>5. CASE ctx[c].op \in {"enqueue", "activate"}
      BY <2>1, <3>1, <3>2, <3>5, SenderLive
    <3>6. CASE ctx[c].op = "cancel"
      BY <3>1, <3>2, <3>6 DEF CtxOK, CancelOK
    <3> QED
      BY <3>3, <3>4, <3>5, <3>6
  <2> QED
    BY <2>1, <2>2, <2>3
<1> QED
  BY <1>1, InvariantHolds, PTL

\* No wakeup is lost between an enqueue and the end of a drain.
THEOREM WakeupNeverLost == CarefulOwners => (Spec => []QueueAttended)
<1>1. ASSUME DaemonInv PROVE QueueAttended
  <2> SUFFICES ASSUME NEW q \in Queues, fifo[q] # <<>>, "INACTIVE" \notin state[q]
               PROVE  \/ WakeComing(q)
                      \/ \E c \in Clients : ctx[c].pc = "orwakeup" /\ ctx[c].q = q
                      \/ dpc[q] \in {"xor", "clearwakeup", "dequeue", "invoke", "nested"}
                      \/ dpc[q] \in {"batchend", "assertwait", "unlock"} /\ "WAKEUP" \in state[q]
    BY DEF QueueAttended
  <2>1. CoreOK(q) /\ \A c \in Clients : CtxOK(c)
    BY <1>1 DEF DaemonInv
  <2>2. (\E c \in Clients : Carries(c, q)) => WakeComing(q)
    BY <2>1 DEF Carries, WakeComing, CtxOK, ElmOK
  <2>3. Summoned(q) => WakeComing(q)
    BY DEF Summoned, WakeComing
  <2> QED
    BY <2>1, <2>2, <2>3 DEF CoreOK, LookedAfter, TokenThere, Busy, Looking
<1> QED
  BY <1>1, InvariantHolds, PTL

\* MPSC_QUEUE_BATCH_END follows the last element before the drain gives up the queue.
THEOREM BatchesComplete == CarefulOwners => (Spec => []BatchFlushed)
<1>1. DaemonInv => BatchFlushed
  BY DEF DaemonInv, CoreOK, DrainOK, BatchFlushed, Busy, Looking
<1> QED
  BY <1>1, InvariantHolds, PTL

\* The chain of a nested queue is on its target at most once.
THEOREM ChainsOnce == CarefulOwners => (Spec => []ChainQueuedOnce)
<1>1. ASSUME DaemonInv PROVE ChainQueuedOnce
  <2> SUFFICES ASSUME NEW n \in Queues, NEW q \in Queues,
                      NEW i \in 1 .. Len(batch[q] \o fifo[q]), NEW j \in 1 .. Len(batch[q] \o fifo[q]),
                      (batch[q] \o fifo[q])[i] = n, (batch[q] \o fifo[q])[j] = n
               PROVE  i = j
    BY DEF ChainQueuedOnce
  <2>1. PICK b, f : b = batch[q] /\ f = fifo[q]
    OBVIOUS
  <2>2. b \in Seq(Things) /\ f \in Seq(Things) /\ ChainOK(q)
    BY <1>1, <2>1 DEF DaemonInv, DaemonType, CoreOK
  <2>3. /\ \A k, l \in 1 .. Len(f) : f[k] = f[l] /\ f[k] \in Queues => k = l
        /\ \A k, l \in 1 .. Len(b) : b[k] = b[l] /\ b[k] \in Queues => k = l
    BY <2>1, <2>2 DEF ChainOK
  <2>3a. \A k \in 1 .. Len(b) : \A l \in 1 .. Len(f) : ~(b[k] = n /\ f[l] = n)
    <3>1. ~(n \in ToSet(f) /\ n \in ToSet(b))
      BY <2>1, <2>2 DEF ChainOK
    <3>2. DOMAIN b = 1 .. Len(b) /\ DOMAIN f = 1 .. Len(f)
      BY <2>2
    <3> QED
      BY <3>1, <3>2 DEF ToSet
  <2>3b. /\ i \in 1 .. Len(b \o f) /\ (b \o f)[i] = n
         /\ j \in 1 .. Len(b \o f) /\ (b \o f)[j] = n
    BY <2>1
  <2>4. /\ Len(b) \in Nat /\ Len(f) \in Nat /\ Len(b \o f) = Len(b) + Len(f)
        /\ \A k \in 1 .. Len(b \o f) : (b \o f)[k] = IF k <= Len(b) THEN b[k] ELSE f[k - Len(b)]
    BY <2>2
  <2>5. \A k \in 1 .. Len(b \o f) : \/ k \in 1 .. Len(b) /\ (b \o f)[k] = b[k]
                                    \/ k - Len(b) \in 1 .. Len(f) /\ (b \o f)[k] = f[k - Len(b)]
    BY <2>4
  <2>6. CASE i \in 1 .. Len(b) /\ b[i] = n
    <3>1. j \in 1 .. Len(b) /\ b[j] = n
      BY <2>3a, <2>3b, <2>5, <2>6
    <3> QED
      BY <2>3, <2>6, <3>1
  <2>7. CASE i - Len(b) \in 1 .. Len(f) /\ f[i - Len(b)] = n
    <3>1. j - Len(b) \in 1 .. Len(f) /\ f[j - Len(b)] = n
      BY <2>3a, <2>3b, <2>5, <2>7
    <3>2. i - Len(b) = j - Len(b)
      BY <2>3, <2>7, <3>1
    <3> QED
      BY <2>3b, <2>4, <3>2
  <2> QED
    BY <2>3b, <2>5, <2>6, <2>7
<1> QED
  BY <1>1, InvariantHolds, PTL
=============================================================================
