------------------------------ MODULE MpscFifo ------------------------------
(***************************************************************************)
(* What an MPSC queue promises (osfmk/kern/mpsc_queue.h): producers append *)
(* lists at the end in one step, the consumer takes everything queued at   *)
(* once, consumes that batch front to back, and may put an unfinished      *)
(* batch back in front of what has been queued meanwhile.                  *)
(***************************************************************************)
EXTENDS Sequences, SequencesExt

CONSTANTS Elements, MaxList

VARIABLES queue, batch

fifoVars == <<queue, batch>>

\* The lists a producer may append: up to MaxList different elements.
Lists == { s \in UNION { [1 .. n -> Elements] : n \in 1 .. MaxList } : IsInjective(s) }

Init == queue = <<>> /\ batch = <<>>

AppendList(list) ==
    /\ ToSet(list) \cap (ToSet(queue) \cup ToSet(batch)) = {}
    /\ queue' = queue \o list
    /\ UNCHANGED batch

TakeAll ==
    /\ batch = <<>> /\ queue # <<>>
    /\ batch' = queue
    /\ queue' = <<>>

ConsumeOne ==
    /\ batch # <<>>
    /\ batch' = Tail(batch)
    /\ UNCHANGED queue

Restore ==
    /\ batch # <<>>
    /\ queue' = batch \o queue
    /\ batch' = <<>>

Next ==
    \/ \E list \in Lists : AppendList(list)
    \/ TakeAll
    \/ ConsumeOne
    \/ Restore

Spec == Init /\ [][Next]_fifoVars
=============================================================================
