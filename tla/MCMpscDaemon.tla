---------------------------- MODULE MCMpscDaemon ----------------------------
(***************************************************************************)
(* Instances of MpscDaemon: a base queue served by a thread or by a thread *)
(* call, alone or as the target of two nested queues, the configuration of *)
(* thread_deallocate_daemon_init.                                          *)
(***************************************************************************)
EXTENDS MpscDaemon, TLC

CONSTANTS base, nest, twin, e1, e2

AllKinds ==
    { base :> k @@ nest :> "unknown" @@ twin :> "unknown" : k \in {"thread", "call"} }
      \cup { base :> "thread" @@ nest :> "nested" @@ twin :> "unknown",
             base :> "call" @@ nest :> "nested" @@ twin :> "nested" }

OneNested ==
    { base :> k @@ nest :> "nested" @@ twin :> "unknown" : k \in {"thread", "call"} }

\* Siblings have an element each; a queue that is alone takes both.
Apart ==
    [k \in AllKinds |->
       IF k[twin] = "nested" THEN base :> {} @@ nest :> {e1} @@ twin :> {e2}
       ELSE [q \in {base, nest, twin} |-> {e1, e2}]]

Both == [k \in OneNested |-> [q \in {base, nest, twin} |-> {e1, e2}]]

NestTarget == nest :> base @@ twin :> base
=============================================================================
