---------------------------- MODULE MCEventlink ----------------------------
(* Eventlink for TLC: w1 and w2 wait on side 0, a wild one, w2 for UINT64_MAX; *)
(* w2 also ping-pongs from side 1, its own; c associates, signals and          *)
(* destroys.                                                                   *)
EXTENDS Eventlink

CONSTANTS w1, w2, c

MCCalls == [t \in {w1, w2, c} |->
              CASE t = w1 -> {<<"signal_wait", 0, 1>>, <<"signal_poll", 0, 0>>}
                [] t = w2 -> {<<"wait", 0, MAX>>, <<"signal_wait", 1, 0>>, <<"destroy", 1, None>>,
                              <<"drop", 1, None>>}
                [] t = c  -> {<<"associate", 0, WILD>>, <<"associate", 1, w2>>,
                              <<"disassociate", 0, None>>, <<"signal", 1, None>>,
                              <<"destroy", 0, None>>, <<"drop", 0, None>>}]
=============================================================================
