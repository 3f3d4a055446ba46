-------------------------------- MODULE MCUdpif --------------------------------
(******************************************************************************)
(* Instances of Udpif for TLC.                                                *)
(******************************************************************************)
EXTENDS Udpif

OneFlow == {0}
MCHash == [f \in Flow |-> f]

\* The switch is first configured with one handler thread.
OneHandler == Init /\ config.n_handler_threads = 1
FromOneHandler == OneHandler /\ [][Next]_vars /\ Fairness
================================================================================
