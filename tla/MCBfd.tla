---------------------------------- MODULE MCBfd ---------------------------------
(* Instances of Bfd for TLC.                                                 *)
EXTENDS Bfd

Cfg(min_tx, min_rx, decay, cpath) ==
    [min_tx |-> min_tx, min_rx |-> min_rx, decay_min_rx |-> decay, cpath_down |-> cpath]

\* Both ends as in the tests, a session every 300 ms.
Base == Cfg(300, 300, 0, FALSE)

\* The first end decays to 3 s, as in the tests.
Decay3s == Cfg(300, 300, 3000, FALSE)
Decaying == [n \in Node |-> IF n = 1 THEN Decay3s ELSE Base]
DecayChanged == {Decay3s, Cfg(2000, 300, 3000, FALSE), Cfg(300, 300, 3000, TRUE)}

None == {}
One == {1}
================================================================================
