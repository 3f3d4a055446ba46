--------------------------------- MODULE MCLacp ---------------------------------
(******************************************************************************)
(* Two bonds joined by a link.  Either may be given the other's system id, and *)
(* be made active and fast, or neither.                                       *)
(******************************************************************************)
EXTENDS Lacp

Two == {1, 2}
OneLink == {1}
Single == [l \in OneLink |-> Two]
Modes == {[sys |-> i, active |-> m, fast |-> m] : i \in Two, m \in BOOLEAN}
NoKeys == [a \in Two |-> [l \in OneLink |-> 0]]
================================================================================
