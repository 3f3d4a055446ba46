-------------------------------- MODULE MCSession --------------------------------
(******************************************************************************)
(* Instances of JsonrpcSession for TLC.                                       *)
(******************************************************************************)
EXTENDS JsonrpcSession

Active == {"active", "once", "unreliable"}
All == Active \union {"passive"}
MCBackoffs == {1, 4}
MCProbes == {0, 2}
================================================================================
