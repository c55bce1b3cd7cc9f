-------------------------- MODULE MCClientSession --------------------------
(***************************************************************************)
(* An instance of ClientSession for TLC.                                   *)
(***************************************************************************)
EXTENDS ClientSession

Order == <<"sensor", "video", "control", "input">>
=============================================================================
