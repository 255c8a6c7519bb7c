---------------------------- MODULE MCPushLoop ----------------------------
(***************************************************************************)
(* Instances of PushLoop for TLC: the nine boxes of the window cut to the  *)
(* public_host box and two guarded sections of Populate, or none.          *)
(***************************************************************************)
EXTENDS PushLoop

NoSections == << >>
TwoSections == <<"network", "process">>
===========================================================================
