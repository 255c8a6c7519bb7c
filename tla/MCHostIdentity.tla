-------------------------- MODULE MCHostIdentity --------------------------
(***************************************************************************)
(* HostIdentity for TLC.  Two requests of one process are enough for       *)
(* replies that overlap, three for an overlap on top of an adopted key;    *)
(* two hosts for a machine that was registered twice.                      *)
(***************************************************************************)
EXTENDS HostIdentity
===========================================================================
