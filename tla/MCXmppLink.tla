----------------------------- MODULE MCXmppLink -----------------------------
(***************************************************************************)
(* XmppLink for TLC: its state space is finite as it stands.               *)
(***************************************************************************)
EXTENDS XmppLink
=============================================================================
