----------------------------- MODULE MCProcScan -----------------------------
(* Two pids, one of a process the kernel may show as a thread. *)
EXTENDS ProcScan

TwoClones == {2}
=============================================================================
