----------------------------- MODULE MCHandshake -----------------------------
(* Handshake with a server of each kind that makes a difference.           *)
EXTENDS Handshake

Server(v, t, a, l) ==
  [version |-> v, tls |-> t, auth |-> a, login |-> l]

SomeServers ==
  {Server(TRUE, TRUE, "digest", "session"), Server(TRUE, FALSE, "plain", "norights"),
   Server(TRUE, FALSE, "digest", "nosession"), Server(TRUE, TRUE, "plain", "nobind"),
   Server(TRUE, TRUE, "digestfields", "session"), Server(TRUE, FALSE, "unknown", "session"),
   Server(FALSE, FALSE, "digestfields", "session"),
   Server(FALSE, FALSE, "plainfields", "session"), Server(FALSE, FALSE, "nofields", "session")}
=============================================================================
