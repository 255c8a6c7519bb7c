------------------------------ MODULE PortMap -------------------------------
(***************************************************************************)
(* What the table of listening ports promises: every port heard of has the *)
(* address it listens on, an IPv4 one if there is any, until the table is  *)
(* thrown away.                                                            *)
(***************************************************************************)
CONSTANTS Ports, NULL

VARIABLES
  heard,    \* the ports and families met since the table was made
  address   \* the family of the address of each port

vars == <<heard, address>>

Init == heard = {} /\ address = [port \in Ports |-> NULL]

Listen(port, family) ==
  /\ heard' = heard \cup {<<port, family>>}
  /\ address' = IF family = "inet" \/ address[port] = NULL
                THEN [address EXCEPT ![port] = family] ELSE address

Close == heard' = {} /\ address' = [port \in Ports |-> NULL]

Next == Close \/ \E port \in Ports, family \in {"inet", "inet6"} : Listen(port, family)

Spec == Init /\ [][Next]_vars
=============================================================================
