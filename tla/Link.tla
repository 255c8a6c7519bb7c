-------------------------------- MODULE Link --------------------------------
(***************************************************************************)
(* What the push handlers may expect of the XMPP link, and what the XMPP   *)
(* client promises: every report of the client is seen by the window it is *)
(* connected to, in the same step.  PushLoop and XmppLink both implement   *)
(* this module, one as the user of the link and one as its provider.       *)
(***************************************************************************)
VARIABLES
  link,        \* m_push->m_xmpp_client->m_connected
  wired,       \* that client is the one the constructor connected
  method,      \* m_push->m_push_method
  xmppEnabled  \* pushButton_xmpp is enabled

vars == <<link, wired, method, xmppEnabled>>

Init == /\ link \in BOOLEAN         \* m_connected is not initialised
        /\ wired = TRUE
        /\ method = "http"
        /\ xmppEnabled = TRUE

(* The client reports that it is connected, or that it is not. *)
Report(connected) ==
  /\ link' = connected
  /\ wired' = wired
  /\ IF wired
     THEN /\ method' = IF connected THEN "xmpp" ELSE "http"
          /\ xmppEnabled' = connected
     ELSE UNCHANGED <<method, xmppEnabled>>

(* Another client takes its place, which the window does not listen to. *)
Replace == /\ link' \in BOOLEAN
           /\ wired' = FALSE
           /\ UNCHANGED <<method, xmppEnabled>>

(* The program ends and is started again. *)
Relaunch == /\ link' \in BOOLEAN
            /\ wired' = TRUE
            /\ method' = "http"
            /\ xmppEnabled' = TRUE

Next == (\E connected \in BOOLEAN : Report(connected)) \/ Replace \/ Relaunch

Spec == Init /\ [][Next]_vars
=============================================================================
