------------------------------ MODULE XmppLink ------------------------------
(***************************************************************************)
(* The XMPP client through look-ups, connects, handshakes, stream errors,  *)
(* outages, reconnections and its replacement, and what the window learns  *)
(* of it.                                                                  *)
(*                                                                         *)
(* The stream is the one of the current client: the destructor of a killed *)
(* client takes its socket, its timer and its pending look-up with it.     *)
(* connectToServer() always looks the server up first, since no host is    *)
(* configured.  keepAliveTimeout is 0 by default and nobody sets it, so    *)
(* there is no ping timeout: a dead connection is noticed as a socket      *)
(* error.                                                                  *)
(***************************************************************************)
VARIABLES
  socket,              \* the stream of the current client
  m_connected,
  retry,               \* the timer of the reconnection manager runs
  m_receivedConflict,
  wired,               \* the client is the one the constructor connected
  method,              \* m_push->m_push_method
  xmppEnabled,         \* pushButton_xmpp is enabled
  net,                 \* the server can be reached
  reported,            \* history: this client has set m_connected
  refused              \* history: the server refused this attempt

window == <<wired, method, xmppEnabled>>
vars == <<socket, m_connected, retry, m_receivedConflict, window,
          net, reported, refused>>

TypeOK ==
  /\ socket \in {"off", "lookup", "connecting", "handshake", "online",
                 "ended", "closing"}
  /\ m_connected \in BOOLEAN /\ retry \in BOOLEAN
  /\ m_receivedConflict \in BOOLEAN
  /\ wired \in BOOLEAN /\ xmppEnabled \in BOOLEAN
  /\ method \in {"http", "xmpp"}
  /\ net \in {"up", "down"}
  /\ reported \in BOOLEAN /\ refused \in BOOLEAN
-----------------------------------------------------------------------------
Init == /\ socket = "lookup" /\ m_connected \in BOOLEAN
        /\ retry = FALSE /\ m_receivedConflict = FALSE
        /\ wired = TRUE /\ method = "http" /\ xmppEnabled = TRUE
        /\ net \in {"up", "down"}
        /\ reported = FALSE /\ refused = FALSE

(* getInstance() makes a client, connection() starts its first look-up. *)
NewClient ==
  /\ socket' = "lookup" /\ m_connected' \in BOOLEAN
  /\ retry' = FALSE /\ m_receivedConflict' = FALSE
  /\ reported' = FALSE /\ refused' = FALSE
  /\ net' = net

(* connectedToServer and connectedError, and on_xmpp_connected in the      *)
(* window, which hears of the first client only.                           *)
Report(connected) ==
  /\ m_connected' = connected /\ reported' = TRUE
  /\ IF wired
     THEN /\ method' = IF connected THEN "xmpp" ELSE "http"
          /\ xmppEnabled' = connected
     ELSE UNCHANGED <<method, xmppEnabled>>
  /\ UNCHANGED <<wired, net>>
connectedToServer == Report(TRUE)
connectedError_OnlyTells ==
  /\ method' = IF wired THEN "http" ELSE method
  /\ xmppEnabled' = (xmppEnabled /\ ~wired)
  /\ reported' = TRUE
  /\ UNCHANGED <<m_connected, wired, net>>
connectedError_OnlyNotes ==
  /\ m_connected' = FALSE /\ reported' = TRUE
  /\ UNCHANGED <<window, net>>
connectedError == Report(FALSE)

(* The slots of the reconnection manager. *)
managerSocketError_WhenConnected ==
  /\ retry' = (retry \/ (m_connected /\ ~m_receivedConflict))
  /\ UNCHANGED m_receivedConflict
managerSocketError ==
  /\ retry' = (retry \/ ~m_receivedConflict)
  /\ UNCHANGED m_receivedConflict
managerStreamError(conflict) ==
  /\ m_receivedConflict' = (m_receivedConflict \/ conflict)
  /\ UNCHANGED retry
managerConnected == m_receivedConflict' = FALSE /\ UNCHANGED retry
-----------------------------------------------------------------------------
Silent == UNCHANGED <<m_connected, window, net, reported>>

LookedUp ==
  /\ socket = "lookup" /\ socket' = "connecting"
  /\ Silent /\ UNCHANGED <<retry, m_receivedConflict, refused>>

SocketConnected ==
  /\ socket = "connecting" /\ net = "up" /\ socket' = "handshake"
  /\ Silent /\ UNCHANGED <<retry, m_receivedConflict, refused>>

(* An attempt fails while the server cannot be reached; a connection may   *)
(* break at any time, and the server closes it after a stream error.       *)
SocketError ==
  /\ \/ socket \in {"connecting", "handshake"} /\ net = "down"
     \/ socket \in {"online", "ended", "closing"}
  /\ socket' = "off"
  /\ connectedError
  /\ managerSocketError
  /\ refused' = m_receivedConflict

SessionStarted ==
  /\ socket = "handshake" /\ net = "up" /\ socket' = "online"
  /\ connectedToServer
  /\ managerConnected
  /\ UNCHANGED refused

StreamError(conflict) ==
  /\ socket \in {"handshake", "online"} /\ socket' = "ended"
  /\ connectedError
  /\ managerStreamError(conflict)
  /\ refused' = (refused \/ conflict)

AuthenticationFailure ==
  /\ socket = "handshake" /\ socket' = "closing"
  /\ connectedError
  /\ managerStreamError(FALSE)
  /\ refused' = TRUE

(* The client ends a handshake it cannot follow, and tells nobody: a SASL  *)
(* challenge that is wrong or one too many, or a login by query without a  *)
(* way to log in.  Handshake has these cases one by one.                   *)
HandshakeGivenUp ==
  /\ socket = "handshake" /\ socket' = "closing"
  /\ refused' = TRUE
  /\ Silent /\ UNCHANGED <<retry, m_receivedConflict>>

Closed ==
  /\ socket = "closing" /\ socket' = "off"
  /\ Silent /\ UNCHANGED <<retry, m_receivedConflict, refused>>

(* A socket that is in use ignores the call. *)
reconnect_NotSingleShot ==
  /\ retry /\ retry' = TRUE
  /\ socket' = IF socket = "off" THEN "lookup" ELSE socket
  /\ refused' = FALSE
  /\ Silent /\ UNCHANGED m_receivedConflict
reconnect ==
  /\ retry /\ retry' = FALSE
  /\ socket' = IF socket = "off" THEN "lookup" ELSE socket
  /\ refused' = FALSE
  /\ Silent /\ UNCHANGED m_receivedConflict

(* An HTTP reply with new keys: the new client is connected to no window.  *)
ReplaceClient ==
  /\ NewClient
  /\ wired' = FALSE
  /\ UNCHANGED <<method, xmppEnabled>>

(* The program ends and is started again. *)
Relaunch ==
  /\ NewClient
  /\ wired' = TRUE /\ method' = "http" /\ xmppEnabled' = TRUE

NetChanges ==
  /\ net' \in {"up", "down"} \ {net}
  /\ UNCHANGED <<socket, m_connected, retry, m_receivedConflict,
                 window, reported, refused>>

Answer == SessionStarted \/ AuthenticationFailure \/ HandshakeGivenUp

Next == \/ LookedUp
        \/ SocketConnected
        \/ SocketError
        \/ Answer
        \/ \E conflict \in BOOLEAN : StreamError(conflict)
        \/ Closed
        \/ reconnect
        \/ ReplaceClient
        \/ Relaunch
        \/ NetChanges

Spec == Init /\ [][Next]_vars

(* Look-ups, socket calls and timers end; a server that is reached again   *)
(* and again answers a handshake some day instead of ending the stream.    *)
Fairness == /\ WF_vars(LookedUp) /\ WF_vars(SocketConnected)
            /\ WF_vars(SocketError /\ socket # "online")
            /\ SF_vars(Answer) /\ WF_vars(Closed) /\ WF_vars(reconnect)

FairSpec == Spec /\ Fairness
-----------------------------------------------------------------------------
(* Properties. *)

(* Payload_xmpp sends by m_connected alone: once the client has reported,  *)
(* it says exactly whether a session is open, through failures of every    *)
(* kind, reconnections and replacements.                                   *)
LinkTrue == reported => (m_connected <=> socket = "online")

(* Who is down tries again, unless the server refused: reconnection covers *)
(* every way to lose the link.                                             *)
StaysDownOnlyWhenRefused == socket = "off" => retry \/ refused

(* The timer of the reconnection manager never meets a connection that is  *)
(* up or being made, and a conflict stops it.                              *)
RetryOnlyWhenDown == retry => socket = "off" /\ ~m_receivedConflict

(* The inductive invariant. *)
IInv == /\ TypeOK /\ LinkTrue /\ StaysDownOnlyWhenRefused /\ RetryOnlyWhenDown
        /\ socket \in {"online", "ended"} => reported
        /\ socket = "closing" => refused
        /\ m_receivedConflict => refused /\ socket \in {"ended", "off"}

(* The client is a link as the push handlers expect it. *)
L == INSTANCE Link WITH link <- m_connected
LinkSpec == L!Spec

(* While the server can be reached and no other client takes over, the     *)
(* link is up again and again, or the server has refused it.               *)
LinkRecovers ==
  (<>[](net = "up") /\ <>[][~(ReplaceClient \/ Relaunch)]_vars)
    => []<>((reported /\ m_connected) \/ refused)

(* "push method : " (mainwindow.cpp:466) shows the method of the link as   *)
(* the client last reported it.                                            *)
ShownMethodIsReal == reported => (method = "xmpp" <=> m_connected)
=============================================================================
