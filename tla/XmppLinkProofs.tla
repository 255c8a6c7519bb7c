--------------------------- MODULE XmppLinkProofs ---------------------------
(***************************************************************************)
(* Proofs about XmppLink: m_connected tells the truth, a client that is    *)
(* down tries again unless it was refused, and the client implements the   *)
(* abstract Link the push handlers rely on.                                *)
(***************************************************************************)
EXTENDS XmppLink, TLAPS

LEMMA InitInv == Init => IInv
  BY DEF Init, IInv, TypeOK, LinkTrue, StaysDownOnlyWhenRefused, RetryOnlyWhenDown

(* A new client has reported nothing and tries. *)
LEMMA NewClientInv ==
  ASSUME IInv, NewClient,
         window' \in {<<FALSE, method, xmppEnabled>>, <<TRUE, "http", TRUE>>}
  PROVE  IInv'
  BY DEF IInv, TypeOK, NewClient, window, LinkTrue, StaysDownOnlyWhenRefused,
         RetryOnlyWhenDown

(* What a report changes, whoever listens. *)
LEMMA ReportFacts ==
  ASSUME TypeOK, NEW connected \in BOOLEAN, Report(connected)
  PROVE  /\ m_connected' = connected /\ reported' = TRUE
         /\ net' = net /\ wired' = wired
         /\ method' \in {"http", "xmpp"} /\ xmppEnabled' \in BOOLEAN
  BY DEF TypeOK, Report

LEMMA StepInv == IInv /\ [Next]_vars => IInv'
<1> SUFFICES ASSUME IInv, [Next]_vars PROVE IInv'
  OBVIOUS
<1> USE DEF IInv, TypeOK, LinkTrue, StaysDownOnlyWhenRefused, RetryOnlyWhenDown
<1>1. CASE LookedUp
  BY <1>1 DEF LookedUp, Silent, window
<1>2. CASE SocketConnected
  BY <1>2 DEF SocketConnected, Silent, window
<1>3. CASE SocketError
  <2>1. Report(FALSE)
    BY <1>3 DEF SocketError, connectedError
  <2> QED BY <1>3, <2>1, ReportFacts DEF SocketError, managerSocketError
<1>4. CASE Answer
  <2>1. CASE SessionStarted
    <3>1. Report(TRUE)
      BY <2>1 DEF SessionStarted, connectedToServer
    <3> QED BY <2>1, <3>1, ReportFacts DEF SessionStarted, managerConnected
  <2>2. CASE AuthenticationFailure
    <3>1. Report(FALSE)
      BY <2>2 DEF AuthenticationFailure, connectedError
    <3> QED BY <2>2, <3>1, ReportFacts DEF AuthenticationFailure, managerStreamError
  <2>3. CASE HandshakeGivenUp
    BY <2>3 DEF HandshakeGivenUp, Silent, window
  <2> QED BY <1>4, <2>1, <2>2, <2>3 DEF Answer
<1>5. ASSUME NEW conflict \in BOOLEAN, StreamError(conflict) PROVE IInv'
  <2>1. Report(FALSE)
    BY <1>5 DEF StreamError, connectedError
  <2> QED BY <1>5, <2>1, ReportFacts DEF StreamError, managerStreamError
<1>6. CASE Closed
  BY <1>6 DEF Closed, Silent, window
<1>7. CASE reconnect
  BY <1>7 DEF reconnect, Silent, window
<1>8. CASE ReplaceClient
  BY <1>8, NewClientInv DEF ReplaceClient, window
<1>9. CASE Relaunch
  BY <1>9, NewClientInv DEF Relaunch, window
<1>10. CASE NetChanges
  BY <1>10 DEF NetChanges, window
<1>11. CASE UNCHANGED vars
  BY <1>11 DEF vars, window
<1> QED BY <1>1, <1>2, <1>3, <1>4, <1>5, <1>6, <1>7, <1>8, <1>9, <1>10, <1>11
        DEF Next
-----------------------------------------------------------------------------
(* The inductive invariant. *)
THEOREM Invariance == Spec => []IInv
  BY InitInv, StepInv, PTL DEF Spec

(* m_connected says whether a session is open, once it was set. *)
THEOREM Truth == Spec => []LinkTrue
<1>1. IInv => LinkTrue
  BY DEF IInv
<1> QED BY <1>1, Invariance, PTL

(* A client that is down tries again or was refused. *)
THEOREM TriesAgain == Spec => []StaysDownOnlyWhenRefused
<1>1. IInv => StaysDownOnlyWhenRefused
  BY DEF IInv
<1> QED BY <1>1, Invariance, PTL

(* No reconnection while a connection is up or being made, or after a      *)
(* conflict.                                                               *)
THEOREM NoCrossing == Spec => []RetryOnlyWhenDown
<1>1. IInv => RetryOnlyWhenDown
  BY DEF IInv
<1> QED BY <1>1, Invariance, PTL
-----------------------------------------------------------------------------
(* Every step of the client is a step of the link or leaves it alone. *)
LEMMA NextLink == [Next]_vars => [L!Next]_(L!vars)
<1> SUFFICES ASSUME [Next]_vars PROVE [L!Next]_(L!vars)
  OBVIOUS
<1> USE DEF L!Next, L!vars
<1>1. ASSUME NEW connected \in BOOLEAN, Report(connected)
      PROVE  L!Report(connected)
  BY <1>1 DEF Report, L!Report
<1>2. CASE LookedUp \/ SocketConnected \/ HandshakeGivenUp \/ Closed \/ reconnect
  BY <1>2 DEF LookedUp, SocketConnected, HandshakeGivenUp, Closed, reconnect,
              Silent, window
<1>3. CASE SocketError \/ AuthenticationFailure
           \/ \E conflict \in BOOLEAN : StreamError(conflict)
  <2>1. Report(FALSE)
    BY <1>3 DEF SocketError, AuthenticationFailure, StreamError, connectedError
  <2> QED BY <1>1, <2>1
<1>4. CASE SessionStarted
  <2>1. Report(TRUE)
    BY <1>4 DEF SessionStarted, connectedToServer
  <2> QED BY <1>1, <2>1
<1>5. CASE ReplaceClient
  BY <1>5 DEF ReplaceClient, NewClient, L!Replace
<1>6. CASE Relaunch
  BY <1>6 DEF Relaunch, NewClient, L!Relaunch
<1>7. CASE NetChanges \/ UNCHANGED vars
  BY <1>7 DEF NetChanges, vars, window
<1> QED BY <1>2, <1>3, <1>4, <1>5, <1>6, <1>7 DEF Next, Answer

(* The client implements the abstract link. *)
THEOREM LinkRefinement == Spec => LinkSpec
<1>1. Init => L!Init
  BY DEF Init, L!Init
<1> QED BY <1>1, NextLink, PTL DEF Spec, LinkSpec, L!Spec
=============================================================================
