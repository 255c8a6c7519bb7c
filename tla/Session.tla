------------------------------ MODULE Session ------------------------------
(***************************************************************************)
(* The connection settings of the main window through edits and restarts:  *)
(* what the fields show, what QSettings keeps and what Push and the        *)
(* auto-push timer really use.                                             *)
(*                                                                         *)
(* A line edit commits when it loses the focus or on Enter, so at most one *)
(* holds text that is not committed; a spin box commits every change.  The *)
(* constructor restores the settings in a fixed order, and setValue() of a *)
(* spin box that changes its value calls the handler at once.              *)
(*                                                                         *)
(* A text is one of a small set: the empty one, which QSettings answers    *)
(* for a missing value, is the only one the code tells apart.              *)
(***************************************************************************)
EXTENDS Integers

CONSTANTS Texts,          \* bound: what the user may type into a line edit
          DefaultServer,  \* the server of mainwindow.ui
          Ports, Rates    \* bound: values of the ports and the refresh rate

HttpPort == 80      \* the ports of mainwindow.ui
XmppPort == 5222

ASSUME TextAssumption == /\ "" \in Texts /\ DefaultServer \in Texts
ASSUME NumberAssumption == /\ HttpPort \in Ports /\ XmppPort \in Ports
                           /\ Ports \subseteq Nat /\ Rates \subseteq 5..99

NoPort == -1        \* a port QSettings has no value for
MinRate == 5        \* the minimum of spinBox_refresh, and its first value

Lines == {"server", "login", "password"}

VARIABLES
  running,   \* the window exists
  saved,     \* QSettings
  shown,     \* the fields of the window
  used,      \* m_server, m_http_port and the two parts of m_credentials
  interval,  \* of m_timer, in minutes
  dirty,     \* the line edit with text that is not committed, or "none"
  wild       \* a handler called m_timer before the constructor made it

vars == <<running, saved, shown, used, interval, dirty, wild>>

TypeOK ==
  /\ running \in BOOLEAN /\ wild \in BOOLEAN
  /\ saved \in [server : Texts, login : Texts, password : Texts,
                http_port : Ports \cup {NoPort}, xmpp_port : Ports \cup {NoPort},
                refresh : Rates \cup {0, MinRate}]
  /\ shown \in [server : Texts, login : Texts, password : Texts,
                http_port : Ports, xmpp_port : Ports, refresh : Rates \cup {MinRate}]
  /\ used \in [server : Texts, login : Texts, password : Texts,
               http_port : Ports \cup {NoPort}]
  /\ interval \in Rates \cup {MinRate}
  /\ dirty \in Lines \cup {"none"}
-----------------------------------------------------------------------------
(* Before the first launch: empty settings. *)
Init == /\ running = FALSE /\ wild = FALSE /\ dirty = "none"
        /\ saved = [server |-> "", login |-> "", password |-> "",
                    http_port |-> NoPort, xmpp_port |-> NoPort, refresh |-> 0]
        /\ shown = [server |-> DefaultServer, login |-> "", password |-> "",
                    http_port |-> HttpPort, xmpp_port |-> XmppPort, refresh |-> MinRate]
        /\ used = [server |-> "", login |-> "", password |-> "", http_port |-> NoPort]
        /\ interval = MinRate

Or(x, none, default) == IF x = none THEN default ELSE x

(* The constructor.  A restored rate other than the first value of the     *)
(* spin box calls on_spinBox_refresh_valueChanged, which writes through    *)
(* m_timer before it is made: the program ends there, or goes on.          *)
RestoredRate == IF saved.refresh < MinRate THEN MinRate ELSE saved.refresh

Launch ==
  /\ ~running
  /\ saved' = [saved EXCEPT !.refresh = RestoredRate]
  /\ shown' = [server |-> Or(saved.server, "", DefaultServer),
               login |-> saved.login, password |-> saved.password,
               http_port |-> Or(saved.http_port, NoPort, HttpPort),
               xmpp_port |-> Or(saved.xmpp_port, NoPort, XmppPort),
               refresh |-> RestoredRate]
  /\ used' = [server |-> saved.server, login |-> saved.login,
              password |-> saved.password, http_port |-> saved.http_port]
  /\ interval' = RestoredRate
  /\ dirty' = "none"
  /\ wild' = (wild \/ RestoredRate # MinRate)
  /\ running' \in IF RestoredRate # MinRate THEN BOOLEAN ELSE {TRUE}

(* The program ends: Quit, or an exit; what was typed and not committed is *)
(* lost.                                                                   *)
Exit == /\ running
        /\ running' = FALSE
        /\ UNCHANGED <<saved, shown, used, interval, dirty, wild>>
-----------------------------------------------------------------------------
(* The user types into line edit f; no other holds uncommitted text. *)
Type(f, text) ==
  /\ running /\ dirty \in {"none", f}
  /\ shown' = [shown EXCEPT ![f] = text]
  /\ dirty' = f
  /\ UNCHANGED <<running, saved, used, interval, wild>>

on_lineEdit_server_editingFinished_NotUsed ==
  /\ running /\ dirty \in {"none", "server"}
  /\ saved' = [saved EXCEPT !.server = shown.server]
  /\ dirty' = "none"
  /\ UNCHANGED <<running, shown, used, interval, wild>>
on_lineEdit_server_editingFinished ==
  /\ running /\ dirty \in {"none", "server"}
  /\ saved' = [saved EXCEPT !.server = shown.server]
  /\ used' = [used EXCEPT !.server = shown.server]
  /\ dirty' = "none"
  /\ UNCHANGED <<running, shown, interval, wild>>

(* Login and password: each saves its own field and puts m_credentials     *)
(* together from both fields.                                              *)
on_lineEdit_credentials_editingFinished(f) ==
  /\ running /\ dirty \in {"none", f}
  /\ saved' = [saved EXCEPT ![f] = shown[f]]
  /\ used' = [used EXCEPT !.login = shown.login, !.password = shown.password]
  /\ dirty' = "none"
  /\ UNCHANGED <<running, shown, interval, wild>>

on_http_spinBox_port_valueChanged(port) ==
  /\ running
  /\ shown' = [shown EXCEPT !.http_port = port]
  /\ saved' = [saved EXCEPT !.http_port = port]
  /\ used' = [used EXCEPT !.http_port = port]
  /\ UNCHANGED <<running, interval, dirty, wild>>

on_xmpp_spinBox_port_valueChanged(port) ==
  /\ running
  /\ shown' = [shown EXCEPT !.xmpp_port = port]
  /\ saved' = [saved EXCEPT !.xmpp_port = port]
  /\ UNCHANGED <<running, used, interval, dirty, wild>>

on_spinBox_refresh_valueChanged_NotSaved(rate) ==
  /\ running
  /\ shown' = [shown EXCEPT !.refresh = rate]
  /\ interval' = rate
  /\ UNCHANGED <<running, saved, used, dirty, wild>>
on_spinBox_refresh_valueChanged(rate) ==
  /\ running
  /\ shown' = [shown EXCEPT !.refresh = rate]
  /\ saved' = [saved EXCEPT !.refresh = rate]
  /\ interval' = rate
  /\ UNCHANGED <<running, used, dirty, wild>>

Next == \/ Launch
        \/ Exit
        \/ \E f \in Lines, text \in Texts : Type(f, text)
        \/ on_lineEdit_server_editingFinished
        \/ \E f \in {"login", "password"} : on_lineEdit_credentials_editingFinished(f)
        \/ \E port \in Ports : \/ on_http_spinBox_port_valueChanged(port)
                               \/ on_xmpp_spinBox_port_valueChanged(port)
        \/ \E rate \in Rates : on_spinBox_refresh_valueChanged(rate)

Spec == Init /\ [][Next]_vars
-----------------------------------------------------------------------------
(* Properties. *)

(* A push, which may come at any moment, also while the user types, uses   *)
(* what is saved: server, port, and a login and a password that belong     *)
(* together, although each handler takes the other's from its field.       *)
PushUsesSaved == used = [server |-> saved.server, login |-> saved.login,
                         password |-> saved.password, http_port |-> saved.http_port]

(* What is not being typed shows what is saved, once something is.         *)
ScreenShowsSaved ==
  running => /\ \A f \in Lines : f # dirty /\ saved[f] # "" => shown[f] = saved[f]
             /\ saved.http_port # NoPort => shown.http_port = saved.http_port
             /\ saved.xmpp_port # NoPort => shown.xmpp_port = saved.xmpp_port
             /\ shown.refresh = saved.refresh

(* A launch goes on with the server, the credentials, the port and the     *)
(* rate the last process used.                                             *)
SettingsSurvive == [][Launch => UNCHANGED <<used, interval>>]_vars

(* The inductive invariant: a login or password that is not being typed is *)
(* the saved one also when it is empty, and the timer has the saved rate.  *)
CredentialsShown ==
  running => \A f \in {"login", "password"} : f # dirty => shown[f] = saved[f]
IInv == TypeOK /\ PushUsesSaved /\ ScreenShowsSaved /\ CredentialsShown
        /\ interval = RestoredRate

(* "Refresh rate (minutes)" (mainwindow.ui:125) is a setting: a launch     *)
(* that restores it finds the timer it is for.                             *)
NoWildTimer == ~wild
=============================================================================
