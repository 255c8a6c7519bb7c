--------------------------- MODULE SessionProofs ---------------------------
(***************************************************************************)
(* Proofs about Session for every set of texts, ports and rates: the       *)
(* inductive invariant, that a push uses what is saved, that the window    *)
(* shows it, and that a launch goes on with what was used before.          *)
(***************************************************************************)
EXTENDS Session, TLAPS

(* The rate the constructor gives the timer is one of the type, and is     *)
(* restored as itself at the next launch.                                  *)
LEMMA RateRestored ==
  ASSUME TypeOK
  PROVE  /\ RestoredRate \in Rates \cup {MinRate}
         /\ RestoredRate >= MinRate
         /\ saved.refresh >= MinRate => RestoredRate = saved.refresh
<1>1. saved.refresh \in Rates \cup {0, 5}
  BY DEF TypeOK, MinRate
<1>2. saved.refresh \in Rates \cup {5} \/ saved.refresh = 0
  BY <1>1
<1>3. \A r \in Rates : r \in Nat /\ r >= 5
  BY NumberAssumption
<1> QED BY <1>2, <1>3 DEF RestoredRate, MinRate

LEMMA FieldsType ==
  ASSUME NEW a \in Texts, NEW b \in Texts, NEW c \in Texts,
         NEW p \in Ports, NEW q \in Ports, NEW r \in Rates \cup {MinRate}
  PROVE  [server |-> a, login |-> b, password |-> c,
          http_port |-> p, xmpp_port |-> q, refresh |-> r]
           \in [server : Texts, login : Texts, password : Texts,
                http_port : Ports, xmpp_port : Ports, refresh : Rates \cup {MinRate}]
  OBVIOUS

LEMMA InitInv == Init => IInv
<1> SUFFICES ASSUME Init PROVE IInv
  OBVIOUS
<1>1. TypeOK
  <2>1. saved \in [server : Texts, login : Texts, password : Texts,
                   http_port : Ports \cup {NoPort}, xmpp_port : Ports \cup {NoPort},
                   refresh : Rates \cup {0, MinRate}]
    BY TextAssumption DEF Init
  <2>2. shown \in [server : Texts, login : Texts, password : Texts,
                   http_port : Ports, xmpp_port : Ports, refresh : Rates \cup {MinRate}]
    <3>1. HttpPort \in Ports /\ XmppPort \in Ports
      BY NumberAssumption
    <3>2. "" \in Texts /\ DefaultServer \in Texts
      BY TextAssumption
    <3>3. [server |-> DefaultServer, login |-> "", password |-> "",
           http_port |-> HttpPort, xmpp_port |-> XmppPort, refresh |-> MinRate]
             \in [server : Texts, login : Texts, password : Texts,
                  http_port : Ports, xmpp_port : Ports, refresh : Rates \cup {MinRate}]
      BY <3>1, <3>2, FieldsType, Zenon
    <3> QED BY <3>3, Zenon DEF Init
  <2>3. used \in [server : Texts, login : Texts, password : Texts,
                  http_port : Ports \cup {NoPort}]
    BY TextAssumption DEF Init
  <2> QED BY <2>1, <2>2, <2>3 DEF Init, TypeOK
<1>2. PushUsesSaved
  BY DEF Init, PushUsesSaved
<1>3. ScreenShowsSaved /\ CredentialsShown
  BY DEF Init, ScreenShowsSaved, CredentialsShown
<1>4. interval = RestoredRate
  <2>1. saved.refresh = 0 /\ interval = MinRate
    BY DEF Init
  <2> QED BY <2>1 DEF RestoredRate, MinRate
<1> QED BY <1>1, <1>2, <1>3, <1>4 DEF IInv

(* The constructor establishes the agreement of all places. *)
LEMMA LaunchInv == IInv /\ Launch => IInv'
<1> SUFFICES ASSUME IInv, Launch PROVE IInv'
  OBVIOUS
<1>1. RestoredRate \in Rates \cup {MinRate} /\ RestoredRate >= MinRate
  BY RateRestored DEF IInv
<1> DEFINE server == Or(saved.server, "", DefaultServer)
           http == Or(saved.http_port, NoPort, HttpPort)
           xmpp == Or(saved.xmpp_port, NoPort, XmppPort)
<1>2. shown' = [server |-> server, login |-> saved.login,
                password |-> saved.password, http_port |-> http,
                xmpp_port |-> xmpp, refresh |-> RestoredRate]
  BY Zenon DEF Launch
<1> HIDE DEF server, http, xmpp
<1>3. TypeOK'
  <2>1. saved' \in [server : Texts, login : Texts, password : Texts,
                    http_port : Ports \cup {NoPort}, xmpp_port : Ports \cup {NoPort},
                    refresh : Rates \cup {0, MinRate}]
    BY <1>1 DEF IInv, TypeOK, Launch
  <2>2. shown' \in [server : Texts, login : Texts, password : Texts,
                    http_port : Ports, xmpp_port : Ports,
                    refresh : Rates \cup {MinRate}]
    <3>1. server \in Texts
      BY TextAssumption DEF IInv, TypeOK, server, Or
    <3>2. http \in Ports /\ xmpp \in Ports
      BY NumberAssumption DEF IInv, TypeOK, http, xmpp, Or
    <3>3. saved.login \in Texts /\ saved.password \in Texts
      BY DEF IInv, TypeOK
    <3> QED BY <1>1, <1>2, <3>1, <3>2, <3>3, FieldsType
  <2>3. used' \in [server : Texts, login : Texts, password : Texts,
                   http_port : Ports \cup {NoPort}]
    BY DEF IInv, TypeOK, Launch
  <2>4. running' \in BOOLEAN /\ wild' \in BOOLEAN
        /\ interval' \in Rates \cup {MinRate} /\ dirty' \in Lines \cup {"none"}
    BY <1>1 DEF IInv, TypeOK, Launch
  <2> QED BY <2>1, <2>2, <2>3, <2>4 DEF TypeOK
<1>4. PushUsesSaved'
  BY DEF IInv, TypeOK, Launch, PushUsesSaved
<1>5. ScreenShowsSaved' /\ CredentialsShown'
  <2>1. /\ saved'.server = saved.server /\ saved'.login = saved.login
        /\ saved'.password = saved.password
        /\ saved'.http_port = saved.http_port /\ saved'.xmpp_port = saved.xmpp_port
        /\ saved'.refresh = RestoredRate
    BY DEF IInv, TypeOK, Launch
  <2>2. /\ saved.server # "" => server = saved.server
        /\ saved.http_port # NoPort => http = saved.http_port
        /\ saved.xmpp_port # NoPort => xmpp = saved.xmpp_port
    <3>1. saved.server # "" => server = saved.server
      BY Zenon DEF server, Or
    <3>2. saved.http_port # NoPort => http = saved.http_port
      BY Zenon DEF http, Or
    <3>3. saved.xmpp_port # NoPort => xmpp = saved.xmpp_port
      BY Zenon DEF xmpp, Or
    <3> QED BY <3>1, <3>2, <3>3
  <2>3. /\ saved.server # "" => shown'.server = saved.server
        /\ shown'.login = saved.login /\ shown'.password = saved.password
        /\ saved.http_port # NoPort => shown'.http_port = saved.http_port
        /\ saved.xmpp_port # NoPort => shown'.xmpp_port = saved.xmpp_port
        /\ shown'.refresh = RestoredRate
    BY <1>2, <2>2
  <2>4. \A f \in {"login", "password"} : shown'[f] = saved'[f]
    <3>1. shown'["login"] = saved'["login"]
      BY <2>1, <2>3
    <3>2. shown'["password"] = saved'["password"]
      BY <2>1, <2>3
    <3> QED BY <3>1, <3>2
  <2>5. \A f \in Lines : saved'[f] # "" => shown'[f] = saved'[f]
    <3>1. saved'["server"] # "" => shown'["server"] = saved'["server"]
      BY <2>1, <2>3
    <3> QED BY <2>4, <3>1 DEF Lines
  <2>6. /\ saved'.http_port # NoPort => shown'.http_port = saved'.http_port
        /\ saved'.xmpp_port # NoPort => shown'.xmpp_port = saved'.xmpp_port
        /\ shown'.refresh = saved'.refresh
    BY <2>1, <2>3
  <2>7. ScreenShowsSaved'
    BY <2>5, <2>6, Zenon DEF ScreenShowsSaved
  <2>8. CredentialsShown'
    BY <2>4, Zenon DEF CredentialsShown
  <2> QED BY <2>7, <2>8
<1>6. (interval = RestoredRate)'
  <2>1. saved'.refresh = RestoredRate /\ interval' = RestoredRate
    BY DEF IInv, TypeOK, Launch
  <2> QED BY <1>1, <2>1, NumberAssumption DEF RestoredRate, MinRate
<1> QED BY <1>3, <1>4, <1>5, <1>6 DEF IInv

LEMMA ExitInv == IInv /\ Exit => IInv'
  BY DEF IInv, Exit, TypeOK, PushUsesSaved, ScreenShowsSaved, CredentialsShown,
         RestoredRate

(* Typing touches one field, which then is the one not committed. *)
LEMMA TypeInv ==
  ASSUME IInv, NEW f \in Lines, NEW text \in Texts, Type(f, text)
  PROVE  IInv'
<1>1. TypeOK'
  BY DEF IInv, TypeOK, Type, Lines
<1>2. ScreenShowsSaved' /\ CredentialsShown'
  BY DEF IInv, TypeOK, Type, ScreenShowsSaved, CredentialsShown, Lines
<1>3. PushUsesSaved' /\ (interval = RestoredRate)'
  BY DEF IInv, Type, PushUsesSaved, RestoredRate
<1> QED BY <1>1, <1>2, <1>3 DEF IInv

LEMMA ServerInv == IInv /\ on_lineEdit_server_editingFinished => IInv'
<1> SUFFICES ASSUME IInv, on_lineEdit_server_editingFinished PROVE IInv'
  OBVIOUS
<1> USE DEF IInv, TypeOK, on_lineEdit_server_editingFinished, Lines
<1>1. TypeOK'
  OBVIOUS
<1>2. PushUsesSaved'
  BY DEF PushUsesSaved
<1>3. ScreenShowsSaved' /\ CredentialsShown'
  BY DEF ScreenShowsSaved, CredentialsShown
<1>4. (interval = RestoredRate)'
  BY DEF RestoredRate
<1> QED BY <1>1, <1>2, <1>3, <1>4

(* Each credential handler takes the other credential from its field,      *)
(* which CredentialsShown makes the saved one.                             *)
LEMMA CredentialsInv ==
  ASSUME IInv, NEW f \in {"login", "password"},
         on_lineEdit_credentials_editingFinished(f)
  PROVE  IInv'
<1> USE DEF IInv, TypeOK, on_lineEdit_credentials_editingFinished, Lines
<1>1. TypeOK'
  OBVIOUS
<1>2. PushUsesSaved'
  BY DEF PushUsesSaved, CredentialsShown
<1>3. ScreenShowsSaved' /\ CredentialsShown'
  BY DEF ScreenShowsSaved, CredentialsShown
<1>4. (interval = RestoredRate)'
  BY DEF RestoredRate
<1> QED BY <1>1, <1>2, <1>3, <1>4

LEMMA HttpPortInv ==
  ASSUME IInv, NEW port \in Ports, on_http_spinBox_port_valueChanged(port)
  PROVE  IInv'
<1> USE DEF IInv, TypeOK, on_http_spinBox_port_valueChanged, Lines
<1>1. TypeOK' /\ PushUsesSaved'
  BY DEF PushUsesSaved
<1>2. ScreenShowsSaved' /\ CredentialsShown'
  BY DEF ScreenShowsSaved, CredentialsShown
<1>3. (interval = RestoredRate)'
  BY DEF RestoredRate
<1> QED BY <1>1, <1>2, <1>3

LEMMA XmppPortInv ==
  ASSUME IInv, NEW port \in Ports, on_xmpp_spinBox_port_valueChanged(port)
  PROVE  IInv'
<1> USE DEF IInv, TypeOK, on_xmpp_spinBox_port_valueChanged, Lines
<1>1. TypeOK' /\ PushUsesSaved'
  BY DEF PushUsesSaved
<1>2. ScreenShowsSaved' /\ CredentialsShown'
  BY DEF ScreenShowsSaved, CredentialsShown
<1>3. (interval = RestoredRate)'
  BY DEF RestoredRate
<1> QED BY <1>1, <1>2, <1>3

LEMMA RefreshInv ==
  ASSUME IInv, NEW rate \in Rates, on_spinBox_refresh_valueChanged(rate)
  PROVE  IInv'
<1> USE DEF IInv, TypeOK, on_spinBox_refresh_valueChanged, Lines
<1>1. TypeOK' /\ PushUsesSaved'
  BY DEF PushUsesSaved
<1>2. ScreenShowsSaved' /\ CredentialsShown'
  BY DEF ScreenShowsSaved, CredentialsShown
<1>3. (interval = RestoredRate)'
  BY NumberAssumption DEF RestoredRate, MinRate
<1> QED BY <1>1, <1>2, <1>3

LEMMA StepInv == IInv /\ [Next]_vars => IInv'
<1> SUFFICES ASSUME IInv, [Next]_vars PROVE IInv'
  OBVIOUS
<1>1. CASE UNCHANGED vars
  BY <1>1 DEF vars, IInv, TypeOK, PushUsesSaved, ScreenShowsSaved,
              CredentialsShown, RestoredRate
<1>2. CASE Next
  BY <1>2, LaunchInv, ExitInv, TypeInv, ServerInv, CredentialsInv,
     HttpPortInv, XmppPortInv, RefreshInv DEF Next
<1> QED BY <1>1, <1>2
-----------------------------------------------------------------------------
(* The inductive invariant: all places of a setting agree, up to the one   *)
(* field the user types into.                                              *)
THEOREM Invariance == Spec => []IInv
  BY InitInv, StepInv, PTL DEF Spec

(* What is saved, shown and used keeps its type. *)
THEOREM TypeCorrect == Spec => []TypeOK
<1>1. IInv => TypeOK
  BY DEF IInv
<1> QED BY <1>1, Invariance, PTL

(* A push uses the server, the port and the credentials that are saved. *)
THEOREM PushUsesSettings == Spec => []PushUsesSaved
<1>1. IInv => PushUsesSaved
  BY DEF IInv
<1> QED BY <1>1, Invariance, PTL

(* The fields of the window show what is saved. *)
THEOREM ScreenAgrees == Spec => []ScreenShowsSaved
<1>1. IInv => ScreenShowsSaved
  BY DEF IInv
<1> QED BY <1>1, Invariance, PTL

(* A launch goes on with what the last process used. *)
THEOREM SettingsRestored == Spec => SettingsSurvive
<1>1. IInv /\ [Next]_vars => [Launch => UNCHANGED <<used, interval>>]_vars
  <2> SUFFICES ASSUME IInv, Launch PROVE used' = used /\ interval' = interval
    OBVIOUS
  <2>1. used' = used
    BY DEF IInv, PushUsesSaved, Launch
  <2>2. interval' = interval
    BY DEF IInv, Launch
  <2> QED BY <2>1, <2>2
<1> QED BY <1>1, Invariance, PTL DEF Spec, SettingsSurvive
=============================================================================
