----------------------------- MODULE MCSession -----------------------------
(***************************************************************************)
(* Session for TLC.  Three texts are enough to tell an empty field, the    *)
(* server of mainwindow.ui and another one apart; two values of each       *)
(* number tell a changed one from the first one.                           *)
(***************************************************************************)
EXTENDS Session

SomeTexts == {"", "api.nodecast.net", "localhost"}
SomePorts == {80, 5222}
=============================================================================
