------------------------------ MODULE Geekast -------------------------------
(***************************************************************************)
(* The window with both of its parts: the push handlers and the gathering  *)
(* thread (PushLoop, extended here) and the keys, requests and replies     *)
(* (HostIdentity, H).  "settings" are the options in QSettings, "saved"    *)
(* the keys in it.                                                         *)
(*                                                                         *)
(* The parts meet in four places.  The hand-over of a push posts the       *)
(* request and the end of its handler brings the uuid field up to date,    *)
(* two steps here that are one in HostIdentity.  A reply is read where the *)
(* event loop runs, so also inside a handler that waits, and one with new  *)
(* keys replaces the XMPP client.  The server lets a client in that logs   *)
(* in with the two keys of one host.  The user types when no handler is on *)
(* the stack, and Quit or a failing probe ends both parts at once.         *)
(***************************************************************************)
EXTENDS PushLoop

CONSTANTS MaxRequests, MaxHosts, TypedKeys    \* as in HostIdentity

ASSUME KeyAssumption == /\ MaxRequests \in Nat /\ MaxHosts \in Nat
                        /\ TypedKeys \subseteq 0..MaxHosts+1

VARIABLES uuid, field, saved, client, reqs, hosts, origin, history, misread

keyVars == <<uuid, field, saved, client, reqs, hosts, origin, history, misread>>
geekastVars == <<vars, keyVars>>

H == INSTANCE HostIdentity WITH settings <- saved

GeekastInit == Init /\ H!Init
-----------------------------------------------------------------------------
(* A push. *)

(* Every handler on the stack may send a request. *)
Room == Len(reqs) + Len(stack) < MaxRequests

BeginPush == /\ \/ ClickPush /\ Room
                \/ ClickXmpp
                \/ push_data /\ Room
             /\ UNCHANGED keyVars

(* Payload_http: an update with a key, a create without one. *)
HandOverHttp ==
  /\ Payload_http
  /\ reqs' = Append(reqs, H!NewReply)
  /\ history' = IF H!InFlight THEN history \cup {"overlap"} ELSE history
  /\ UNCHANGED <<uuid, field, saved, client, hosts, origin, misread>>

(* Payload_xmpp: a create that reaches the server through a client that is *)
(* logged in makes a host. *)
HandOverXmpp ==
  /\ Payload_xmpp
  /\ hosts' \in IF uuid = H!NoKey /\ link /\ H!LoggedIn /\ hosts < MaxHosts
               THEN {hosts, hosts + 1} ELSE {hosts}
  /\ UNCHANGED <<uuid, field, saved, client, reqs, origin, history, misread>>

(* The end of both handlers. *)
EndPush_SavesField ==
  /\ FinishPush
  /\ H!SyncUuid_SavesField
  /\ UNCHANGED <<uuid, client, reqs, hosts, origin, history, misread>>
EndPush ==
  /\ FinishPush
  /\ H!SyncUuid
  /\ UNCHANGED <<uuid, client, reqs, hosts, origin, history, misread>>

(* The waiting handler and the worker thread. *)
Gather == (EndPump \/ TakeData \/ WorkerStep) /\ UNCHANGED keyVars
-----------------------------------------------------------------------------
(* The server and the network are not held up by the window. *)
Deliver == /\ \E i \in 1..Len(reqs) : H!Serve(i) \/ H!Arrive(i)
           /\ UNCHANGED vars

(* Where slotRequestFinished may be called. *)
Served_Anywhere == TRUE
Served == InEventLoop

(* Whether the end of request i, by a failure or not, makes                *)
(* slotRequestFinished adopt the keys it reads.                            *)
Adopts(i, failed) ==
  LET r == reqs[H!m_reply] IN
  /\ r.life # "deleted" /\ r.body # H!NoKey
  /\ IF i = H!m_reply THEN ~failed ELSE r.phase \in {"whole", "closed"}

ReadReply(i, failed) ==
  /\ Served
  /\ IF failed THEN \E code \in {"freeing", "other"} : H!Fail(i, code)
     ELSE H!Finished(i)
  /\ IF Adopts(i, failed) THEN ReplaceClient ELSE UNCHANGED vars

DeleteReply == /\ Served
               /\ \E i \in 1..Len(reqs) : H!Reap(i)
               /\ UNCHANGED vars

(* Who logs in with the two keys of a host is let in. *)
LinkReport_Anyone(connected) ==
  /\ on_xmpp_connected(connected)
  /\ UNCHANGED keyVars
LinkReport(connected) ==
  /\ connected => H!LoggedIn
  /\ on_xmpp_connected(connected)
  /\ UNCHANGED keyVars
-----------------------------------------------------------------------------
UserTypes == /\ UserInput
             /\ \/ \E key \in TypedKeys : H!Type(key)
                \/ H!on_lineEdit_uuid_editingFinished
             /\ UNCHANGED vars

UserClicks == /\ \/ \E o \in Options : on_checkBox_clicked(o)
                 \/ on_pushButton_send_clicked
              /\ UNCHANGED keyVars

EndAndLaunch == (Quit \/ SigarExit) /\ H!Restart

GeekastNext ==
  \/ BeginPush \/ HandOverHttp \/ HandOverXmpp \/ EndPush \/ Gather
  \/ Deliver \/ DeleteReply
  \/ \E i \in 1..Len(reqs), failed \in BOOLEAN : ReadReply(i, failed)
  \/ \E connected \in BOOLEAN : LinkReport(connected)
  \/ UserTypes \/ UserClicks \/ EndAndLaunch

GeekastSpec == GeekastInit /\ [][GeekastNext]_geekastVars
-----------------------------------------------------------------------------
(* Properties. *)

GeekastTypeOK == TypeOK /\ H!TypeOK

(* Keys, requests and replies do what HostIdentity says, where the request *)
(* and the synchronisation of the field are one step: whatever the other   *)
(* handlers, both threads, the server and the network do between the two,  *)
(* nothing sees or changes the field, the saved key or the identity, and   *)
(* the program does not end.                                               *)
Handing == At("repush")
shownField == IF Handing THEN uuid ELSE field
K == INSTANCE HostIdentity WITH field <- shownField, settings <- saved
KeySpec == K!Spec

(* While a push is handed over it stays the push of the key it was posted  *)
(* for, and its reply is still there to be read.                           *)
HandedOverOnce ==
  Handing /\ Top.kind = "http" =>
    /\ reqs # <<>>
    /\ reqs[Len(reqs)].target = uuid /\ reqs[Len(reqs)].life = "owned"
    /\ reqs[Len(reqs)].phase # "closed"

(* Before the server has a host for this machine the window hears of the   *)
(* client it started with, and is never told to push by XMPP: the first    *)
(* push of a machine is an HTTP create.                                    *)
FirstPushIsHttp == hosts = 0 => wired /\ method = "http"

(* The parts of the inductive invariant: that of each half, that no key    *)
(* is on its way before there is a host, and, for the bound, that every    *)
(* handler on the stack has room for its request.                          *)
NoKeyYet == hosts = 0 => \A i \in 1..Len(reqs) : reqs[i].body = H!NoKey

RoomLeft == \A i \in 1..Len(stack) :
              stack[i].kind = "http" /\ stack[i].pc # "repush"
                => Len(reqs) + i <= MaxRequests

GeekastIInv == /\ IInv /\ K!IInv /\ field \in H!Keys
               /\ HandedOverOnce /\ FirstPushIsHttp /\ NoKeyYet /\ RoomLeft
=============================================================================
