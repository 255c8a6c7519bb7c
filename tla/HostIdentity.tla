---------------------------- MODULE HostIdentity ----------------------------
(***************************************************************************)
(* How a machine gets and keeps its identity on the nodecast server: the   *)
(* HTTP requests of Push, their replies, the private and the public key a  *)
(* create answers, and the four places they are copied to (Push, the uuid  *)
(* field, QSettings, the XMPP client).                                     *)
(*                                                                         *)
(* A push sends one request and does not wait for the reply; nothing keeps *)
(* the next push from being sent before it.  Every reply, and every error, *)
(* ends in slotRequestFinished, which reads m_reply, the LAST request sent,*)
(* whichever one has finished.                                             *)
(*                                                                         *)
(* The server and QNetworkAccessManager are external: a create makes a     *)
(* host and answers its two keys, an update answers at most the keys of    *)
(* its host, a body may arrive in two pieces, a request may fail at any    *)
(* moment, and an object given to deleteLater() is deleted some time later *)
(* in the event loop.  A key is the number of the host it belongs to.      *)
(***************************************************************************)
EXTENDS Integers, Sequences, FiniteSets

CONSTANTS MaxRequests,   \* bound: requests one process sends
          MaxHosts,      \* bound: hosts the server makes, it refuses more
          TypedKeys      \* bound: keys the user may type

ASSUME BoundAssumption == MaxRequests \in Nat /\ MaxHosts \in Nat
ASSUME TypedAssumption == TypedKeys \subseteq 0..MaxHosts+1

NoKey == 0                  \* the empty string
Foreign == MaxHosts + 1     \* a key of another machine, known to its user
Keys == 0..MaxHosts+1

VARIABLES
  uuid,       \* m_push->m_uuid
  field,      \* the text of lineEdit_uuid
  settings,   \* "uuid" and "pub_uuid" in QSettings
  client,     \* user part of m_jid, and m_password, of the XMPP client
  reqs,       \* the replies of this process, in the order of their requests
  hosts,      \* how many hosts the server has made for this machine
  origin,     \* who set the identity last
  history,    \* what happened that may cost an identity
  misread     \* slotRequestFinished has read a deleted reply

vars == <<uuid, field, settings, client, reqs, hosts, origin, history, misread>>

(* A request with a target updates that host, one without creates a host.  *)
(* "body" is the key in the part of the answer still to be read: none when *)
(* the answer has no key, was read, or can no longer be read whole.        *)
Replies == [target : Keys, body : Keys,
            phase : {"sent", "answered", "partial", "whole", "closed"},
            life : {"owned", "doomed", "deleted"}]

TypeOK == /\ uuid \in Keys /\ field \in Keys
          /\ settings \in [uuid : Keys, pub : Keys]
          /\ client \in [jid : Keys, password : Keys]
          /\ reqs \in Seq(Replies) /\ Len(reqs) <= MaxRequests
          /\ hosts \in 0..MaxHosts
          /\ origin \in {"nobody", "server", "user"}
          /\ history \subseteq {"overlap", "loss", "edit"}
          /\ misread \in BOOLEAN

(* The reply Push points to is always the last one it was given. *)
m_reply == Len(reqs)

InFlight == \E i \in 1..Len(reqs) : reqs[i].phase # "closed"

Init == /\ uuid = NoKey /\ field = NoKey
        /\ settings = [uuid |-> NoKey, pub |-> NoKey]
        /\ client = [jid |-> NoKey, password |-> NoKey]
        /\ reqs = <<>>
        /\ hosts = 0
        /\ origin = "nobody" /\ history = {} /\ misread = FALSE
-----------------------------------------------------------------------------
(* The end of a push handler: the field and the settings follow Push. *)
SyncUuid_SavesField ==
  /\ field' = uuid
  /\ settings' = IF uuid # field THEN [settings EXCEPT !.uuid = field] ELSE settings
SyncUuid ==
  /\ field' = uuid
  /\ settings' = IF uuid # field THEN [settings EXCEPT !.uuid = uuid] ELSE settings

NewReply_Inverted == [target |-> IF uuid = NoKey THEN field ELSE NoKey,
                      body |-> NoKey, phase |-> "sent", life |-> "owned"]
NewReply == [target |-> uuid,
             body |-> NoKey, phase |-> "sent", life |-> "owned"]

(* Payload_http and the rest of on_pushButton_push_clicked.  The payload   *)
(* mutex is free when Payload_http returns, so nothing comes in between.   *)
PushHttp ==
  /\ Len(reqs) < MaxRequests
  /\ reqs' = Append(reqs, NewReply)
  /\ SyncUuid
  /\ history' = IF InFlight THEN history \cup {"overlap"} ELSE history
  /\ UNCHANGED <<uuid, client, hosts, origin, misread>>

(* Payload_xmpp and the rest of on_pushButton_xmpp_clicked.  A client that *)
(* could log in sends a create when there is no key any more: the server   *)
(* makes a host and the client does not read its keys (messageReceived     *)
(* has that part commented out).  Any other message changes nothing here.  *)
LoggedIn == client.jid \in 1..hosts /\ client.password = client.jid

PushXmpp ==
  /\ SyncUuid
  /\ hosts' \in IF uuid = NoKey /\ LoggedIn /\ hosts < MaxHosts
               THEN {hosts, hosts + 1} ELSE {hosts}
  /\ UNCHANGED <<uuid, client, reqs, origin, history, misread>>
-----------------------------------------------------------------------------
(* The server and the network. *)

Serve(i) ==
  /\ reqs[i].phase = "sent"
  /\ \/ /\ reqs[i].target = NoKey /\ hosts < MaxHosts
        /\ hosts' = hosts + 1
        /\ reqs' = [reqs EXCEPT ![i].phase = "answered", ![i].body = hosts + 1]
     \/ /\ reqs[i].target \in 1..hosts
        /\ reqs' = [reqs EXCEPT ![i].phase = "answered", ![i].body = reqs[i].target]
        /\ UNCHANGED hosts
     \/ /\ reqs' = [reqs EXCEPT ![i].phase = "answered"]
        /\ UNCHANGED hosts
  /\ UNCHANGED <<uuid, field, settings, client, origin, history, misread>>

Arrive(i) ==
  /\ \/ /\ reqs[i].phase = "answered"
        /\ \E p \in {"partial", "whole"} : reqs' = [reqs EXCEPT ![i].phase = p]
     \/ /\ reqs[i].phase = "partial"
        /\ reqs' = [reqs EXCEPT ![i].phase = "whole"]
  /\ UNCHANGED <<uuid, field, settings, client, hosts, origin,
                 history, misread>>
-----------------------------------------------------------------------------
(* slotRequestFinished. *)

(* The new identity, and where it goes: a new client logs in with it, the  *)
(* window's slots show it and save it.                                     *)
Adopt_PubForgotten(key) ==
  /\ uuid' = key
  /\ client' = [jid |-> key, password |-> key]
  /\ field' = key
  /\ settings' = [settings EXCEPT !.uuid = key]
  /\ origin' = "server"
Adopt(key) ==
  /\ uuid' = key
  /\ client' = [jid |-> key, password |-> key]
  /\ field' = key
  /\ settings' = [uuid |-> key, pub |-> key]
  /\ origin' = "server"

(* rs is reqs after what ended the request.  readAll() takes what has      *)
(* arrived of m_reply's body; only a whole body parses to two keys.  The   *)
(* read of a deleted reply is undefined: here it finds nothing, or the     *)
(* program ends, which Restart allows at any time.                         *)
slotRequestFinished(rs) ==
  LET r == rs[m_reply]
  IN  IF r.life = "deleted"
      THEN /\ misread' = TRUE
           /\ reqs' = rs
           /\ UNCHANGED <<uuid, field, settings, client, origin>>
      ELSE /\ reqs' = IF r.phase \in {"partial", "whole", "closed"}
                      THEN [rs EXCEPT ![m_reply].body = NoKey] ELSE rs
           /\ IF r.phase \in {"whole", "closed"} /\ r.body # NoKey
              THEN Adopt(r.body)
              ELSE UNCHANGED <<uuid, field, settings, client, origin>>
           /\ UNCHANGED misread

Finished(i) ==
  /\ reqs[i].phase = "whole"
  /\ slotRequestFinished([reqs EXCEPT ![i].phase = "closed"])
  /\ UNCHANGED <<hosts, history>>

(* error() and then finished(): replyError gives the reply to deleteLater  *)
(* for a timeout, an unknown host and a refused connection only.           *)
Fail_DeleteNow(i, code) ==
  /\ reqs[i].phase \in {"sent", "answered", "partial"}
  /\ history' = history \cup {"loss"}
  /\ slotRequestFinished([reqs EXCEPT
       ![i].phase = "closed", ![i].body = NoKey,
       ![i].life = IF code = "other" THEN @ ELSE "deleted"])
  /\ UNCHANGED hosts
Fail(i, code) ==
  /\ reqs[i].phase \in {"sent", "answered", "partial"}
  /\ history' = history \cup {"loss"}
  /\ slotRequestFinished([reqs EXCEPT
       ![i].phase = "closed", ![i].body = NoKey,
       ![i].life = IF code = "other" THEN @ ELSE "doomed"])
  /\ UNCHANGED hosts

(* The deferred deletion. *)
Reap(i) ==
  /\ reqs[i].life = "doomed"
  /\ reqs' = [reqs EXCEPT ![i].life = "deleted"]
  /\ UNCHANGED <<uuid, field, settings, client, hosts, origin,
                 history, misread>>
-----------------------------------------------------------------------------
(* The user types into the uuid field, and leaves it (editingFinished). *)
Type(key) ==
  /\ field' = key
  /\ UNCHANGED <<uuid, settings, client, reqs, hosts, origin,
                 history, misread>>

on_lineEdit_uuid_editingFinished ==
  /\ settings' = [settings EXCEPT !.uuid = field]
  /\ uuid' = field
  /\ IF field # uuid
     THEN origin' = "user" /\ history' = history \cup {"edit"}
     ELSE UNCHANGED <<origin, history>>
  /\ UNCHANGED <<field, client, reqs, hosts, misread>>

(* The program ends, for whatever reason, and is launched again.  Requests *)
(* on their way are lost to it; the server may still serve them.           *)
Restart ==
  /\ reqs' = <<>>
  /\ uuid' = settings.uuid /\ field' = settings.uuid
  /\ client' = [jid |-> settings.pub, password |-> settings.uuid]
  /\ history' = IF InFlight THEN history \cup {"loss"} ELSE history
  /\ LET unserved == {i \in 1..Len(reqs) : reqs[i].phase = "sent" /\ reqs[i].target = NoKey}
     IN  hosts' \in {h \in hosts..MaxHosts : h - hosts <= Cardinality(unserved)}
  /\ UNCHANGED <<settings, origin, misread>>

Next == \/ PushHttp
        \/ PushXmpp
        \/ \E i \in 1..Len(reqs) :
             \/ Serve(i)
             \/ Arrive(i)
             \/ Finished(i)
             \/ \E code \in {"freeing", "other"} : Fail(i, code)
             \/ Reap(i)
        \/ \E key \in TypedKeys : Type(key)
        \/ on_lineEdit_uuid_editingFinished
        \/ Restart

Spec == Init /\ [][Next]_vars
-----------------------------------------------------------------------------
(* Properties. *)

(* What a launch would read back is what this process uses: the private    *)
(* key in QSettings is Push's, whoever changed it last and however the     *)
(* uncommitted text of the field was overwritten.                          *)
IdentityPersisted == settings.uuid = uuid

(* A key the server gave stays in one piece: Push, QSettings and the XMPP  *)
(* client hold the two keys of one and the same reply.                     *)
ServerKeysAgree == origin = "server" => /\ settings.pub = uuid
                                        /\ client = [jid |-> uuid, password |-> uuid]

(* The machine is one host on the server, and knows its key once nothing   *)
(* is in flight, as long as no two requests overlapped, no request or      *)
(* reply was lost and the user did not change the key.                     *)
SingleHost == history = {} => /\ hosts <= 1
                              /\ hosts = 1 /\ ~InFlight => uuid = 1

(* Under the same conditions an identity, once adopted, never changes.     *)
IdentitySticks == [][history' = {} /\ uuid # NoKey => uuid' = uuid]_vars

(* slotRequestFinished reads a deleted reply only if two requests          *)
(* overlapped: the deferred deletion of a failed reply comes after its own *)
(* finished().                                                             *)
NoUseAfterFree == misread => "overlap" \in history

(* The parts of the inductive invariant: while no two requests overlapped  *)
(* only the last one is open, and an open one is not given up to be        *)
(* deleted; a process that lost nothing either knows its host's key or has *)
(* it in the one open answer.                                              *)
OneOpen == "overlap" \notin history =>
             /\ ~misread
             /\ \A i \in 1..Len(reqs) :
                  /\ i < Len(reqs) => reqs[i].phase = "closed"
                  /\ reqs[i].phase # "closed" => reqs[i].life = "owned"

OpenAnswer == Len(reqs) > 0 /\ reqs[Len(reqs)].phase # "closed"

KeyKnown ==
  history = {} =>
    /\ hosts \in {0, 1} /\ uuid \in {0, hosts}
    /\ \A i \in 1..Len(reqs) : /\ reqs[i].phase \in {"sent", "closed"} => reqs[i].body = NoKey
                               /\ reqs[i].body \in {NoKey, hosts}
    /\ OpenAnswer => reqs[Len(reqs)].target = uuid
    /\ hosts = 1 /\ uuid # 1 => OpenAnswer /\ reqs[Len(reqs)].body = 1

PasswordKnown == "edit" \notin history => client.password = uuid

IInv == /\ TypeOK /\ IdentityPersisted /\ ServerKeysAgree
        /\ OneOpen /\ KeyKnown /\ PasswordKnown

(* README:17, "nodecast generate this key when geekast push datas for the  *)
(* first time": a machine whose user never changes the key, and that loses *)
(* no request and no reply, has one key.                                   *)
OneKeyPerMachine == history \subseteq {"overlap"} => hosts <= 1
=============================================================================
