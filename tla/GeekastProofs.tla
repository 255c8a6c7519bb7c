--------------------------- MODULE GeekastProofs ---------------------------
(***************************************************************************)
(* Proofs about Geekast for every bound: a step of the whole window is a   *)
(* step of PushLoop or leaves its variables alone, and is a step of        *)
(* HostIdentity (with the field as K shows it) or leaves it alone.  So     *)
(* both inductive invariants carry over, and with them what they imply.    *)
(***************************************************************************)
EXTENDS Geekast, PushLoopProofs

(* HostIdentity's theorems, for the keys of this window. *)
KP == INSTANCE HostIdentityProofs WITH field <- shownField, settings <- saved

(* KP and K are two names of one module. *)
LEMMA SameState == /\ K!vars = KP!vars
                   /\ K!Init <=> KP!Init
                   /\ K!IInv <=> KP!IInv
<1>1. K!NoKey = KP!NoKey /\ K!Keys = KP!Keys
  BY DEF K!NoKey, KP!NoKey, K!Keys, KP!Keys
<1>2. K!TypeOK <=> KP!TypeOK
  BY <1>1 DEF K!TypeOK, KP!TypeOK, K!Replies, KP!Replies
<1>3. K!IdentityPersisted <=> KP!IdentityPersisted
  BY DEF K!IdentityPersisted, KP!IdentityPersisted
<1>4. K!ServerKeysAgree <=> KP!ServerKeysAgree
  BY DEF K!ServerKeysAgree, KP!ServerKeysAgree
<1>5. K!OneOpen <=> KP!OneOpen
  BY DEF K!OneOpen, KP!OneOpen
<1>6. K!KeyKnown <=> KP!KeyKnown
  BY <1>1 DEF K!KeyKnown, KP!KeyKnown, K!OpenAnswer, KP!OpenAnswer
<1>7. K!PasswordKnown <=> KP!PasswordKnown
  BY DEF K!PasswordKnown, KP!PasswordKnown
<1> QED
  BY <1>1, <1>2, <1>3, <1>4, <1>5, <1>6, <1>7
     DEF K!vars, KP!vars, K!Init, KP!Init, K!IInv, KP!IInv

LEMMA SameNext == K!Next <=> KP!Next
<1>1. /\ K!NoKey = KP!NoKey /\ K!m_reply = KP!m_reply
      /\ K!InFlight <=> KP!InFlight
      /\ K!LoggedIn <=> KP!LoggedIn
      /\ K!SyncUuid <=> KP!SyncUuid
  BY DEF K!NoKey, KP!NoKey, K!m_reply, KP!m_reply, K!InFlight, KP!InFlight,
         K!LoggedIn, KP!LoggedIn, K!SyncUuid, KP!SyncUuid
<1>2. K!PushHttp <=> KP!PushHttp
  BY <1>1 DEF K!PushHttp, KP!PushHttp, K!NewReply, KP!NewReply
<1>3. K!PushXmpp <=> KP!PushXmpp
  BY <1>1 DEF K!PushXmpp, KP!PushXmpp
<1>4. \A i \in 1..Len(reqs) : (K!Serve(i) <=> KP!Serve(i)) /\ (K!Arrive(i) <=> KP!Arrive(i))
                              /\ (K!Reap(i) <=> KP!Reap(i))
  BY <1>1 DEF K!Serve, KP!Serve, K!Arrive, KP!Arrive, K!Reap, KP!Reap
<1>5. ASSUME NEW rs PROVE K!slotRequestFinished(rs) <=> KP!slotRequestFinished(rs)
  BY <1>1 DEF K!slotRequestFinished, KP!slotRequestFinished, K!Adopt, KP!Adopt
<1>6. \A i \in 1..Len(reqs) : K!Finished(i) <=> KP!Finished(i)
  BY <1>5 DEF K!Finished, KP!Finished
<1>7. \A i \in 1..Len(reqs) : \A code \in {"freeing", "other"} : K!Fail(i, code) <=> KP!Fail(i, code)
  BY <1>1, <1>5 DEF K!Fail, KP!Fail
<1>8. \A key \in TypedKeys : K!Type(key) <=> KP!Type(key)
  BY DEF K!Type, KP!Type
<1>9. K!on_lineEdit_uuid_editingFinished <=> KP!on_lineEdit_uuid_editingFinished
  BY DEF K!on_lineEdit_uuid_editingFinished, KP!on_lineEdit_uuid_editingFinished
<1>10. K!Restart <=> KP!Restart
  BY <1>1 DEF K!Restart, KP!Restart, K!Cardinality, KP!Cardinality
<1> QED
  BY <1>2, <1>3, <1>4, <1>6, <1>7, <1>8, <1>9, <1>10 DEF K!Next, KP!Next

(* What HostIdentityProofs shows of a step holds of a step of K. *)
LEMMA KeysIInv == /\ K!Init => K!IInv
                  /\ K!IInv /\ [K!Next]_(K!vars) => K!IInv'
<1>1. KP!Init => KP!IInv
  BY KeyAssumption, KP!InitIInv
<1>2. KP!IInv /\ [KP!Next]_(KP!vars) => KP!IInv'
  BY KeyAssumption, KP!NextIInv
<1>3. K!IInv' <=> KP!IInv'
  BY SameState, PTL
<1>4. UNCHANGED K!vars <=> UNCHANGED KP!vars
  BY DEF K!vars, KP!vars
<1> QED
  BY <1>1, <1>2, <1>3, <1>4, SameState, SameNext
-----------------------------------------------------------------------------
(* A step of the window is a step of its push part, or leaves that alone. *)
LEMMA PushStep == [GeekastNext]_geekastVars => [Next]_vars
<1> SUFFICES ASSUME [GeekastNext]_geekastVars PROVE [Next]_vars
  OBVIOUS
<1> USE DEF Next, Event, GuiStep
<1>1. CASE BeginPush
  BY <1>1 DEF BeginPush
<1>2. CASE HandOverHttp \/ HandOverXmpp \/ EndPush \/ Gather
  BY <1>2 DEF HandOverHttp, HandOverXmpp, EndPush, Gather
<1>3. CASE Deliver \/ DeleteReply
  BY <1>3 DEF Deliver, DeleteReply
<1>4. ASSUME NEW i \in 1..Len(reqs), NEW failed \in BOOLEAN, ReadReply(i, failed)
      PROVE  ReplaceClient \/ UNCHANGED vars
  BY <1>4 DEF ReadReply
<1>5. ASSUME NEW connected \in BOOLEAN, LinkReport(connected)
      PROVE  on_xmpp_connected(connected)
  BY <1>5 DEF LinkReport
<1>6. CASE UserTypes \/ UserClicks
  BY <1>6 DEF UserTypes, UserClicks
<1>7. CASE EndAndLaunch
  BY <1>7 DEF EndAndLaunch
<1>8. CASE UNCHANGED geekastVars
  BY <1>8 DEF geekastVars
<1> QED
  BY <1>1, <1>2, <1>3, <1>4, <1>5, <1>6, <1>7, <1>8 DEF GeekastNext

(* A push that is handed over is not in the event loop, and nothing is     *)
(* being gathered.                                                         *)
LEMMA HandingFacts ==
  IInv /\ Handing => /\ stack # <<>> /\ ~InEventLoop /\ ~UserInput
                     /\ worker # "populating"
  BY DEF IInv, TokenInv, Handing, At, InEventLoop, UserInput

(* What a handler leaves behind is not handed over. *)
LEMMA NotHanding ==
  ASSUME IInv, IInv',
         BeginPush \/ EndPush \/ EndAndLaunch
           \/ EndPump \/ TakeData
  PROVE  ~Handing'
<1> USE DEF IInv
<1>1. stack \in Seq(Frames)
  BY DEF TypeOK
<1>2. CASE BeginPush
  <2>1. PICK f \in Frames : f.pc # "repush" /\ stack' = Append(stack, f)
    BY <1>2 DEF BeginPush, ClickPush, ClickXmpp, push_data, Frame, Frames,
                on_pushButton_push_clicked, on_pushButton_xmpp_clicked
  <2> QED
    BY <1>1, <2>1, PushFrame DEF Handing, At, Top
<1>3. CASE EndPush
  BY <1>3, Return DEF EndPush, FinishPush, Handing, At
<1>4. CASE EndAndLaunch
  BY <1>4 DEF EndAndLaunch, Quit, SigarExit, Relaunch, Handing, At
<1>5. CASE EndPump \/ TakeData
  <2>1. stack # <<>> /\ (stack' = Goto("wait") \/ stack' = Goto("payload"))
    BY <1>5 DEF EndPump, TakeData, At
  <2> QED
    BY <2>1, Move DEF Handing, Places
<1> QED
  BY <1>2, <1>3, <1>4, <1>5
-----------------------------------------------------------------------------
(* Outside a hand-over K is what H is: their steps are the same. *)
LEMMA SameSteps ==
  ASSUME shownField = field, shownField' = field'
  PROVE  /\ \A i \in 1..Len(reqs) :
              /\ H!Serve(i) => K!Serve(i)
              /\ H!Arrive(i) => K!Arrive(i)
              /\ H!Reap(i) => K!Reap(i)
              /\ H!Finished(i) => K!Finished(i)
              /\ \A code \in {"freeing", "other"} : H!Fail(i, code) => K!Fail(i, code)
         /\ \A key \in TypedKeys : H!Type(key) => K!Type(key)
         /\ H!on_lineEdit_uuid_editingFinished => K!on_lineEdit_uuid_editingFinished
         /\ H!Restart => K!Restart
<1>1. /\ H!NoKey = K!NoKey /\ H!m_reply = K!m_reply
      /\ H!InFlight <=> K!InFlight
  BY DEF H!NoKey, K!NoKey, H!m_reply, K!m_reply, H!InFlight, K!InFlight
<1>2. \A i \in 1..Len(reqs) : /\ H!Serve(i) => K!Serve(i)
                              /\ H!Arrive(i) => K!Arrive(i)
                              /\ H!Reap(i) => K!Reap(i)
  BY <1>1 DEF H!Serve, K!Serve, H!Arrive, K!Arrive, H!Reap, K!Reap
<1>3. ASSUME NEW rs, H!slotRequestFinished(rs) PROVE K!slotRequestFinished(rs)
  BY <1>1, <1>3 DEF H!slotRequestFinished, K!slotRequestFinished, H!Adopt, K!Adopt
<1>4. \A i \in 1..Len(reqs) : H!Finished(i) => K!Finished(i)
  BY <1>3 DEF H!Finished, K!Finished
<1>5. \A i \in 1..Len(reqs) : \A code \in {"freeing", "other"} : H!Fail(i, code) => K!Fail(i, code)
  BY <1>1, <1>3 DEF H!Fail, K!Fail
<1>6. \A key \in TypedKeys : H!Type(key) => K!Type(key)
  BY DEF H!Type, K!Type
<1>7. H!on_lineEdit_uuid_editingFinished => K!on_lineEdit_uuid_editingFinished
  BY DEF H!on_lineEdit_uuid_editingFinished, K!on_lineEdit_uuid_editingFinished
<1>8. H!Restart => K!Restart
  BY <1>1 DEF H!Restart, K!Restart, H!Cardinality, K!Cardinality
<1> QED
  BY <1>2, <1>4, <1>5, <1>6, <1>7, <1>8

(* The request goes out, and the field is as good as synchronised. *)
LEMMA HandOverIsPush ==
  ASSUME IInv, RoomLeft, K!IInv, HandOverHttp \/ HandOverXmpp
  PROVE  K!PushHttp \/ K!PushXmpp
<1>1. /\ stack \in Seq(Frames) /\ stack # <<>> /\ stack' = Goto("repush")
      /\ Top.pc = "payload"
  BY DEF IInv, TypeOK, HandOverHttp, HandOverXmpp, Payload_http, Payload_xmpp, At
<1>2. Handing' /\ ~Handing
  <2>1. Handing'
    BY <1>1, Move DEF IInv, Handing, Places
  <2> QED
    BY <1>1, <2>1 DEF Handing, At
<1>3. shownField = field /\ shownField' = uuid /\ saved' = saved
  BY <1>2 DEF shownField, HandOverHttp, HandOverXmpp
<1>4. saved = [saved EXCEPT !.uuid = uuid]
  <2>1. saved \in [uuid : K!Keys, pub : K!Keys] /\ saved.uuid = uuid
    BY DEF K!IInv, K!TypeOK, K!IdentityPersisted
  <2> QED
    BY <2>1
<1>5. K!SyncUuid
  BY <1>3, <1>4 DEF K!SyncUuid
<1>6. CASE HandOverHttp
  <2>1. Len(reqs) < MaxRequests
    <3> DEFINE n == Len(stack)
    <3>1. Top.kind = "http" /\ n \in 1..n
      BY <1>1, <1>6 DEF HandOverHttp, Payload_http
    <3>2. Len(reqs) + n <= MaxRequests
      BY <1>1, <3>1 DEF RoomLeft, Top
    <3>3. Len(reqs) \in Nat /\ n \in Nat /\ n >= 1 /\ MaxRequests \in Nat
      BY <1>1, KeyAssumption DEF K!IInv, K!TypeOK
    <3> QED
      BY <3>2, <3>3
  <2>2. H!NewReply = K!NewReply /\ H!InFlight = K!InFlight
    BY DEF H!NewReply, K!NewReply, H!InFlight, K!InFlight, H!NoKey, K!NoKey
  <2> QED
    BY <1>5, <1>6, <2>1, <2>2 DEF HandOverHttp, K!PushHttp
<1>7. CASE HandOverXmpp
  BY <1>5, <1>7 DEF HandOverXmpp, K!PushXmpp, H!NoKey, K!NoKey, H!LoggedIn, K!LoggedIn
<1> QED
  BY <1>6, <1>7

(* Every step of the window is a step of HostIdentity, or none. *)
LEMMA KeyStep ==
  ASSUME IInv, IInv', RoomLeft, K!IInv, [GeekastNext]_geekastVars
  PROVE  [K!Next]_(K!vars)
<1>1. ASSUME UNCHANGED keyVars, Handing' <=> Handing PROVE UNCHANGED K!vars
  BY <1>1 DEF keyVars, shownField, K!vars
<1>2. ASSUME UNCHANGED stack PROVE Handing' <=> Handing
  BY <1>2 DEF Handing, At, Top
<1>3. ASSUME stack = <<>> PROVE ~Handing
  BY <1>3 DEF Handing, At
<1>4. ASSUME ~Handing, ~Handing'
      PROVE  shownField = field /\ shownField' = field'
  BY <1>4 DEF shownField
<1>5. CASE BeginPush
  <2>1. ~Handing
    BY <1>5, HandingFacts DEF BeginPush, ClickPush, ClickXmpp, push_data
  <2>2. ~Handing'
    BY <1>5, NotHanding
  <2> QED
    BY <1>1, <1>5, <2>1, <2>2 DEF BeginPush
<1>6. CASE HandOverHttp \/ HandOverXmpp
  BY <1>6, HandOverIsPush DEF K!Next
<1>7. CASE EndPush
  <2>1. Handing /\ ~Handing'
    BY <1>7, NotHanding DEF EndPush, FinishPush, Handing
  <2>2. saved = [saved EXCEPT !.uuid = uuid]
    <3>1. saved \in [uuid : K!Keys, pub : K!Keys] /\ saved.uuid = uuid
      BY DEF K!IInv, K!TypeOK, K!IdentityPersisted
    <3> QED
      BY <3>1
  <2>3. field' = uuid /\ saved' = saved
        /\ UNCHANGED <<uuid, client, reqs, hosts, origin, history, misread>>
    BY <1>7, <2>2 DEF EndPush, H!SyncUuid
  <2>4. shownField = uuid /\ shownField' = uuid
    BY <2>1, <2>3 DEF shownField
  <2> QED
    BY <2>3, <2>4 DEF K!vars
<1>8. CASE Gather
  <2>1. CASE EndPump \/ TakeData
    <3>1. ~Handing'
      BY <2>1, NotHanding
    <3>2. ~Handing
      BY <2>1 DEF EndPump, TakeData, Handing, At
    <3> QED
      BY <1>1, <1>8, <3>1, <3>2 DEF Gather
  <2>2. CASE WorkerStep
    <3>1. UNCHANGED stack
      BY <2>2 DEF WorkerStep, Header, Section, Record, CopyOut, Unlock, Finish
    <3> QED
      BY <1>1, <1>2, <1>8, <3>1 DEF Gather
  <2> QED
    BY <1>8, <2>1, <2>2 DEF Gather
<1>9. CASE Deliver
  <2>1. PICK i \in 1..Len(reqs) : H!Serve(i) \/ H!Arrive(i)
    BY <1>9 DEF Deliver
  <2>2. UNCHANGED <<uuid, field, saved, client, origin, history, misread, stack>>
    BY <1>9, <2>1 DEF Deliver, vars, H!Serve, H!Arrive
  <2>3. shownField' = shownField
    BY <1>2, <2>2 DEF shownField
  <2>4. K!Serve(i) \/ K!Arrive(i)
    BY <2>1, <2>2, <2>3
       DEF H!Serve, K!Serve, H!Arrive, K!Arrive, H!NoKey, K!NoKey
  <2> QED
    BY <2>4 DEF K!Next
<1>10. CASE DeleteReply
  <2>1. PICK i \in 1..Len(reqs) : H!Reap(i)
    BY <1>10 DEF DeleteReply
  <2>2. ~Handing /\ UNCHANGED stack
    BY <1>10, HandingFacts DEF DeleteReply, Served, vars
  <2> QED
    BY <1>2, <1>4, <2>1, <2>2, SameSteps DEF K!Next
<1>11. ASSUME NEW i \in 1..Len(reqs), NEW failed \in BOOLEAN, ReadReply(i, failed)
       PROVE  K!Next
  <2>1. ~Handing /\ UNCHANGED stack
    BY <1>11, HandingFacts DEF ReadReply, Served, vars, ReplaceClient
  <2>2. H!Finished(i) \/ \E code \in {"freeing", "other"} : H!Fail(i, code)
    BY <1>11 DEF ReadReply
  <2> QED
    BY <1>2, <1>4, <2>1, <2>2, SameSteps DEF K!Next
<1>12. ASSUME NEW connected \in BOOLEAN, LinkReport(connected)
       PROVE  UNCHANGED K!vars
  BY <1>1, <1>2, <1>12 DEF LinkReport, on_xmpp_connected
<1>13. CASE UserTypes
  <2>1. ~Handing /\ UNCHANGED stack
    BY <1>3, <1>13 DEF UserTypes, UserInput, vars
  <2>2. \/ \E key \in TypedKeys : H!Type(key)
        \/ H!on_lineEdit_uuid_editingFinished
    BY <1>13 DEF UserTypes
  <2> QED
    BY <1>2, <1>4, <2>1, <2>2, SameSteps DEF K!Next
<1>14. CASE UserClicks
  BY <1>1, <1>2, <1>14
     DEF UserClicks, on_checkBox_clicked, on_pushButton_send_clicked
<1>15. CASE EndAndLaunch
  <2>1. ~Handing /\ ~Handing'
    BY <1>15, NotHanding, HandingFacts DEF EndAndLaunch, Quit, SigarExit
  <2> QED
    BY <1>4, <1>15, <2>1, SameSteps DEF EndAndLaunch, K!Next
<1>16. CASE UNCHANGED geekastVars
  BY <1>1, <1>2, <1>16 DEF geekastVars, vars
<1> QED
  BY <1>5, <1>6, <1>7, <1>8, <1>9, <1>10, <1>11, <1>12, <1>13, <1>14, <1>15,
     <1>16 DEF GeekastNext
-----------------------------------------------------------------------------
(* What a change of one reply does to the list. *)
LEMMA ChangeOne ==
  ASSUME NEW s \in Seq(K!Replies), NEW r \in K!Replies,
         NEW n \in Nat, n = Len(s), NEW k \in 1..n,
         NEW t, t = [s EXCEPT ![k] = r]
  PROVE  /\ t \in Seq(K!Replies)
         /\ Len(t) = n
         /\ t[k] = r
         /\ \A i \in 1..n : i # k => t[i] = s[i]
  OBVIOUS

(* The server and the network change neither target nor owner of a reply,  *)
(* do not close it, and answer a key only if there is a host.              *)
LEMMA DeliverFacts ==
  ASSUME K!IInv, Deliver
  PROVE  /\ Len(reqs') = Len(reqs)
         /\ \A i \in 1..Len(reqs) :
              /\ reqs'[i].target = reqs[i].target /\ reqs'[i].life = reqs[i].life
              /\ reqs[i].phase # "closed" => reqs'[i].phase # "closed"
              /\ hosts' = 0 => reqs'[i].body = reqs[i].body
         /\ hosts' = 0 => hosts = 0
<1> DEFINE n == Len(reqs)
<1>1. /\ reqs \in Seq(K!Replies) /\ n \in Nat /\ hosts \in Nat
      /\ \A i \in 1..n : reqs[i] \in K!Replies
  BY KeyAssumption DEF K!IInv, K!TypeOK
<1>2. PICK i \in 1..n : H!Serve(i) \/ H!Arrive(i)
  BY DEF Deliver
<1> DEFINE Changed(p, b) == [reqs[i] EXCEPT !.phase = p, !.body = b]
<1>3. PICK p \in {"answered", "partial", "whole"}, b \in K!Keys :
        /\ reqs' = [reqs EXCEPT ![i] = Changed(p, b)]
        /\ hosts' = 0 => hosts = 0 /\ b = reqs[i].body
  <2>1. CASE H!Serve(i)
    <3>1. CASE reqs' = [reqs EXCEPT ![i].phase = "answered", ![i].body = hosts + 1]
               /\ hosts < MaxHosts /\ hosts' = hosts + 1
      <4>1. hosts + 1 \in K!Keys /\ hosts' # 0
        BY <1>1, <3>1, KeyAssumption DEF K!Keys
      <4>2. reqs' = [reqs EXCEPT ![i] = Changed("answered", hosts + 1)]
        BY <1>1, <3>1
      <4> QED
        BY <4>1, <4>2
    <3>2. CASE reqs' = [reqs EXCEPT ![i].phase = "answered", ![i].body = reqs[i].target]
               /\ reqs[i].target \in 1..hosts /\ UNCHANGED hosts
      <4>1. reqs[i].target \in K!Keys /\ hosts' # 0
        BY <1>1, <3>2 DEF K!Replies
      <4>2. reqs' = [reqs EXCEPT ![i] = Changed("answered", reqs[i].target)]
        BY <1>1, <3>2
      <4> QED
        BY <4>1, <4>2
    <3>3. CASE reqs' = [reqs EXCEPT ![i].phase = "answered"] /\ UNCHANGED hosts
      <4>1. reqs' = [reqs EXCEPT ![i] = Changed("answered", reqs[i].body)]
        BY <1>1, <3>3 DEF K!Replies
      <4>2. reqs[i].body \in K!Keys
        BY <1>1 DEF K!Replies
      <4> QED
        BY <3>3, <4>1, <4>2
    <3> QED
      BY <2>1, <3>1, <3>2, <3>3 DEF H!Serve
  <2>2. CASE H!Arrive(i)
    <3>1. PICK p \in {"partial", "whole"} :
            reqs' = [reqs EXCEPT ![i].phase = p] /\ UNCHANGED hosts
      BY <2>2 DEF H!Arrive
    <3>2. reqs' = [reqs EXCEPT ![i] = Changed(p, reqs[i].body)]
      BY <1>1, <3>1 DEF K!Replies
    <3>3. reqs[i].body \in K!Keys
      BY <1>1 DEF K!Replies
    <3> QED
      BY <3>1, <3>2, <3>3
  <2> QED
    BY <1>2, <2>1, <2>2
<1>4. /\ Changed(p, b) \in K!Replies
      /\ Changed(p, b).target = reqs[i].target /\ Changed(p, b).life = reqs[i].life
      /\ Changed(p, b).phase = p /\ Changed(p, b).body = b
  BY <1>1 DEF K!Replies
<1> HIDE DEF Changed
<1>5. /\ Len(reqs') = n
      /\ reqs'[i] = Changed(p, b)
      /\ \A j \in 1..n : j # i => reqs'[j] = reqs[j]
  BY <1>1, <1>3, <1>4, ChangeOne
<1> QED
  BY <1>3, <1>4, <1>5

(* Reading a reply, or deleting one, brings no key to the list. *)
LEMMA ReadFacts ==
  ASSUME K!IInv,
         DeleteReply \/ \E i \in 1..Len(reqs), failed \in BOOLEAN : ReadReply(i, failed)
  PROVE  /\ Len(reqs') = Len(reqs)
         /\ \A j \in 1..Len(reqs) : reqs'[j].body \in {reqs[j].body, H!NoKey}
         /\ hosts' = hosts
<1> DEFINE n == Len(reqs)
<1>1. /\ reqs \in Seq(K!Replies) /\ n \in Nat
      /\ \A j \in 1..n : reqs[j] \in K!Replies
  BY DEF K!IInv, K!TypeOK
<1>2. H!NoKey \in K!Keys
  BY KeyAssumption DEF H!NoKey, K!Keys
<1>3. PICK i \in 1..n : \/ H!Reap(i)
                        \/ H!Finished(i)
                        \/ \E code \in {"freeing", "other"} : H!Fail(i, code)
  BY DEF DeleteReply, ReadReply
<1>4. ASSUME NEW r \in K!Replies, r.body \in {reqs[i].body, H!NoKey},
             NEW rs, rs = [reqs EXCEPT ![i] = r]
      PROVE  /\ rs \in Seq(K!Replies) /\ Len(rs) = n
             /\ \A j \in 1..n : rs[j].body \in {reqs[j].body, H!NoKey}
  <2>1. /\ rs \in Seq(K!Replies) /\ Len(rs) = n
        /\ rs[i] = r
        /\ \A j \in 1..n : j # i => rs[j] = reqs[j]
    BY <1>1, <1>4, ChangeOne
  <2> QED
    BY <1>4, <2>1
<1>5. ASSUME NEW rs \in Seq(K!Replies), Len(rs) = n, H!slotRequestFinished(rs),
             \A j \in 1..n : rs[j].body \in {reqs[j].body, H!NoKey}
      PROVE  /\ Len(reqs') = n
             /\ \A j \in 1..n : reqs'[j].body \in {reqs[j].body, H!NoKey}
  <2> DEFINE r == [rs[n] EXCEPT !.body = H!NoKey]
  <2>1. n \in 1..n /\ rs[n] \in K!Replies
    BY <1>1, <1>3, <1>5
  <2>2. r \in K!Replies /\ r.body = H!NoKey
    BY <1>2, <2>1 DEF K!Replies
  <2>3. reqs' = rs \/ reqs' = [rs EXCEPT ![n] = r]
    BY <1>5 DEF H!slotRequestFinished, H!m_reply
  <2> HIDE DEF r
  <2>4. CASE reqs' = [rs EXCEPT ![n] = r]
    <3>1. /\ Len(reqs') = n
          /\ reqs'[n] = r
          /\ \A j \in 1..n : j # n => reqs'[j] = rs[j]
      BY <1>1, <1>5, <2>1, <2>2, <2>4, ChangeOne
    <3> QED
      BY <1>5, <2>2, <3>1
  <2> QED
    BY <1>5, <2>3, <2>4
<1>6. CASE H!Reap(i)
  <2> DEFINE r == [reqs[i] EXCEPT !.life = "deleted"]
  <2>1. r \in K!Replies /\ r.body = reqs[i].body
    BY <1>1 DEF K!Replies
  <2>2. reqs' = [reqs EXCEPT ![i] = r] /\ UNCHANGED hosts
    BY <1>6 DEF H!Reap
  <2> HIDE DEF r
  <2> QED
    BY <1>4, <2>1, <2>2
<1>7. CASE H!Finished(i)
  <2> DEFINE r == [reqs[i] EXCEPT !.phase = "closed"]
             rs == [reqs EXCEPT ![i] = r]
  <2>1. r \in K!Replies /\ r.body = reqs[i].body
    BY <1>1 DEF K!Replies
  <2>2. H!slotRequestFinished(rs) /\ UNCHANGED hosts
    BY <1>7 DEF H!Finished
  <2> HIDE DEF r
  <2>3. /\ rs \in Seq(K!Replies) /\ Len(rs) = n
        /\ \A j \in 1..n : rs[j].body \in {reqs[j].body, H!NoKey}
    BY <1>4, <2>1
  <2> HIDE DEF rs
  <2> QED
    BY <1>5, <2>2, <2>3
<1>8. ASSUME NEW code, H!Fail(i, code)
      PROVE  /\ Len(reqs') = n /\ hosts' = hosts
             /\ \A j \in 1..n : reqs'[j].body \in {reqs[j].body, H!NoKey}
  <2> DEFINE life == IF code = "other" THEN reqs[i].life ELSE "doomed"
             r == [reqs[i] EXCEPT !.phase = "closed", !.body = H!NoKey, !.life = life]
             rs == [reqs EXCEPT ![i] = r]
  <2>1. r \in K!Replies /\ r.body = H!NoKey
    BY <1>1, <1>2 DEF K!Replies
  <2>2. H!slotRequestFinished(rs) /\ UNCHANGED hosts
    BY <1>8, <1>1 DEF H!Fail
  <2> HIDE DEF r
  <2>3. /\ rs \in Seq(K!Replies) /\ Len(rs) = n
        /\ \A j \in 1..n : rs[j].body \in {reqs[j].body, H!NoKey}
    BY <1>4, <2>1
  <2> HIDE DEF rs
  <2> QED
    BY <1>5, <2>2, <2>3
<1> QED
  BY <1>3, <1>6, <1>7, <1>8
-----------------------------------------------------------------------------
(* A request's place is kept from the click until it is posted. *)
LEMMA StepRoom ==
  ASSUME GeekastIInv, [GeekastNext]_geekastVars
  PROVE  RoomLeft'
<1> USE DEF GeekastIInv
<1> DEFINE n == Len(stack)
<1>1. /\ stack \in Seq(Frames) /\ n \in Nat /\ Len(reqs) \in Nat /\ MaxRequests \in Nat
      /\ \A i \in 1..n : stack[i] \in Frames
  BY KeyAssumption DEF IInv, TypeOK, K!IInv, K!TypeOK
<1>2. ASSUME UNCHANGED stack, Len(reqs') = Len(reqs) PROVE RoomLeft'
  BY <1>2 DEF RoomLeft
<1>3. ASSUME stack # <<>>, NEW pc \in Places, stack' = Goto(pc)
      PROVE  /\ Len(stack') = n /\ n \in 1..n
             /\ stack'[n].pc = pc /\ stack'[n].kind = Top.kind
             /\ \A i \in 1..n : i # n => stack'[i] = stack[i]
  <2> DEFINE f == [stack[n] EXCEPT !.pc = pc]
  <2>1. n \in 1..n
    BY <1>1, <1>3
  <2>2. stack[n] \in Frames
    BY <1>1, <2>1
  <2>3. f \in Frames /\ f.pc = pc /\ f.kind = Top.kind
    BY <2>2 DEF Frames, Places, Top
  <2>4. stack' = [stack EXCEPT ![n] = f]
    BY <1>3 DEF Goto
  <2> HIDE DEF f
  <2>5. Len(stack') = n /\ stack'[n] = f /\ \A i \in 1..(n-1) : stack'[i] = stack[i]
    BY <1>1, <1>3, <2>3, <2>4, MoveFrame
  <2> QED
    BY <1>1, <2>1, <2>3, <2>5
<1>4. CASE BeginPush
  <2>1. PICK f \in Frames :
          /\ stack' = Append(stack, f) /\ reqs' = reqs
          /\ f.kind = "http" => Len(reqs) + n + 1 <= MaxRequests
    <3>1. CASE ClickXmpp
      BY <1>4, <3>1 DEF BeginPush, keyVars, ClickXmpp, on_pushButton_xmpp_clicked,
                        Frame, Frames
    <3>2. CASE (ClickPush \/ push_data) /\ Room
      BY <1>1, <1>4, <3>2
         DEF BeginPush, keyVars, ClickPush, push_data, on_pushButton_xmpp_clicked,
             on_pushButton_push_clicked, Frame, Frames, Room
    <3> QED
      BY <1>4, <3>1, <3>2 DEF BeginPush
  <2>2. /\ Len(stack') = n + 1 /\ stack'[n + 1] = f
        /\ \A i \in 1..n : stack'[i] = stack[i]
    BY <1>1, <2>1, PushFrame
  <2> QED
    BY <1>1, <2>1, <2>2 DEF RoomLeft
<1>5. CASE HandOverHttp \/ HandOverXmpp
  <2>1. stack # <<>> /\ stack' = Goto("repush") /\ Top.pc = "payload"
    BY <1>5 DEF HandOverHttp, HandOverXmpp, Payload_http, Payload_xmpp, At
  <2>2. /\ Len(stack') = n /\ n \in 1..n /\ stack'[n].pc = "repush"
        /\ \A i \in 1..n : i # n => stack'[i] = stack[i]
    BY <1>3, <2>1 DEF Places
  <2>3. CASE HandOverHttp
    <3>1. Len(reqs) + n <= MaxRequests
      BY <2>1, <2>2, <2>3 DEF RoomLeft, HandOverHttp, Payload_http, Top
    <3>2. Len(reqs') = Len(reqs) + 1
      BY <2>3 DEF HandOverHttp, K!IInv, K!TypeOK
    <3> QED
      BY <1>1, <2>2, <3>1, <3>2 DEF RoomLeft
  <2>4. CASE HandOverXmpp
    <3>1. reqs' = reqs
      BY <2>4 DEF HandOverXmpp
    <3> QED
      BY <1>1, <2>2, <3>1 DEF RoomLeft
  <2> QED
    BY <1>5, <2>3, <2>4
<1>6. CASE EndPush
  <2>1. stack # <<>> /\ stack' = Pop /\ reqs' = reqs
    BY <1>6 DEF EndPush, FinishPush, At
  <2>2. Len(stack') = n - 1 /\ \A i \in 1..(n-1) : stack'[i] = stack[i]
    BY <1>1, <2>1, PopFrame DEF Pop
  <2> QED
    BY <1>1, <2>1, <2>2 DEF RoomLeft
<1>7. CASE Gather
  <2>1. CASE EndPump \/ TakeData
    <3>1. /\ stack # <<>> /\ reqs' = reqs /\ Top.pc # "repush"
          /\ \E pc \in {"wait", "payload"} : stack' = Goto(pc)
      BY <1>7, <2>1 DEF Gather, keyVars, EndPump, TakeData, At
    <3>2. /\ Len(stack') = n /\ n \in 1..n /\ stack'[n].kind = stack[n].kind
          /\ \A i \in 1..n : i # n => stack'[i] = stack[i]
      BY <1>3, <3>1 DEF Places, Top
    <3> QED
      BY <1>1, <3>1, <3>2 DEF RoomLeft, Top
  <2>2. CASE WorkerStep
    BY <1>2, <1>7, <2>2
       DEF Gather, keyVars, WorkerStep, Header, Section, Record, CopyOut, Unlock, Finish
  <2> QED
    BY <1>7, <2>1, <2>2 DEF Gather
<1>8. CASE Deliver
  BY <1>2, <1>8, DeliverFacts DEF Deliver, vars
<1>9. CASE DeleteReply \/ \E i \in 1..Len(reqs), failed \in BOOLEAN : ReadReply(i, failed)
  BY <1>2, <1>9, ReadFacts DEF DeleteReply, ReadReply, ReplaceClient, vars
<1>10. ASSUME NEW connected \in BOOLEAN, LinkReport(connected) PROVE RoomLeft'
  BY <1>2, <1>10 DEF LinkReport, on_xmpp_connected, keyVars
<1>11. CASE UserTypes
  BY <1>2, <1>11 DEF UserTypes, vars, H!Type, H!on_lineEdit_uuid_editingFinished
<1>12. CASE UserClicks
  BY <1>2, <1>12 DEF UserClicks, on_checkBox_clicked, on_pushButton_send_clicked, keyVars
<1>13. CASE EndAndLaunch
  <2>1. Len(stack') = 0
    BY <1>13 DEF EndAndLaunch, Quit, SigarExit, Relaunch
  <2> QED
    BY <2>1 DEF RoomLeft
<1>14. CASE UNCHANGED geekastVars
  BY <1>2, <1>14 DEF geekastVars, vars, keyVars
<1> QED
  BY <1>4, <1>5, <1>6, <1>7, <1>8, <1>9, <1>10, <1>11, <1>12, <1>13, <1>14
     DEF GeekastNext

(* What is posted is the last request, and stays the push's own. *)
LEMMA StepHandedOver ==
  ASSUME GeekastIInv, IInv', [GeekastNext]_geekastVars
  PROVE  HandedOverOnce'
<1> USE DEF GeekastIInv
<1>1. reqs \in Seq(K!Replies) /\ Len(reqs) \in Nat
  BY DEF K!IInv, K!TypeOK
<1>2. ASSUME UNCHANGED <<stack, reqs, uuid>> PROVE HandedOverOnce'
  BY <1>2 DEF HandedOverOnce, Handing, At, Top
<1>3. ASSUME stack = <<>>, UNCHANGED stack PROVE ~Handing'
  BY <1>3 DEF Handing, At
<1>4. CASE BeginPush \/ EndPush \/ EndAndLaunch
  BY <1>4, NotHanding DEF HandedOverOnce
<1>5. CASE HandOverHttp
  <2>1. reqs' = Append(reqs, H!NewReply) /\ uuid' = uuid
    BY <1>5 DEF HandOverHttp
  <2>2. reqs' # <<>> /\ reqs'[Len(reqs')] = H!NewReply
    BY <1>1, <2>1
  <2> QED
    BY <2>1, <2>2 DEF HandedOverOnce, H!NewReply
<1>6. CASE HandOverXmpp
  <2>1. stack \in Seq(Frames) /\ stack # <<>> /\ Top.kind = "xmpp" /\ stack' = Goto("repush")
    BY <1>6 DEF HandOverXmpp, Payload_xmpp, At, IInv, TypeOK
  <2>2. Top'.kind = Top.kind
    BY <2>1 DEF Goto, Top, Frames
  <2> QED
    BY <2>1, <2>2 DEF HandedOverOnce
<1>7. CASE Gather
  <2>1. CASE EndPump \/ TakeData
    BY <2>1, NotHanding DEF HandedOverOnce
  <2>2. CASE WorkerStep
    BY <1>2, <1>7, <2>2
       DEF Gather, keyVars, WorkerStep, Header, Section, Record, CopyOut, Unlock, Finish
  <2> QED
    BY <1>7, <2>1, <2>2 DEF Gather
<1>8. CASE Deliver
  <2>1. UNCHANGED <<stack, uuid>>
    BY <1>8 DEF Deliver, vars, H!Serve, H!Arrive
  <2>2. CASE reqs = <<>>
    BY <1>8, <2>2 DEF Deliver
  <2>3. CASE reqs # <<>>
    <3> DEFINE n == Len(reqs)
    <3>1. n \in 1..n /\ Len(reqs') = n /\ reqs' # <<>>
      BY <1>1, <1>8, <2>3, DeliverFacts
    <3>2. /\ reqs'[n].target = reqs[n].target /\ reqs'[n].life = reqs[n].life
          /\ reqs[n].phase # "closed" => reqs'[n].phase # "closed"
      BY <1>8, <3>1, DeliverFacts
    <3> QED
      BY <2>1, <2>3, <3>1, <3>2 DEF HandedOverOnce, Handing, At, Top
  <2> QED
    BY <2>2, <2>3
<1>9. CASE DeleteReply \/ \E i \in 1..Len(reqs), failed \in BOOLEAN : ReadReply(i, failed)
  <2>1. ~Handing /\ UNCHANGED stack
    BY <1>9, HandingFacts DEF DeleteReply, ReadReply, Served, ReplaceClient, vars
  <2> QED
    BY <2>1 DEF HandedOverOnce, Handing, At, Top
<1>10. ASSUME NEW connected \in BOOLEAN, LinkReport(connected) PROVE HandedOverOnce'
  BY <1>2, <1>10 DEF LinkReport, on_xmpp_connected, keyVars
<1>11. CASE UserTypes
  BY <1>3, <1>11 DEF UserTypes, UserInput, vars, HandedOverOnce
<1>12. CASE UserClicks
  BY <1>2, <1>12 DEF UserClicks, on_checkBox_clicked, on_pushButton_send_clicked, keyVars
<1>13. CASE UNCHANGED geekastVars
  BY <1>2, <1>13 DEF geekastVars, vars, keyVars
<1> QED
  BY <1>4, <1>5, <1>6, <1>7, <1>8, <1>9, <1>10, <1>11, <1>12, <1>13 DEF GeekastNext

(* As long as there is no host there is no key to adopt or to log in with. *)
LEMMA StepFirstPush ==
  ASSUME GeekastIInv, K!IInv', [GeekastNext]_geekastVars
  PROVE  NoKeyYet' /\ FirstPushIsHttp'
<1> USE DEF GeekastIInv
<1> DEFINE n == Len(reqs)
<1>1. /\ reqs \in Seq(K!Replies) /\ n \in Nat
      /\ hosts \in Nat /\ hosts' \in Nat /\ MaxHosts \in Nat
  BY KeyAssumption DEF K!IInv, K!TypeOK
<1>2. ASSUME UNCHANGED <<reqs, hosts, wired, method>> PROVE NoKeyYet' /\ FirstPushIsHttp'
  BY <1>2 DEF NoKeyYet, FirstPushIsHttp, H!NoKey
<1>3. CASE BeginPush
  BY <1>2, <1>3 DEF BeginPush, keyVars, guiVars, ClickPush, ClickXmpp, push_data,
                    on_pushButton_push_clicked, on_pushButton_xmpp_clicked
<1>4. CASE HandOverHttp
  <2>1. /\ hosts' = hosts /\ UNCHANGED <<wired, method>>
        /\ reqs' = Append(reqs, H!NewReply)
    BY <1>4 DEF HandOverHttp, Payload_http, guiVars
  <2>2. /\ Len(reqs') = n + 1 /\ reqs'[n + 1] = H!NewReply
        /\ \A i \in 1..n : reqs'[i] = reqs[i]
    BY <1>1, <2>1
  <2>3. H!NewReply.body = H!NoKey
    BY DEF H!NewReply
  <2> QED
    BY <1>1, <2>1, <2>2, <2>3 DEF NoKeyYet, FirstPushIsHttp, H!NoKey
<1>5. CASE HandOverXmpp
  <2>1. hosts' = hosts \/ hosts' = hosts + 1
    BY <1>5 DEF HandOverXmpp
  <2>2. UNCHANGED <<reqs, wired, method>>
    BY <1>5 DEF HandOverXmpp, Payload_xmpp, guiVars
  <2> QED
    BY <1>1, <2>1, <2>2 DEF NoKeyYet, FirstPushIsHttp, H!NoKey
<1>6. CASE EndPush
  BY <1>2, <1>6 DEF EndPush, FinishPush, guiVars
<1>7. CASE Gather
  BY <1>2, <1>7
     DEF Gather, keyVars, guiVars, EndPump, TakeData, WorkerStep, Header, Section,
         Record, CopyOut, Unlock, Finish
<1>8. CASE Deliver
  <2>1. UNCHANGED <<wired, method>>
    BY <1>8 DEF Deliver, vars, guiVars
  <2> QED
    BY <1>8, <2>1, DeliverFacts DEF NoKeyYet, FirstPushIsHttp, H!NoKey
<1>9. CASE DeleteReply
  <2>1. UNCHANGED <<wired, method>>
    BY <1>9 DEF DeleteReply, vars, guiVars
  <2> QED
    BY <1>9, <2>1, ReadFacts DEF NoKeyYet, FirstPushIsHttp, H!NoKey
<1>10. ASSUME NEW i \in 1..n, NEW failed \in BOOLEAN, ReadReply(i, failed)
       PROVE  NoKeyYet' /\ FirstPushIsHttp'
  <2>1. NoKeyYet' /\ hosts' = hosts
    BY <1>10, ReadFacts DEF NoKeyYet, H!NoKey
  <2>2. hosts = 0 => ~Adopts(i, failed)
    <3>1. n \in 1..n
      BY <1>1
    <3> QED
      BY <3>1 DEF Adopts, NoKeyYet, H!m_reply
  <2>3. hosts = 0 => UNCHANGED <<wired, method>>
    BY <1>10, <2>2 DEF ReadReply, vars, guiVars
  <2> QED
    BY <2>1, <2>3 DEF FirstPushIsHttp
<1>11. ASSUME NEW connected \in BOOLEAN, LinkReport(connected)
       PROVE  NoKeyYet' /\ FirstPushIsHttp'
  <2>1. UNCHANGED <<reqs, hosts, wired>> /\ (connected => H!LoggedIn)
    BY <1>11 DEF LinkReport, on_xmpp_connected, keyVars
  <2>2. hosts = 0 => ~connected
    BY <1>1, <2>1, <1>11 DEF H!LoggedIn, LinkReport
  <2>3. UNCHANGED <<reqs, hosts, wired>> /\ (hosts = 0 => method' = "http")
    BY <1>11, <2>2 DEF LinkReport, on_xmpp_connected, keyVars, FirstPushIsHttp
  <2> QED
    BY <2>3 DEF NoKeyYet, FirstPushIsHttp, H!NoKey
<1>12. CASE UserTypes
  BY <1>2, <1>12 DEF UserTypes, vars, guiVars, H!Type, H!on_lineEdit_uuid_editingFinished
<1>13. CASE UserClicks
  BY <1>2, <1>13 DEF UserClicks, on_checkBox_clicked, on_pushButton_send_clicked,
                     keyVars, guiVars
<1>14. CASE EndAndLaunch
  <2>1. Len(reqs') = 0 /\ wired' /\ method' = "http"
    BY <1>14 DEF EndAndLaunch, H!Restart, Quit, SigarExit, Relaunch
  <2> QED
    BY <2>1 DEF NoKeyYet, FirstPushIsHttp
<1>15. CASE UNCHANGED geekastVars
  BY <1>2, <1>15 DEF geekastVars, vars, keyVars, guiVars
<1> QED
  BY <1>3, <1>4, <1>5, <1>6, <1>7, <1>8, <1>9, <1>10, <1>11, <1>12, <1>13, <1>14,
     <1>15 DEF GeekastNext

(* The text of the field is a key, also while a push is handed over. *)
LEMMA StepField ==
  ASSUME GeekastIInv, [GeekastNext]_geekastVars
  PROVE  field' \in H!Keys
<1> USE DEF GeekastIInv
<1>1. uuid \in H!Keys /\ saved.uuid \in H!Keys
  BY DEF K!IInv, K!TypeOK, K!Keys, H!Keys
<1>2. TypedKeys \subseteq H!Keys
  BY KeyAssumption DEF H!Keys
<1>3. CASE BeginPush \/ HandOverHttp \/ HandOverXmpp \/ Gather \/ UserClicks
  BY <1>3 DEF BeginPush, HandOverHttp, HandOverXmpp, Gather, UserClicks, keyVars
<1>4. CASE EndPush
  BY <1>1, <1>4 DEF EndPush, H!SyncUuid
<1>5. CASE Deliver \/ DeleteReply
  BY <1>5 DEF Deliver, DeleteReply, H!Serve, H!Arrive, H!Reap
<1>6. ASSUME NEW i \in 1..Len(reqs), NEW failed \in BOOLEAN, ReadReply(i, failed)
      PROVE  field' \in H!Keys
  <2>1. ~Handing /\ UNCHANGED stack
    BY <1>6, HandingFacts DEF ReadReply, Served, vars, ReplaceClient
  <2>2. ~Handing'
    BY <2>1 DEF Handing, At, Top
  <2>3. IInv'
    BY PushStep, NextIInv
  <2>4. K!IInv'
    BY <2>3, KeyStep, KeysIInv
  <2>5. shownField' = field'
    BY <2>2 DEF shownField
  <2> QED
    BY <2>4, <2>5 DEF K!IInv, K!TypeOK, K!Keys, H!Keys
<1>7. ASSUME NEW connected \in BOOLEAN, LinkReport(connected) PROVE field' \in H!Keys
  BY <1>7 DEF LinkReport, keyVars
<1>8. CASE UserTypes
  BY <1>2, <1>8 DEF UserTypes, H!Type, H!on_lineEdit_uuid_editingFinished
<1>9. CASE EndAndLaunch
  BY <1>1, <1>9 DEF EndAndLaunch, H!Restart
<1>10. CASE UNCHANGED geekastVars
  BY <1>10 DEF geekastVars, keyVars
<1> QED
  BY <1>3, <1>4, <1>5, <1>6, <1>7, <1>8, <1>9, <1>10 DEF GeekastNext
-----------------------------------------------------------------------------
(* The constructor establishes both halves of the invariant. *)
LEMMA InitGeekast == GeekastInit => GeekastIInv
<1> SUFFICES ASSUME GeekastInit PROVE GeekastIInv
  OBVIOUS
<1>1. IInv /\ stack = <<>> /\ reqs = <<>> /\ field = H!NoKey
  BY InitIInv DEF GeekastInit, Init, H!Init
<1>2. ~Handing
  BY <1>1 DEF Handing, At
<1>3. K!Init
  BY <1>2 DEF GeekastInit, H!Init, K!Init, shownField, H!NoKey, K!NoKey
<1>4. K!IInv
  BY <1>3, KeysIInv
<1>5. field \in H!Keys
  BY <1>1, KeyAssumption DEF H!NoKey, H!Keys
<1>6. HandedOverOnce
  BY <1>2 DEF HandedOverOnce
<1>7. FirstPushIsHttp
  BY DEF GeekastInit, Init, FirstPushIsHttp
<1>8. NoKeyYet /\ RoomLeft
  BY <1>1 DEF NoKeyYet, RoomLeft
<1> QED
  BY <1>1, <1>4, <1>5, <1>6, <1>7, <1>8 DEF GeekastIInv

(* Every step of the window keeps it: each half because the step is one of *)
(* that half, the rest by the lemmas above.                                *)
LEMMA StepGeekast == GeekastIInv /\ [GeekastNext]_geekastVars => GeekastIInv'
<1> SUFFICES ASSUME GeekastIInv, [GeekastNext]_geekastVars PROVE GeekastIInv'
  OBVIOUS
<1>1. IInv'
  BY PushStep, NextIInv DEF GeekastIInv
<1>2. K!IInv'
  BY <1>1, KeyStep, KeysIInv DEF GeekastIInv
<1> QED
  BY <1>1, <1>2, StepRoom, StepHandedOver, StepFirstPush, StepField DEF GeekastIInv

(* The inductive invariant of the window holds in every reachable state.   *)
THEOREM GeekastInvariance == GeekastSpec => []GeekastIInv
  BY InitGeekast, StepGeekast, PTL DEF GeekastSpec

(* Every variable of the window has its type, on both sides.               *)
THEOREM GeekastTypeCorrect == GeekastSpec => []GeekastTypeOK
<1>1. GeekastIInv => GeekastTypeOK
  <2> SUFFICES ASSUME GeekastIInv PROVE TypeOK /\ H!TypeOK
    BY DEF GeekastTypeOK
  <2>1. TypeOK /\ K!TypeOK /\ field \in H!Keys
    BY DEF GeekastIInv, IInv, K!IInv
  <2> QED
    BY <2>1 DEF K!TypeOK, H!TypeOK, K!Keys, H!Keys, K!Replies, H!Replies
<1> QED
  BY <1>1, GeekastInvariance, PTL

(* The request a handler has posted is still its own, and unread, when the *)
(* handler synchronises the field (on_pushButton_push_clicked).            *)
THEOREM HandOverIsExclusive == GeekastSpec => []HandedOverOnce
<1>1. GeekastIInv => HandedOverOnce
  BY DEF GeekastIInv
<1> QED
  BY <1>1, GeekastInvariance, PTL

(* No machine is ever told to push by XMPP before the server knows it.     *)
THEOREM HttpComesFirst == GeekastSpec => []FirstPushIsHttp
<1>1. GeekastIInv => FirstPushIsHttp
  BY DEF GeekastIInv
<1> QED
  BY <1>1, GeekastInvariance, PTL

(* Among nested handlers, both threads and the event loop the keys do what *)
(* HostIdentity says they do: its posting and its synchronisation, apart   *)
(* here, are one step to everything that looks.                            *)
THEOREM KeyRefinement == GeekastSpec => KeySpec
<1>1. GeekastInit => K!Init
  <2> SUFFICES ASSUME GeekastInit PROVE K!Init
    OBVIOUS
  <2>1. ~Handing
    BY DEF GeekastInit, Init, Handing, At
  <2> QED
    BY <2>1 DEF GeekastInit, H!Init, K!Init, shownField, H!NoKey, K!NoKey
<1>2. GeekastIInv /\ GeekastIInv' /\ [GeekastNext]_geekastVars => [K!Next]_(K!vars)
  BY KeyStep DEF GeekastIInv
<1> QED
  BY <1>1, <1>2, GeekastInvariance, PTL DEF GeekastSpec, KeySpec, K!Spec

(* What was shown of each part alone holds in the whole window: no race on *)
(* the gathered data, clean hand-overs, one host, agreeing keys.           *)
THEOREM PartsKeepTheirWord ==
  GeekastSpec => [](/\ NoDataRace /\ MutexesSignal
                    /\ K!IdentityPersisted /\ K!ServerKeysAgree
                    /\ K!NoUseAfterFree /\ K!SingleHost)
<1> DEFINE Word == /\ NoDataRace /\ MutexesSignal
                   /\ K!IdentityPersisted /\ K!ServerKeysAgree
                   /\ K!NoUseAfterFree /\ K!SingleHost
<1>1. GeekastIInv => Word
  <2> SUFFICES ASSUME GeekastIInv PROVE Word
    OBVIOUS
  <2> USE DEF GeekastIInv
  <2>1. NoDataRace
    BY DEF IInv, TokenInv, NoDataRace
  <2>2. MutexesSignal
    BY SignalFacts
  <2>3. K!IdentityPersisted /\ K!ServerKeysAgree
    BY DEF K!IInv
  <2>4. K!NoUseAfterFree
    BY DEF K!IInv, K!OneOpen, K!NoUseAfterFree
  <2>5. K!SingleHost
    <3>1. K!OpenAnswer => K!InFlight
      BY DEF K!OpenAnswer, K!InFlight, K!IInv, K!TypeOK
    <3> QED
      BY <3>1 DEF K!IInv, K!KeyKnown, K!SingleHost
  <2> QED
    BY <2>1, <2>2, <2>3, <2>4, <2>5
<1> QED
  BY <1>1, GeekastInvariance, PTL

(* In the whole window, too, what is handed over is what was ticked when   *)
(* its gathering began: no reply, client or key disturbs a push.           *)
THEOREM WindowPushes == GeekastSpec => CycleSpec
<1>1. GeekastInit => Cycle!Init
  BY InitCycle DEF GeekastInit
<1>2. GeekastIInv /\ [GeekastNext]_geekastVars => [Cycle!Next]_(Cycle!vars)
  BY PushStep, NextCycle DEF GeekastIInv
<1> QED
  BY <1>1, <1>2, GeekastInvariance, PTL DEF GeekastSpec, CycleSpec, Cycle!Spec

(* The refreshStats of a nested handler, with replies read in between,     *)
(* never changes the options Populate is reading.                          *)
THEOREM WindowFlags == GeekastSpec => FlagsStable
<1>1. GeekastIInv /\ [GeekastNext]_geekastVars =>
        [worker = "populating" /\ worker' = "populating" => flags' = flags]_vars
  BY PushStep, FlagsStep DEF GeekastIInv
<1> QED
  BY <1>1, GeekastInvariance, PTL DEF GeekastSpec, FlagsStable

(* Replies read and clients replaced inside a handler neither keep it busy *)
(* nor leave it behind: what does is what does in PushLoop.                      *)
THEOREM WindowLeavesBehind == GeekastSpec => []HandlersMove /\ LeftBehindForGood /\ PushesAdvance
<1>1. GeekastInit => TokenUsed
  BY DEF GeekastInit, Init, TokenUsed
<1>2. GeekastIInv => IInv /\ HandlersMove
  BY MoveFacts DEF GeekastIInv
<1>3. GeekastIInv /\ [GeekastNext]_geekastVars => [Next]_vars
  BY PushStep
<1>4. GeekastSpec => []TokenUsed
  BY <1>1, <1>2, <1>3, TokenUsedStep, GeekastInvariance, PTL DEF GeekastSpec
<1> QED
  BY <1>2, <1>3, <1>4, BehindStep, AdvanceStep, GeekastInvariance, PTL
     DEF GeekastSpec, LeftBehindForGood, PushesAdvance

(* The window uses the XMPP client as the abstract link allows, also where *)
(* a reply replaces the client inside a handler.                           *)
THEOREM WindowLink == GeekastSpec => LinkSpec
<1>1. GeekastInit => XLink!Init
  BY DEF GeekastInit, Init, XLink!Init
<1>2. [GeekastNext]_geekastVars => [XLink!Next]_(XLink!vars)
  BY PushStep, NextLink
<1> QED
  BY <1>1, <1>2, PTL DEF GeekastSpec, LinkSpec, XLink!Spec

(* An adopted identity stays through nested handlers, relaunches and exits *)
(* of the probes while no request overlaps, nothing is lost and the user   *)
(* leaves the key alone.                                                   *)
THEOREM WindowIdentity == GeekastSpec => K!IdentitySticks
<1>1. KP!IInv /\ [KP!Next]_(KP!vars) =>
        [history' = {} /\ uuid # KP!NoKey => uuid' = uuid]_(KP!vars)
  BY KeyAssumption, KP!StickStep
<1>2. GeekastIInv /\ GeekastIInv' /\ [GeekastNext]_geekastVars =>
        K!IInv /\ [K!Next]_(K!vars)
  BY KeyStep DEF GeekastIInv
<1>3. UNCHANGED K!vars <=> UNCHANGED KP!vars
  BY DEF K!vars, KP!vars
<1>4. K!NoKey = KP!NoKey
  BY DEF K!NoKey, KP!NoKey
<1>5. GeekastIInv /\ GeekastIInv' /\ [GeekastNext]_geekastVars =>
        [history' = {} /\ uuid # K!NoKey => uuid' = uuid]_(K!vars)
  BY <1>1, <1>2, <1>3, <1>4, SameState, SameNext
<1> QED
  BY <1>5, GeekastInvariance, PTL DEF GeekastSpec, K!IdentitySticks
=============================================================================
