------------------------- MODULE HostIdentityProofs -------------------------
(***************************************************************************)
(* Proofs about HostIdentity for every number of requests, of hosts and of *)
(* keys a user may type: the four copies of the keys agree, a deleted      *)
(* reply is read only after two requests overlapped, and a machine that    *)
(* loses nothing and whose user leaves the key alone is one host.          *)
(***************************************************************************)
EXTENDS HostIdentity, FiniteSetTheorems, TLAPS

(* Every number of a host the server may make, the empty key, the key of   *)
(* another machine and whatever the user may type are keys.                *)
LEMMA KeyFacts == /\ NoKey \in Keys /\ Foreign \in Keys
                  /\ \A k \in 0..MaxHosts : k \in Keys
                  /\ TypedKeys \subseteq Keys
  BY BoundAssumption, TypedAssumption DEF NoKey, Foreign, Keys

(* What a new request does to the list of replies. *)
LEMMA AppendReply ==
  ASSUME NEW s \in Seq(Replies), NEW r \in Replies, NEW n \in Nat, n = Len(s)
  PROVE  /\ Append(s, r) \in Seq(Replies)
         /\ Len(Append(s, r)) = n + 1
         /\ Append(s, r)[n + 1] = r
         /\ \A i \in 1..n : Append(s, r)[i] = s[i]
  OBVIOUS

(* What a change of one reply does to the list. *)
LEMMA ChangeReply ==
  ASSUME NEW s \in Seq(Replies), NEW r \in Replies,
         NEW n \in Nat, n = Len(s), NEW k \in 1..n,
         NEW t, t = [s EXCEPT ![k] = r]
  PROVE  /\ t \in Seq(Replies)
         /\ Len(t) = n
         /\ t[k] = r
         /\ \A i \in 1..n : i # k => t[i] = s[i]
  OBVIOUS
(* What slotRequestFinished does: it reads the last reply's body, if there *)
(* is any, and adopts its key, and leaves the other replies as they are.   *)
LEMMA SlotFacts ==
  ASSUME NEW n \in Nat, n = Len(reqs), n >= 1,
         NEW rs \in Seq(Replies), Len(rs) = n, slotRequestFinished(rs)
  PROVE  /\ reqs' \in Seq(Replies) /\ Len(reqs') = n
         /\ \A j \in 1..n : j # n => reqs'[j] = rs[j]
         /\ reqs'[n] = rs[n] \/ reqs'[n] = [rs[n] EXCEPT !.body = NoKey]
         /\ misread' = misread \/ (misread' = TRUE /\ rs[n].life = "deleted")
         /\ \/ UNCHANGED <<uuid, field, settings, client, origin>>
            \/ /\ rs[n].body # NoKey /\ rs[n].phase \in {"whole", "closed"}
               /\ Adopt(rs[n].body)
         /\ rs[n].life # "deleted" /\ rs[n].phase \in {"partial", "whole", "closed"}
              => reqs'[n] = [rs[n] EXCEPT !.body = NoKey]
         /\ (rs[n].life # "deleted" /\ rs[n].body # NoKey
             /\ rs[n].phase \in {"whole", "closed"})
              => Adopt(rs[n].body)
<1> DEFINE r == [rs[n] EXCEPT !.body = NoKey]
<1>1. n \in 1..n /\ rs[n] \in Replies
  OBVIOUS
<1>2. r \in Replies
  BY <1>1, KeyFacts DEF Replies
<1>3. reqs' = rs \/ reqs' = [rs EXCEPT ![n] = r]
  <2>1. CASE rs[n].life = "deleted"
    BY <2>1 DEF slotRequestFinished, m_reply
  <2>2. CASE rs[n].life # "deleted"
    BY <2>2 DEF slotRequestFinished, m_reply
  <2> QED
    BY <2>1, <2>2
<1>4. rs[n].life # "deleted" /\ rs[n].phase \in {"partial", "whole", "closed"}
        => reqs' = [rs EXCEPT ![n] = r]
  BY DEF slotRequestFinished, m_reply
<1>5. /\ misread' = misread \/ (misread' = TRUE /\ rs[n].life = "deleted")
      /\ \/ UNCHANGED <<uuid, field, settings, client, origin>>
         \/ /\ rs[n].body # NoKey /\ rs[n].phase \in {"whole", "closed"}
            /\ Adopt(rs[n].body)
      /\ (rs[n].life # "deleted" /\ rs[n].body # NoKey
          /\ rs[n].phase \in {"whole", "closed"})
           => Adopt(rs[n].body)
  <2>1. CASE rs[n].life = "deleted"
    BY <2>1 DEF slotRequestFinished, m_reply
  <2>2. CASE rs[n].life # "deleted"
    <3>1. UNCHANGED misread
      BY <2>2 DEF slotRequestFinished, m_reply
    <3>2. IF rs[n].phase \in {"whole", "closed"} /\ rs[n].body # NoKey
          THEN Adopt(rs[n].body)
          ELSE UNCHANGED <<uuid, field, settings, client, origin>>
      BY <2>2 DEF slotRequestFinished, m_reply
    <3> QED
      BY <2>2, <3>1, <3>2
  <2> QED
    BY <2>1, <2>2
<1> HIDE DEF r
<1>6. CASE reqs' = rs
  <2>1. rs[n].life # "deleted" /\ rs[n].phase \in {"partial", "whole", "closed"}
          => reqs'[n] = r
    BY <1>1, <1>2, <1>4, ChangeReply
  <2> QED
    BY <1>5, <1>6, <2>1 DEF r
<1>7. CASE reqs' = [rs EXCEPT ![n] = r]
  <2>1. /\ reqs' \in Seq(Replies) /\ Len(reqs') = n
        /\ reqs'[n] = r
        /\ \A j \in 1..n : j # n => reqs'[j] = rs[j]
    BY <1>1, <1>2, <1>7, ChangeReply
  <2> QED
    BY <1>5, <2>1 DEF r
<1> QED
  BY <1>3, <1>6, <1>7

(* A reply that is not the last one is left alone by slotRequestFinished.  *)
LEMMA SlotOthers ==
  ASSUME NEW n \in Nat, n = Len(reqs), n >= 1,
         NEW rs \in Seq(Replies), Len(rs) = n, slotRequestFinished(rs),
         NEW j \in 1..n, j # n
  PROVE  reqs'[j] = rs[j]
<1>1. \A k \in 1..n : k # n => reqs'[k] = rs[k]
  BY SlotFacts, Zenon
<1> QED
  BY <1>1

(* The end of one request, before slotRequestFinished is called.           *)
LEMMA FinishedFacts ==
  ASSUME NEW n \in Nat, n = Len(reqs), reqs \in Seq(Replies),
         NEW i \in 1..n,
         NEW rs, rs = [reqs EXCEPT ![i].phase = "closed"]
  PROVE  /\ rs \in Seq(Replies) /\ Len(rs) = n
         /\ rs[i] = [reqs[i] EXCEPT !.phase = "closed"]
         /\ \A j \in 1..n : j # i => rs[j] = reqs[j]
<1> DEFINE r == [reqs[i] EXCEPT !.phase = "closed"]
<1>1. r \in Replies
  <2>1. reqs[i] \in Replies
    OBVIOUS
  <2> QED
    BY <2>1 DEF Replies
<1>2. rs = [reqs EXCEPT ![i] = r]
  OBVIOUS
<1> HIDE DEF r
<1>3. /\ rs \in Seq(Replies) /\ Len(rs) = n
      /\ rs[i] = r
      /\ \A j \in 1..n : j # i => rs[j] = reqs[j]
  BY <1>1, <1>2, ChangeReply
<1> QED
  BY <1>3 DEF r
-----------------------------------------------------------------------------
(* The constructor with empty QSettings establishes the inductive          *)
(* invariant.                                                              *)
THEOREM InitIInv == Init => IInv
<1> SUFFICES ASSUME Init PROVE IInv
  OBVIOUS
<1> USE KeyFacts, BoundAssumption DEF Init
<1>1. <<>> \in Seq(Replies) /\ Len(<<>>) = 0
  OBVIOUS
<1>2. TypeOK
  <2>1. Len(reqs) <= MaxRequests /\ reqs \in Seq(Replies)
    BY <1>1
  <2>2. hosts \in 0..MaxHosts
    OBVIOUS
  <2> QED
    BY <2>1, <2>2 DEF TypeOK
<1>3. IdentityPersisted /\ ServerKeysAgree /\ PasswordKnown
  BY DEF IdentityPersisted, ServerKeysAgree, PasswordKnown
<1>4. OneOpen /\ KeyKnown
  BY <1>1 DEF OneOpen, KeyKnown, OpenAnswer, NoKey
<1> QED
  BY <1>2, <1>3, <1>4 DEF IInv

(* The identity part of the invariant depends on the replies only through  *)
(* a key that may be adopted.                                              *)
LEMMA AdoptKeys ==
  ASSUME NEW key \in Keys, Adopt(key)
  PROVE  /\ uuid' = key /\ field' = key
         /\ settings' = [uuid |-> key, pub |-> key]
         /\ client' = [jid |-> key, password |-> key]
         /\ origin' = "server"
         /\ IdentityPersisted' /\ ServerKeysAgree' /\ PasswordKnown'
  BY DEF Adopt, IdentityPersisted, ServerKeysAgree, PasswordKnown

(* A step that leaves the copies of the keys alone keeps what relates them. *)
LEMMA SameKeys ==
  ASSUME IdentityPersisted, ServerKeysAgree, PasswordKnown,
         UNCHANGED <<uuid, settings, client, origin>>, history \subseteq history'
  PROVE  IdentityPersisted' /\ ServerKeysAgree' /\ PasswordKnown'
  BY DEF IdentityPersisted, ServerKeysAgree, PasswordKnown

(* The end of a push handler leaves the saved key alone: it was Push's.    *)
LEMMA SyncKeys ==
  ASSUME TypeOK, IdentityPersisted, SyncUuid
  PROVE  field' = uuid /\ settings' = settings
<1>1. settings = [uuid |-> settings.uuid, pub |-> settings.pub]
  BY DEF TypeOK
<1> QED
  BY <1>1 DEF TypeOK, IdentityPersisted, SyncUuid

(* on_pushButton_push_clicked: a new request is the only open one unless   *)
(* it overlaps another.                                                    *)
LEMMA PushHttpIInv == IInv /\ PushHttp => IInv'
<1> SUFFICES ASSUME IInv, PushHttp PROVE IInv'
  OBVIOUS
<1> USE DEF IInv, PushHttp
<1> DEFINE n == Len(reqs)
<1>1. reqs \in Seq(Replies) /\ n \in Nat
  BY DEF TypeOK
<1>2. NewReply \in Replies /\ NewReply.phase = "sent" /\ NewReply.life = "owned"
      /\ NewReply.body = NoKey /\ NewReply.target = uuid
  BY KeyFacts DEF NewReply, Replies, TypeOK
<1>3. /\ reqs' \in Seq(Replies) /\ Len(reqs') = n + 1
      /\ reqs'[n + 1] = NewReply
      /\ \A i \in 1..n : reqs'[i] = reqs[i]
  BY <1>1, <1>2, AppendReply
<1>4. field' = uuid /\ settings' = settings
  BY SyncKeys
<1>5. history \subseteq history' /\ history' \subseteq history \cup {"overlap"}
  OBVIOUS
<1>6. IdentityPersisted' /\ ServerKeysAgree' /\ PasswordKnown'
  BY <1>4, <1>5, SameKeys
<1>7. TypeOK'
  BY <1>1, <1>3, <1>4, <1>5, BoundAssumption DEF TypeOK
<1>8. "overlap" \notin history' => "overlap" \notin history /\ ~InFlight
  OBVIOUS
<1>9. OneOpen'
  BY <1>1, <1>2, <1>3, <1>8 DEF OneOpen, InFlight
<1>10. KeyKnown'
  <2> SUFFICES ASSUME history' = {} PROVE KeyKnown'
    BY DEF KeyKnown
  <2>1. history = {} /\ ~InFlight
    BY <1>5, <1>8
  <2>2. ~OpenAnswer
    BY <1>1, <2>1 DEF OpenAnswer, InFlight
  <2> QED
    BY <1>1, <1>2, <1>3, <2>1, <2>2 DEF KeyKnown, NoKey
<1> QED
  BY <1>6, <1>7, <1>9, <1>10

(* on_pushButton_xmpp_clicked: a client that could log in knows the key,   *)
(* so the message it sends creates no second host.                         *)
LEMMA PushXmppIInv == IInv /\ PushXmpp => IInv'
<1> SUFFICES ASSUME IInv, PushXmpp PROVE IInv'
  OBVIOUS
<1> USE DEF IInv, PushXmpp
<1>1. field' = uuid /\ settings' = settings
  BY SyncKeys
<1>2. IdentityPersisted' /\ ServerKeysAgree' /\ PasswordKnown'
  BY <1>1, SameKeys
<1>3. hosts' \in 0..MaxHosts
  BY BoundAssumption DEF TypeOK
<1>4. TypeOK'
  BY <1>1, <1>3 DEF TypeOK
<1>5. OneOpen'
  BY DEF OneOpen
<1>6. history = {} => hosts' = hosts
  <2> SUFFICES ASSUME history = {}, uuid = NoKey, LoggedIn PROVE FALSE
    OBVIOUS
  <2>1. client.password = 0 /\ client.password \in 1..hosts
    BY DEF PasswordKnown, LoggedIn, NoKey
  <2> QED
    BY <2>1 DEF TypeOK
<1>7. KeyKnown'
  BY <1>6 DEF KeyKnown, OpenAnswer
<1> QED
  BY <1>2, <1>4, <1>5, <1>7
(* A step that changes one open reply, and nothing else the user sees.     *)
LEMMA OneReply ==
  ASSUME TypeOK, NEW i \in 1..Len(reqs), NEW r \in Replies,
         reqs' = [reqs EXCEPT ![i] = r]
  PROVE  /\ reqs' \in Seq(Replies) /\ Len(reqs') = Len(reqs)
         /\ reqs'[i] = r
         /\ \A j \in 1..Len(reqs) : j # i => reqs'[j] = reqs[j]
<1> DEFINE n == Len(reqs)
<1>1. n \in Nat /\ reqs \in Seq(Replies) /\ i \in 1..n
  BY DEF TypeOK
<1> QED
  BY <1>1, ChangeReply

(* While nothing has happened that may cost the identity, an open reply is *)
(* the last one.                                                           *)
LEMMA OpenIsLast ==
  ASSUME IInv, NEW i \in 1..Len(reqs), reqs[i].phase # "closed",
         "overlap" \notin history
  PROVE  i = Len(reqs) /\ OpenAnswer /\ reqs[i].life = "owned"
<1> DEFINE n == Len(reqs)
<1>1. n \in Nat /\ i \in 1..n
  BY DEF IInv, TypeOK
<1>2. ~(i < n) /\ reqs[i].life = "owned"
  BY <1>1 DEF IInv, OneOpen
<1> QED
  BY <1>1, <1>2 DEF OpenAnswer

(* The server answers a request.                                           *)
LEMMA ServeIInv ==
  ASSUME IInv, NEW i \in 1..Len(reqs), Serve(i)
  PROVE  IInv'
<1> USE DEF IInv
<1> DEFINE n == Len(reqs)
<1>1. n \in Nat /\ i \in 1..n /\ reqs[i] \in Replies /\ hosts \in 0..MaxHosts
  BY DEF TypeOK
<1>2. PICK body \in Keys :
        /\ reqs' = [reqs EXCEPT ![i] = [reqs[i] EXCEPT !.phase = "answered", !.body = body]]
        /\ \/ reqs[i].target = NoKey /\ hosts < MaxHosts /\ hosts' = hosts + 1 /\ body = hosts + 1
           \/ reqs[i].target \in 1..hosts /\ hosts' = hosts /\ body = reqs[i].target
           \/ hosts' = hosts /\ body = reqs[i].body
  <2>1. reqs[i].body \in Keys /\ reqs[i].target \in Keys
    BY <1>1 DEF Replies
  <2>2. hosts < MaxHosts => hosts + 1 \in Keys
    BY <1>1, BoundAssumption DEF Keys
  <2>3. CASE /\ reqs[i].target = NoKey /\ hosts < MaxHosts
             /\ hosts' = hosts + 1
             /\ reqs' = [reqs EXCEPT ![i].phase = "answered", ![i].body = hosts + 1]
    BY <2>2, <2>3
  <2>4. CASE /\ reqs[i].target \in 1..hosts
             /\ reqs' = [reqs EXCEPT ![i].phase = "answered", ![i].body = reqs[i].target]
             /\ UNCHANGED hosts
    BY <2>1, <2>4
  <2>5. CASE /\ reqs' = [reqs EXCEPT ![i].phase = "answered"]
             /\ UNCHANGED hosts
    BY <1>1, <2>1, <2>5 DEF Replies
  <2> QED
    BY <2>3, <2>4, <2>5 DEF Serve
<1> DEFINE r == [reqs[i] EXCEPT !.phase = "answered", !.body = body]
<1>3. /\ r \in Replies /\ r.phase = "answered" /\ r.body = body
      /\ r.target = reqs[i].target /\ r.life = reqs[i].life
  BY <1>1, <1>2 DEF Replies
<1> HIDE DEF r
<1>4. /\ reqs' \in Seq(Replies) /\ Len(reqs') = n
      /\ reqs'[i] = r
      /\ \A j \in 1..n : j # i => reqs'[j] = reqs[j]
  BY <1>2, <1>3, OneReply DEF r
<1>5. /\ UNCHANGED <<uuid, field, settings, client, origin, history, misread>>
      /\ reqs[i].phase = "sent"
  BY DEF Serve
<1>6. IdentityPersisted' /\ ServerKeysAgree' /\ PasswordKnown'
  BY <1>5, SameKeys
<1>7. TypeOK'
  <2>1. hosts' \in 0..MaxHosts
    BY <1>1, <1>2, BoundAssumption
  <2> QED
    BY <1>4, <1>5, <2>1 DEF TypeOK
<1>8. OneOpen'
  BY <1>1, <1>3, <1>4, <1>5, OpenIsLast DEF OneOpen
<1>9. KeyKnown'
  <2> SUFFICES ASSUME history = {} PROVE KeyKnown'
    BY <1>5 DEF KeyKnown
  <2>1. i = n /\ OpenAnswer
    BY <1>5, OpenIsLast
  <2>2. /\ reqs[n].body = NoKey /\ reqs[n].target = uuid
        /\ hosts = 1 => uuid = 1
        /\ hosts \in {0, 1} /\ uuid \in {0, hosts}
    BY <1>1, <1>5, <2>1 DEF KeyKnown, NoKey
  <2>3. /\ hosts' \in {0, 1} /\ uuid \in {0, hosts'}
        /\ body \in {NoKey, hosts'}
        /\ hosts' = 1 /\ uuid # 1 => body = 1
    BY <1>1, <1>2, <2>1, <2>2 DEF NoKey
  <2>4. \A j \in 1..n : j # n => reqs'[j] = reqs[j] /\ reqs[j].phase = "closed"
                                /\ reqs[j].body = NoKey
    BY <1>1, <1>4, <2>1 DEF OneOpen, KeyKnown
  <2>5. OpenAnswer'
    BY <1>1, <1>3, <1>4, <2>1 DEF OpenAnswer
  <2>6. reqs'[n].target = uuid /\ reqs'[n].body = body /\ reqs'[n].phase = "answered"
    BY <1>3, <1>4, <2>1, <2>2
  <2> QED
    BY <1>1, <1>4, <1>5, <2>3, <2>4, <2>5, <2>6 DEF KeyKnown
<1> QED
  BY <1>6, <1>7, <1>8, <1>9

(* A part of an answer arrives.                                            *)
LEMMA ArriveIInv ==
  ASSUME IInv, NEW i \in 1..Len(reqs), Arrive(i)
  PROVE  IInv'
<1> USE DEF IInv
<1> DEFINE n == Len(reqs)
<1>1. n \in Nat /\ i \in 1..n /\ reqs[i] \in Replies
  BY DEF TypeOK
<1>2. PICK p \in {"partial", "whole"} : reqs' = [reqs EXCEPT ![i] = [reqs[i] EXCEPT !.phase = p]]
  BY DEF Arrive
<1> DEFINE r == [reqs[i] EXCEPT !.phase = p]
<1>3. /\ r \in Replies /\ r.phase = p /\ r.body = reqs[i].body
      /\ r.target = reqs[i].target /\ r.life = reqs[i].life
  BY <1>1, <1>2 DEF Replies
<1> HIDE DEF r
<1>4. /\ reqs' \in Seq(Replies) /\ Len(reqs') = n
      /\ reqs'[i] = r
      /\ \A j \in 1..n : j # i => reqs'[j] = reqs[j]
  BY <1>2, <1>3, OneReply DEF r
<1>5. /\ UNCHANGED <<uuid, field, settings, client, hosts, origin, history, misread>>
      /\ reqs[i].phase \in {"answered", "partial"}
  BY DEF Arrive
<1>6. IdentityPersisted' /\ ServerKeysAgree' /\ PasswordKnown'
  BY <1>5, SameKeys
<1>7. TypeOK'
  BY <1>1, <1>4, <1>5 DEF TypeOK
<1>8. OneOpen'
  BY <1>1, <1>3, <1>4, <1>5, OpenIsLast DEF OneOpen
<1>9. KeyKnown'
  <2> SUFFICES ASSUME history = {} PROVE KeyKnown'
    BY <1>5 DEF KeyKnown
  <2>1. i = n /\ OpenAnswer
    BY <1>5, OpenIsLast
  <2>2. OpenAnswer'
    BY <1>1, <1>3, <1>4, <2>1 DEF OpenAnswer
  <2> QED
    BY <1>1, <1>3, <1>4, <1>5, <2>1, <2>2 DEF KeyKnown
<1> QED
  BY <1>6, <1>7, <1>8, <1>9
-----------------------------------------------------------------------------
(* The end of a request i that leaves rs[i] closed, and what follows of it. *)
LEMMA EndIInv ==
  ASSUME IInv, NEW i \in 1..Len(reqs), reqs[i].phase # "closed",
         NEW rs \in Seq(Replies), Len(rs) = Len(reqs),
         rs[i].phase = "closed", reqs[i].life = "owned" => rs[i].life # "deleted",
         \A j \in 1..Len(reqs) : j # i => rs[j] = reqs[j],
         slotRequestFinished(rs), UNCHANGED hosts,
         history \subseteq history', "overlap" \in history' => "overlap" \in history,
         history' \subseteq {"overlap", "loss", "edit"},
         history' = {} => rs[i].body = reqs[i].body
  PROVE  IInv'
<1> USE DEF IInv
<1> DEFINE n == Len(reqs)
<1>1. n \in Nat /\ i \in 1..n /\ n >= 1 /\ Len(rs) = n
  BY DEF TypeOK
<1>2. rs[n] \in Replies
  BY <1>1
<1> HIDE DEF n
<1>a. n = Len(reqs)
  BY DEF n
<1>b. /\ reqs' \in Seq(Replies) /\ Len(reqs') = n
      /\ \A j \in 1..n : j # n => reqs'[j] = rs[j]
      /\ reqs'[n] = rs[n] \/ reqs'[n] = [rs[n] EXCEPT !.body = NoKey]
      /\ misread' = misread \/ (misread' = TRUE /\ rs[n].life = "deleted")
  <2>1. reqs' \in Seq(Replies) /\ Len(reqs') = n
    BY <1>1, <1>a, SlotFacts
  <2>4. misread' = misread \/ (misread' = TRUE /\ rs[n].life = "deleted")
    BY <1>1, <1>a, SlotFacts, Zenon
  <2>2. ASSUME NEW j \in 1..n, j # n PROVE reqs'[j] = rs[j]
    BY <1>1, <1>a, <2>2, SlotOthers
  <2>3. reqs'[n] = rs[n] \/ reqs'[n] = [rs[n] EXCEPT !.body = NoKey]
    BY <1>1, <1>a, SlotFacts
  <2> QED
    BY <2>1, <2>2, <2>3, <2>4
<1>c. \/ UNCHANGED <<uuid, field, settings, client, origin>>
      \/ rs[n].body # NoKey /\ Adopt(rs[n].body)
  BY <1>1, <1>a, SlotFacts
<1>d. rs[n].life # "deleted" /\ rs[n].phase = "closed"
        => /\ reqs'[n] = [rs[n] EXCEPT !.body = NoKey]
           /\ rs[n].body # NoKey => Adopt(rs[n].body)
  BY <1>1, <1>a, SlotFacts
<1>4. reqs'[n].phase = rs[n].phase /\ reqs'[n].life = rs[n].life
  BY <1>2, <1>b DEF Replies
<1>5. rs[n].body \in Keys
  BY <1>2 DEF Replies
<1>6. IdentityPersisted' /\ ServerKeysAgree' /\ PasswordKnown'
  BY <1>c, <1>5, AdoptKeys, SameKeys
<1>7. /\ uuid' \in Keys /\ field' \in Keys /\ origin' \in {"nobody", "server", "user"}
      /\ settings' \in [uuid : Keys, pub : Keys]
      /\ client' \in [jid : Keys, password : Keys]
  BY <1>c, <1>5, AdoptKeys DEF TypeOK
<1>8. TypeOK'
  BY <1>1, <1>a, <1>b, <1>7 DEF TypeOK
<1>9. "overlap" \notin history => i = n /\ reqs[i].life = "owned"
  BY <1>a, OpenIsLast
<1>10. OneOpen'
  <2> SUFFICES ASSUME "overlap" \notin history PROVE OneOpen'
    BY DEF OneOpen
  <2>1. i = n /\ rs[n].phase = "closed" /\ rs[n].life # "deleted"
    BY <1>9
  <2>2. \A j \in 1..n : j # n => reqs'[j] = reqs[j]
    BY <1>b, <1>a, <2>1
  <2> QED
    BY <1>1, <1>a, <1>b, <1>4, <2>1, <2>2 DEF OneOpen
<1>11. KeyKnown'
  <2> SUFFICES ASSUME history' = {} PROVE KeyKnown'
    BY DEF KeyKnown
  <2>1. /\ history = {} /\ i = n /\ OpenAnswer
        /\ rs[n].phase = "closed" /\ rs[n].life # "deleted"
        /\ rs[n].body = reqs[n].body
    BY <1>9, <1>a, OpenIsLast
  <2>2. /\ reqs'[n] = [rs[n] EXCEPT !.body = NoKey]
        /\ rs[n].body # NoKey => Adopt(rs[n].body)
    BY <1>d, <2>1
  <2>3. reqs'[n].body = NoKey /\ reqs'[n].phase = "closed"
    BY <1>2, <2>1, <2>2 DEF Replies
  <2>4. ~OpenAnswer'
    BY <1>b, <2>3 DEF OpenAnswer
  <2>5. \A j \in 1..n : j # n => reqs'[j] = reqs[j] /\ reqs[j].phase = "closed"
                                /\ reqs[j].body = NoKey
    BY <1>1, <1>a, <1>b, <2>1 DEF OneOpen, KeyKnown
  <2>6. /\ hosts \in {0, 1} /\ uuid \in {0, hosts} /\ rs[n].body \in {0, hosts}
        /\ hosts = 1 /\ uuid # 1 => rs[n].body = 1
    BY <1>1, <1>a, <2>1 DEF KeyKnown, NoKey
  <2>7. uuid' \in {0, hosts} /\ (hosts = 1 => uuid' = 1)
    <3>1. CASE rs[n].body = 0
      BY <1>c, <2>6, <3>1 DEF NoKey
    <3>2. CASE rs[n].body # 0
      BY <2>2, <2>6, <3>2, <1>5, AdoptKeys DEF NoKey
    <3> QED
      BY <3>1, <3>2
  <2> QED
    BY <1>1, <1>b, <2>3, <2>4, <2>5, <2>6, <2>7 DEF KeyKnown
<1> QED
  BY <1>6, <1>8, <1>10, <1>11

(* A request finishes: its answer was whole.                               *)
LEMMA FinishedIInv ==
  ASSUME IInv, NEW i \in 1..Len(reqs), Finished(i)
  PROVE  IInv'
<1> DEFINE rs == [reqs EXCEPT ![i].phase = "closed"]
           n == Len(reqs)
<1>1. n \in Nat /\ reqs \in Seq(Replies) /\ reqs[i] \in Replies /\ i \in 1..n
  BY DEF IInv, TypeOK
<1>n. n = Len(reqs)
  OBVIOUS
<1> HIDE DEF n
<1>2. /\ rs \in Seq(Replies) /\ Len(rs) = Len(reqs)
      /\ rs[i] = [reqs[i] EXCEPT !.phase = "closed"]
      /\ \A j \in 1..Len(reqs) : j # i => rs[j] = reqs[j]
  <2>1. /\ rs \in Seq(Replies) /\ Len(rs) = n
        /\ rs[i] = [reqs[i] EXCEPT !.phase = "closed"]
    BY <1>1, <1>n, FinishedFacts
  <2>2. \A j \in 1..n : j # i => rs[j] = reqs[j]
    BY <1>1, <1>n, FinishedFacts
  <2> QED
    BY <1>n, <2>1, <2>2
<1>3. rs[i].phase = "closed" /\ rs[i].life = reqs[i].life /\ rs[i].body = reqs[i].body
  BY <1>1, <1>2 DEF Replies
<1>4. /\ reqs[i].phase # "closed" /\ slotRequestFinished(rs)
      /\ UNCHANGED <<hosts, history>> /\ history \subseteq {"overlap", "loss", "edit"}
  BY DEF Finished, IInv, TypeOK
<1> HIDE DEF rs
<1> QED
  BY <1>2, <1>3, <1>4, EndIInv

(* A request fails: its body is lost, and its reply may be doomed.         *)
LEMMA FailIInv ==
  ASSUME IInv, NEW i \in 1..Len(reqs), NEW code, Fail(i, code)
  PROVE  IInv'
<1> DEFINE life == IF code = "other" THEN reqs[i].life ELSE "doomed"
           r == [reqs[i] EXCEPT !.phase = "closed", !.body = NoKey, !.life = life]
           rs == [reqs EXCEPT ![i] = r]
<1>1. Len(reqs) \in Nat /\ reqs \in Seq(Replies) /\ reqs[i] \in Replies
  BY DEF IInv, TypeOK
<1>2. r \in Replies /\ r.phase = "closed" /\ r.life = life
  BY <1>1, KeyFacts DEF Replies
<1>3. /\ reqs[i].phase # "closed" /\ history' = history \cup {"loss"}
      /\ UNCHANGED hosts /\ history \subseteq {"overlap", "loss", "edit"}
  BY DEF Fail, IInv, TypeOK
<1>4. slotRequestFinished(rs)
  <2>1. rs = [reqs EXCEPT ![i].phase = "closed", ![i].body = NoKey, ![i].life = life]
    BY <1>1 DEF Replies
  <2>2. rs = [reqs EXCEPT ![i].phase = "closed", ![i].body = NoKey,
                          ![i].life = IF code = "other" THEN @ ELSE "doomed"]
    BY <2>1
  <2> QED
    BY <2>2 DEF Fail
<1>5. reqs[i].life = "owned" => life # "deleted"
  OBVIOUS
<1> HIDE DEF r, life
<1>6. /\ rs \in Seq(Replies) /\ Len(rs) = Len(reqs)
      /\ rs[i] = r
      /\ \A j \in 1..Len(reqs) : j # i => rs[j] = reqs[j]
  BY <1>1, <1>2, ChangeReply
<1> HIDE DEF rs
<1>7. history' # {} /\ history \subseteq history' /\ history' \subseteq {"overlap", "loss", "edit"}
      /\ ("overlap" \in history' => "overlap" \in history)
  BY <1>3
<1> QED
  BY <1>2, <1>3, <1>4, <1>5, <1>6, <1>7, EndIInv

(* The event loop deletes a doomed reply: it was closed already.           *)
LEMMA ReapIInv ==
  ASSUME IInv, NEW i \in 1..Len(reqs), Reap(i)
  PROVE  IInv'
<1> USE DEF IInv
<1> DEFINE n == Len(reqs)
           r == [reqs[i] EXCEPT !.life = "deleted"]
<1>1. n \in Nat /\ i \in 1..n /\ reqs[i] \in Replies
  BY DEF TypeOK
<1>2. /\ r \in Replies /\ r.phase = reqs[i].phase /\ r.body = reqs[i].body
      /\ r.target = reqs[i].target
  BY <1>1 DEF Replies
<1>3. /\ UNCHANGED <<uuid, field, settings, client, hosts, origin, history, misread>>
      /\ reqs[i].life = "doomed" /\ reqs' = [reqs EXCEPT ![i] = r]
  BY DEF Reap
<1> HIDE DEF r
<1>4. /\ reqs' \in Seq(Replies) /\ Len(reqs') = n
      /\ reqs'[i] = r
      /\ \A j \in 1..n : j # i => reqs'[j] = reqs[j]
  BY <1>2, <1>3, OneReply
<1>5. IdentityPersisted' /\ ServerKeysAgree' /\ PasswordKnown'
  BY <1>3, SameKeys
<1>6. TypeOK'
  BY <1>1, <1>3, <1>4 DEF TypeOK
<1>7. "overlap" \notin history => reqs[i].phase = "closed"
  BY <1>3, OpenIsLast
<1>8. OneOpen'
  BY <1>1, <1>2, <1>3, <1>4, <1>7 DEF OneOpen
<1>9. KeyKnown'
  <2>1. \A j \in 1..n : /\ reqs'[j].phase = reqs[j].phase
                        /\ reqs'[j].body = reqs[j].body
                        /\ reqs'[j].target = reqs[j].target
    BY <1>2, <1>4
  <2> HIDE DEF IInv
  <2>2. KeyKnown
    BY DEF IInv
  <2>3. /\ OpenAnswer' <=> OpenAnswer
        /\ OpenAnswer => /\ reqs'[n].target = reqs[n].target
                         /\ reqs'[n].body = reqs[n].body
    BY <1>1, <1>4, <2>1 DEF OpenAnswer
  <2>4. 1..Len(reqs') = 1..n
    BY <1>4
  <2> SUFFICES ASSUME history = {} PROVE KeyKnown'
    BY <1>3 DEF KeyKnown
  <2>5. \A j \in 1..n : /\ reqs'[j].phase \in {"sent", "closed"} => reqs'[j].body = NoKey
                        /\ reqs'[j].body \in {NoKey, hosts}
    BY <2>1, <2>2 DEF KeyKnown
  <2>6. /\ hosts \in {0, 1} /\ uuid \in {0, hosts}
        /\ OpenAnswer => reqs[n].target = uuid
        /\ hosts = 1 /\ uuid # 1 => OpenAnswer /\ reqs[n].body = 1
    BY <2>2 DEF KeyKnown
  <2> QED
    BY <1>3, <1>4, <2>3, <2>4, <2>5, <2>6 DEF KeyKnown
<1> QED
  BY <1>5, <1>6, <1>8, <1>9

(* The user types into the uuid field.                                     *)
LEMMA TypeIInv ==
  ASSUME IInv, NEW key \in TypedKeys, Type(key)
  PROVE  IInv'
<1> USE DEF IInv
<1>1. /\ UNCHANGED <<uuid, settings, client, reqs, hosts, origin, history, misread>>
      /\ field' \in Keys
  BY KeyFacts DEF Type
<1>2. IdentityPersisted' /\ ServerKeysAgree' /\ PasswordKnown'
  BY <1>1, SameKeys
<1>3. TypeOK'
  BY <1>1 DEF TypeOK
<1>4. OneOpen'
  BY <1>1 DEF OneOpen
<1>5. KeyKnown'
  BY <1>1 DEF KeyKnown, OpenAnswer
<1> QED
  BY <1>2, <1>3, <1>4, <1>5

(* The user leaves the uuid field.                                         *)
LEMMA EditIInv == IInv /\ on_lineEdit_uuid_editingFinished => IInv'
<1> SUFFICES ASSUME IInv, on_lineEdit_uuid_editingFinished PROVE IInv'
  OBVIOUS
<1> USE DEF IInv, on_lineEdit_uuid_editingFinished
<1>1. settings = [uuid |-> settings.uuid, pub |-> settings.pub] /\ field \in Keys
      /\ settings.pub \in Keys
  BY DEF TypeOK
<1>2. /\ settings' \in [uuid : Keys, pub : Keys] /\ settings'.uuid = field
      /\ settings'.pub = settings.pub
  BY <1>1
<1>3. IdentityPersisted'
  BY <1>2 DEF IdentityPersisted
<1>4. TypeOK'
  <2>1. origin' \in {"nobody", "server", "user"} /\ history' \subseteq {"overlap", "loss", "edit"}
    BY DEF TypeOK
  <2> QED
    BY <1>1, <1>2, <2>1 DEF TypeOK
<1>5. OneOpen'
  BY DEF OneOpen
<1>6. CASE field = uuid
  BY <1>2, <1>3, <1>4, <1>5, <1>6 DEF ServerKeysAgree, PasswordKnown, KeyKnown, OpenAnswer
<1>7. CASE field # uuid
  <2>1. origin' = "user" /\ "edit" \in history'
    BY <1>7
  <2> QED
    BY <1>3, <1>4, <1>5, <2>1 DEF ServerKeysAgree, PasswordKnown, KeyKnown
<1> QED
  BY <1>6, <1>7

(* Two integers that bound each other are equal.                           *)
LEMMA Squeeze ==
  ASSUME NEW a \in Int, NEW b \in Int, a <= b, b - a <= 0
  PROVE  b = a
  OBVIOUS

(* The program is launched again: the saved key is the known one.          *)
LEMMA RestartIInv == IInv /\ Restart => IInv'
<1> SUFFICES ASSUME IInv, Restart PROVE IInv'
  OBVIOUS
<1> USE DEF IInv
<1> DEFINE unserved == {i \in 1..Len(reqs) : reqs[i].phase = "sent" /\ reqs[i].target = NoKey}
<1>1. /\ reqs' = <<>> /\ Len(reqs') = 0 /\ reqs' \in Seq(Replies)
      /\ uuid' = settings.uuid /\ field' = settings.uuid
      /\ client' = [jid |-> settings.pub, password |-> settings.uuid]
      /\ history' = IF InFlight THEN history \cup {"loss"} ELSE history
      /\ UNCHANGED <<settings, origin, misread>>
      /\ hosts' \in hosts..MaxHosts /\ hosts' - hosts <= Cardinality(unserved)
  BY DEF Restart
<1> HIDE DEF unserved
<1>2. settings.uuid = uuid /\ settings.uuid \in Keys /\ settings.pub \in Keys
  BY DEF IdentityPersisted, TypeOK
<1>3. hosts \in 0..MaxHosts /\ MaxRequests \in Nat /\ MaxHosts \in Nat
  BY BoundAssumption DEF TypeOK
<1>4. TypeOK'
  <2>1. hosts' \in 0..MaxHosts /\ Len(reqs') <= MaxRequests
    BY <1>1, <1>3
  <2>2. history' \subseteq {"overlap", "loss", "edit"}
    BY <1>1 DEF TypeOK
  <2> QED
    BY <1>1, <1>2, <2>1, <2>2 DEF TypeOK
<1>5. IdentityPersisted' /\ ServerKeysAgree' /\ PasswordKnown'
  BY <1>1, <1>2 DEF IdentityPersisted, ServerKeysAgree, PasswordKnown
<1>6. OneOpen'
  BY <1>1 DEF OneOpen
<1>7. KeyKnown'
  <2> SUFFICES ASSUME history' = {} PROVE KeyKnown'
    BY DEF KeyKnown
  <2>1. history = {} /\ ~InFlight
    BY <1>1
  <2>2. unserved = {}
    BY <2>1 DEF InFlight, unserved
  <2>3. Cardinality(unserved) = 0
    BY <2>2, FS_EmptySet
  <2>4. hosts' = hosts
    <3>1. hosts' \in hosts..MaxHosts /\ hosts' - hosts <= 0
      BY <1>1, <2>3
    <3>2. hosts \in Int /\ hosts' \in Int /\ hosts <= hosts'
      BY <1>3, <3>1
    <3> QED
      BY <3>1, <3>2, Squeeze
  <2>5. ~OpenAnswer
    BY <2>1 DEF OpenAnswer, InFlight, TypeOK
  <2>6. ~OpenAnswer'
    BY <1>1 DEF OpenAnswer
  <2> QED
    BY <1>1, <1>2, <2>1, <2>4, <2>5, <2>6 DEF KeyKnown
<1> QED
  BY <1>4, <1>5, <1>6, <1>7
-----------------------------------------------------------------------------
(* Every step keeps the inductive invariant.                               *)
THEOREM NextIInv == IInv /\ [Next]_vars => IInv'
<1> SUFFICES ASSUME IInv, [Next]_vars PROVE IInv'
  OBVIOUS
<1>1. CASE PushHttp
  BY <1>1, PushHttpIInv
<1>2. CASE PushXmpp
  BY <1>2, PushXmppIInv
<1>3. ASSUME NEW i \in 1..Len(reqs), Serve(i) PROVE IInv'
  BY <1>3, ServeIInv
<1>4. ASSUME NEW i \in 1..Len(reqs), Arrive(i) PROVE IInv'
  BY <1>4, ArriveIInv
<1>5. ASSUME NEW i \in 1..Len(reqs), Finished(i) PROVE IInv'
  BY <1>5, FinishedIInv
<1>6. ASSUME NEW i \in 1..Len(reqs), NEW code \in {"freeing", "other"}, Fail(i, code)
      PROVE  IInv'
  BY <1>6, FailIInv
<1>7. ASSUME NEW i \in 1..Len(reqs), Reap(i) PROVE IInv'
  BY <1>7, ReapIInv
<1>8. ASSUME NEW key \in TypedKeys, Type(key) PROVE IInv'
  BY <1>8, TypeIInv
<1>9. CASE on_lineEdit_uuid_editingFinished
  BY <1>9, EditIInv
<1>10. CASE Restart
  BY <1>10, RestartIInv
<1>11. CASE UNCHANGED vars
  BY <1>11 DEF vars, IInv, TypeOK, IdentityPersisted, ServerKeysAgree, OneOpen,
               KeyKnown, OpenAnswer, PasswordKnown
<1> QED
  BY <1>1, <1>2, <1>3, <1>4, <1>5, <1>6, <1>7, <1>8, <1>9, <1>10, <1>11 DEF Next

(* The inductive invariant holds in every reachable state.                 *)
THEOREM Invariance == Spec => []IInv
  BY InitIInv, NextIInv, PTL DEF Spec

(* Keys, requests and replies keep their types.                            *)
THEOREM TypeCorrect == Spec => []TypeOK
<1>1. IInv => TypeOK
  BY DEF IInv
<1> QED
  BY <1>1, Invariance, PTL

(* What a launch would read back is what the process uses.                 *)
THEOREM Persistence == Spec => []IdentityPersisted
<1>1. IInv => IdentityPersisted
  BY DEF IInv
<1> QED
  BY <1>1, Invariance, PTL

(* The two keys of a reply stay together in all their copies.              *)
THEOREM Agreement == Spec => []ServerKeysAgree
<1>1. IInv => ServerKeysAgree
  BY DEF IInv
<1> QED
  BY <1>1, Invariance, PTL

(* No deleted reply is read before two requests have overlapped.           *)
THEOREM MemorySafety == Spec => []NoUseAfterFree
<1>1. IInv => NoUseAfterFree
  BY DEF IInv, OneOpen, NoUseAfterFree
<1> QED
  BY <1>1, Invariance, PTL

(* A machine that loses nothing, overlaps nothing and is not edited is one *)
(* host, and knows its key whenever nothing is in flight.                  *)
THEOREM OneHost == Spec => []SingleHost
<1>1. IInv => SingleHost
  <2> SUFFICES ASSUME IInv, history = {} PROVE SingleHost
    BY DEF SingleHost
  <2>1. /\ hosts \in {0, 1}
        /\ hosts = 1 /\ uuid # 1 => OpenAnswer
    BY DEF IInv, KeyKnown
  <2>2. OpenAnswer => InFlight
    BY DEF OpenAnswer, InFlight, IInv, TypeOK
  <2> QED
    BY <2>1, <2>2 DEF SingleHost
<1> QED
  BY <1>1, Invariance, PTL

(* A reply that ends while nothing has been lost brings the known key.     *)
LEMMA FinishedSticks ==
  ASSUME IInv, NEW i \in 1..Len(reqs), Finished(i), history' = {}, uuid # NoKey
  PROVE  uuid' = uuid
<1> DEFINE rs == [reqs EXCEPT ![i].phase = "closed"]
           n == Len(reqs)
<1>1. n \in Nat /\ reqs \in Seq(Replies) /\ reqs[i] \in Replies /\ i \in 1..n /\ n >= 1
  BY DEF IInv, TypeOK
<1>2. n = Len(reqs)
  OBVIOUS
<1>3. history = {} /\ slotRequestFinished(rs) /\ reqs[i].phase = "whole"
  BY DEF Finished
<1>4. i = n
  BY <1>3, OpenIsLast
<1> HIDE DEF n
<1>5. rs \in Seq(Replies) /\ Len(rs) = n /\ rs[n].body = reqs[n].body
  <2>1. /\ rs \in Seq(Replies) /\ Len(rs) = n
        /\ rs[i] = [reqs[i] EXCEPT !.phase = "closed"]
    BY <1>1, <1>2, FinishedFacts
  <2> QED
    BY <1>1, <1>4, <2>1 DEF Replies
<1> HIDE DEF rs
<1>6. \/ uuid' = uuid
      \/ rs[n].body # NoKey /\ Adopt(rs[n].body)
  BY <1>1, <1>2, <1>3, <1>5, SlotFacts
<1>7. hosts \in {0, 1} /\ uuid \in {0, hosts} /\ reqs[n].body \in {NoKey, hosts}
  BY <1>1, <1>2, <1>3 DEF IInv, KeyKnown
<1> QED
  BY <1>5, <1>6, <1>7 DEF Adopt, NoKey

(* Of all steps only a reply or the user could change an adopted identity. *)
LEMMA StickStep ==
  IInv /\ [Next]_vars => [history' = {} /\ uuid # NoKey => uuid' = uuid]_vars
<1> SUFFICES ASSUME IInv, [Next]_vars, history' = {}, uuid # NoKey
             PROVE  uuid' = uuid
  OBVIOUS
<1>1. CASE \/ PushHttp \/ PushXmpp \/ UNCHANGED vars
           \/ \E i \in 1..Len(reqs) : Serve(i) \/ Arrive(i) \/ Reap(i)
           \/ \E key \in TypedKeys : Type(key)
  BY <1>1 DEF PushHttp, PushXmpp, Serve, Arrive, Reap, Type, vars
<1>2. CASE on_lineEdit_uuid_editingFinished
  BY <1>2 DEF on_lineEdit_uuid_editingFinished
<1>3. CASE Restart
  BY <1>3 DEF Restart, IInv, IdentityPersisted
<1>4. ASSUME NEW i \in 1..Len(reqs), NEW code, Fail(i, code) PROVE uuid' = uuid
  BY <1>4 DEF Fail
<1>5. ASSUME NEW i \in 1..Len(reqs), Finished(i) PROVE uuid' = uuid
  BY <1>5, FinishedSticks
<1> QED
  BY <1>1, <1>2, <1>3, <1>4, <1>5 DEF Next

(* Under the same conditions the identity, once adopted, never changes.    *)
THEOREM Sticking == Spec => IdentitySticks
  BY StickStep, Invariance, PTL DEF Spec, IdentitySticks
=============================================================================
