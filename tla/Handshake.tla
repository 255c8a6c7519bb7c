------------------------------ MODULE Handshake ------------------------------
(***************************************************************************)
(* The handshake that is one phase of XmppLink, extended here: what client *)
(* and server say to each other from the connected socket to the session,  *)
(* over an ordered connection that may break, and what the client keeps    *)
(* from one connection to the next.                                        *)
(*                                                                         *)
(* The client logs in by SASL (DIGEST-MD5, or the first mechanism it knows,*)
(* which takes one message), or, when the server is older or offers it     *)
(* alone, by the query of XEP-0078.  The configuration is the default one: *)
(* TLS when it is offered, SASL before non-SASL, digests before passwords. *)
(* Ids of requests are left out: an answer is matched with its request.    *)
(* The server is external: it follows the protocol, and may turn down      *)
(* whatever it is asked.                                                   *)
(***************************************************************************)
EXTENDS XmppLink, Naturals, Sequences

CONSTANT Servers      \* the servers a look-up may name

Queries == {"digestfields", "plainfields", "nofields"}
ServerKinds ==
  [version : BOOLEAN,  \* its streams have a version: XMPP 1.0
   tls     : BOOLEAN,  \* it offers TLS
   auth    : {"digest", "plain", "unknown"} \cup Queries,
                       \* the mechanism it offers, or what it lets a query use
   login   : {"session", "nosession", "norights", "nobind"}]
                       \* offers sessions, or none; refuses a session, or binding

ASSUME ServersAssumption ==
  /\ Servers # {} /\ Servers \subseteq ServerKinds
  /\ \A s \in Servers : ~s.version => ~s.tls /\ s.auth \in Queries

VARIABLES
  server,           \* the one this connection leads to
  phase,            \* how far the server is
  tls,              \* the client's socket: "off", "starting", "on"
  toServer,         \* what the client has sent and the server not read
  toClient,         \* and the other way round
  saslStep,         \* members of QXmppOutgoingClientPrivate:
  streamId,         \*   "none" yet, that of "this" stream or of an "old" one
  streamVersion,    \*   it is not empty
  sessionAvailable

kept == <<streamId, streamVersion, sessionAvailable>>
connection == <<server, phase, tls>>
handVars == <<connection, toServer, toClient, saslStep, kept>>
handshakeVars == <<vars, handVars>>

(* What a server expects in a phase; in the others it expects nothing. *)
Expected ==
  [new |-> {"stream"}, starttls |-> {"starttls"}, tls |-> {"stream"},
   open |-> IF server.auth \in Queries THEN {"query"} ELSE {"auth"},
   challenged |-> {"response"}, proved |-> {"ack"}, success |-> {"stream"},
   authed |-> {"bind"}, bound |-> {"session"},
   asked |-> {"digest", "olddigest", "password"},
   refused |-> {}, forged |-> {}, done |-> {}, sessionless |-> {}, ended |-> {}]

Requests == {"stream", "starttls", "query", "auth", "response", "ack", "bind",
             "session", "digest", "olddigest", "password"}
Answers == {"header", "oldheader", "tlsfeatures", "authfeatures", "bindfeatures",
            "proceed", "challenge", "rspauth", "badproof", "success", "failure",
            "bound", "binderror", "session", "sessionerror", "result",
            "autherror", "streamerror", "conflict"}
             \cup Queries

HandshakeTypeOK ==
  /\ TypeOK
  /\ server \in Servers /\ phase \in DOMAIN Expected
  /\ tls \in {"off", "starting", "on"}
  /\ toServer \in Seq(Requests) /\ toClient \in Seq(Answers)
  /\ saslStep \in Nat /\ streamId \in {"none", "this", "old"}
  /\ streamVersion \in BOOLEAN /\ sessionAvailable \in BOOLEAN

HandshakeInit ==
  /\ Init
  /\ saslStep = 0 /\ streamId = "none"
  /\ streamVersion = FALSE /\ sessionAvailable = FALSE
  /\ server \in Servers /\ phase = "new" /\ tls = "off"
  /\ toServer = <<>> /\ toClient = <<>>
-----------------------------------------------------------------------------
(* The socket. *)

Silence == toServer' = <<>> /\ toClient' = <<>>

handleStart_KeepsStep ==
  toServer' = Append(toServer, "stream") /\ UNCHANGED saslStep
handleStart ==
  toServer' = Append(toServer, "stream") /\ saslStep' = 0

socketConnected ==
  /\ SocketConnected
  /\ handleStart
  /\ server' \in Servers /\ phase' = "new" /\ tls' = "off"
  /\ UNCHANGED <<toClient, kept>>

socketEncrypted ==
  /\ socket = "handshake" /\ tls = "starting" /\ net = "up"
  /\ tls' = "on"
  /\ handleStart
  /\ UNCHANGED <<vars, server, phase, toClient, kept>>

(* The connection is gone; what was on its way is lost. *)
Broken ==
  /\ SocketError \/ Closed
  /\ Silence
  /\ UNCHANGED <<connection, saslStep, kept>>

Waiting ==
  /\ LookedUp \/ reconnect \/ NetChanges
  /\ UNCHANGED handVars

(* Another client, in this process or in the next one. *)
OtherClient ==
  /\ ReplaceClient \/ Relaunch
  /\ saslStep' = 0 /\ streamId' = "none"
  /\ streamVersion' = FALSE /\ sessionAvailable' = FALSE
  /\ Silence
  /\ UNCHANGED connection
-----------------------------------------------------------------------------
(* The client: handleStream and handleStanza. *)

Reads(m) == /\ socket = "handshake" /\ net = "up"
            /\ toClient # <<>> /\ m = Head(toClient) /\ toClient' = Tail(toClient)
Send(m) == toServer' = Append(toServer, m)
Ignore == UNCHANGED toServer

(* The id and the version of a client's first stream stay. *)
handleStream(m) ==
  /\ m \in {"header", "oldheader"} /\ Reads(m)
  /\ streamId' = IF streamId = "none" THEN "this" ELSE "old"
  /\ streamVersion' = (streamVersion \/ m = "header")
  /\ IF streamVersion' THEN Ignore ELSE Send("query")
  /\ UNCHANGED <<vars, connection, saslStep, sessionAvailable>>

Authenticate ==
  CASE server.auth \in Queries -> Send("query")
    [] server.auth = "unknown" -> Ignore
    [] OTHER                   -> Send("auth")

handleFeatures_NoReturn ==
  /\ \/ /\ Reads("tlsfeatures")
        /\ toServer' = toServer \o <<"starttls", "auth">> /\ UNCHANGED sessionAvailable
     \/ Reads("authfeatures") /\ Authenticate /\ UNCHANGED sessionAvailable
     \/ /\ Reads("bindfeatures") /\ Send("bind")
        /\ sessionAvailable' = (sessionAvailable \/ server.login # "nosession")
  /\ UNCHANGED <<vars, connection, saslStep, streamId, streamVersion>>
handleFeatures_SessionForgotten ==
  /\ \/ Reads("tlsfeatures") /\ Send("starttls")
     \/ Reads("authfeatures") /\ Authenticate
     \/ Reads("bindfeatures") /\ Send("bind")
  /\ UNCHANGED <<vars, connection, saslStep, kept>>
handleFeatures ==
  /\ \/ Reads("tlsfeatures") /\ Send("starttls") /\ UNCHANGED sessionAvailable
     \/ Reads("authfeatures") /\ Authenticate /\ UNCHANGED sessionAvailable
     \/ /\ Reads("bindfeatures") /\ Send("bind")
        /\ sessionAvailable' = (sessionAvailable \/ server.login # "nosession")
  /\ UNCHANGED <<vars, connection, saslStep, streamId, streamVersion>>

handleProceed ==
  /\ Reads("proceed") /\ tls' = "starting"
  /\ UNCHANGED <<vars, server, phase, toServer, saslStep, kept>>

handleSuccess ==
  /\ Reads("success")
  /\ handleStart
  /\ UNCHANGED <<vars, connection, kept>>

(* disconnectFromHost *)
GiveUp == /\ HandshakeGivenUp
          /\ Silence
          /\ UNCHANGED <<connection, kept>>

(* The first challenge must bring a nonce, the second prove the password;  *)
(* there must be no third. *)
handleChallenge(m) ==
  LET Fits == \/ saslStep = 0 /\ m = "challenge"
              \/ saslStep = 1 /\ m = "rspauth"
  IN
  /\ m \in {"challenge", "rspauth", "badproof"}
  /\ socket = "handshake" /\ net = "up" /\ toClient # <<>> /\ m = Head(toClient)
  /\ saslStep' = saslStep + 1
  /\ \/ /\ Fits
        /\ Reads(m) /\ Send(IF saslStep = 0 THEN "response" ELSE "ack")
        /\ UNCHANGED <<vars, connection, kept>>
     \/ ~Fits /\ GiveUp

handleFailure ==
  /\ socket = "handshake" /\ net = "up" /\ toClient # <<>> /\ Head(toClient) = "failure"
  /\ AuthenticationFailure
  /\ Silence
  /\ UNCHANGED <<connection, saslStep, kept>>

(* The result of binding; without a session there is nothing more to ask.  *)
handleBound ==
  /\ Reads("bound")
  /\ IF sessionAvailable THEN Send("session") ELSE Ignore
  /\ UNCHANGED <<vars, connection, saslStep, kept>>

(* The answer to the session request, whatever it says, and the result of  *)
(* the non-SASL login, which must be one.                                  *)
handleLogin_AnyType(m) ==
  /\ m \in {"session", "sessionerror", "result", "autherror"}
  /\ Reads(m) /\ SessionStarted
  /\ UNCHANGED <<connection, toServer, saslStep, kept>>
handleLogin(m) ==
  /\ m \in {"session", "sessionerror", "result"}
  /\ Reads(m) /\ SessionStarted
  /\ UNCHANGED <<connection, toServer, saslStep, kept>>

(* sendNonSASLAuth: the digest is that of d->streamId. *)
handleFields(m) ==
  /\ m \in Queries
  /\ \/ /\ m = "nofields" /\ UNCHANGED saslStep /\ net = "up"
        /\ toClient # <<>> /\ m = Head(toClient) /\ GiveUp
     \/ /\ m # "nofields" /\ Reads(m)
        /\ Send(IF m = "plainfields" THEN "password"
                ELSE IF streamId = "this" THEN "digest" ELSE "olddigest")
        /\ UNCHANGED <<vars, connection, saslStep, kept>>

(* No handler for the other errors. *)
handleError ==
  /\ Reads("binderror") \/ Reads("autherror")
  /\ UNCHANGED <<vars, connection, toServer, saslStep, kept>>

handleStreamError(conflict) ==
  /\ net = "up" /\ toClient # <<>>
  /\ Head(toClient) = (IF conflict THEN "conflict" ELSE "streamerror")
  /\ StreamError(conflict)
  /\ Silence
  /\ UNCHANGED <<connection, saslStep, kept>>

ClientHandles ==
  \/ \E m \in Answers :
       handleStream(m) \/ handleChallenge(m) \/ handleLogin(m) \/ handleFields(m)
  \/ handleFeatures \/ handleProceed \/ handleSuccess \/ handleFailure
  \/ handleBound \/ handleError
  \/ \E conflict \in BOOLEAN : handleStreamError(conflict)
-----------------------------------------------------------------------------
(* The server. *)

Hears(m) == /\ socket = "handshake" /\ net = "up" /\ phase # "ended"
            /\ toServer # <<>> /\ m = Head(toServer) /\ toServer' = Tail(toServer)
            /\ UNCHANGED <<vars, server, tls, saslStep, kept>>

Replies(answers, next) == toClient' = toClient \o answers /\ phase' = next

ServeStream ==
  /\ Hears("stream")
  /\ IF ~server.version THEN Replies(<<"oldheader">>, "open")
     ELSE IF server.tls /\ tls = "off"
          THEN Replies(<<"header", "tlsfeatures">>, "starttls")
     ELSE IF phase = "success" THEN Replies(<<"header", "bindfeatures">>, "authed")
     ELSE Replies(<<"header", "authfeatures">>, "open")

ServeTls == Hears("starttls") /\ Replies(<<"proceed">>, "tls")

ServeAuth ==
  /\ Hears("auth")
  /\ IF server.auth = "digest" THEN Replies(<<"challenge">>, "challenged")
     ELSE \/ Replies(<<"success">>, "success")
          \/ Replies(<<"failure">>, "refused")

(* A server may leave the second challenge out; a forged one does not know *)
(* the password. *)
ServeResponse ==
  /\ Hears("response")
  /\ \/ Replies(<<"rspauth">>, "proved")
     \/ Replies(<<"success">>, "success")
     \/ Replies(<<"badproof">>, "forged")
     \/ Replies(<<"failure">>, "refused")

ServeAck == Hears("ack") /\ Replies(<<"success">>, "success")

ServeBind ==
  /\ Hears("bind")
  /\ IF server.login = "nobind" THEN Replies(<<"binderror">>, "refused")
     ELSE Replies(<<"bound">>, "bound")

ServeSession ==
  /\ Hears("session")
  /\ IF server.login = "session" THEN Replies(<<"session">>, "done")
     ELSE Replies(<<"sessionerror">>, "sessionless")

ServeQuery ==
  /\ Hears("query")
  /\ Replies(<<server.auth>>, "asked")

ServeLogin ==
  \/ Hears("olddigest") /\ Replies(<<"autherror">>, "refused")
  \/ \E m \in {"digest", "password"} :
       /\ Hears(m)
       /\ Replies(<<"result">>, "done") \/ Replies(<<"autherror">>, "refused")

ServerAnswers == \/ ServeStream \/ ServeTls \/ ServeAuth \/ ServeResponse \/ ServeAck
                 \/ ServeBind \/ ServeSession \/ ServeQuery \/ ServeLogin

(* The server may end the stream whenever it likes. *)
ServerEnds ==
  /\ socket \in {"handshake", "online"} /\ phase # "ended" /\ phase' = "ended"
  /\ \E e \in {"streamerror", "conflict"} : toClient' = Append(toClient, e)
  /\ UNCHANGED <<vars, server, tls, toServer, saslStep, kept>>
-----------------------------------------------------------------------------
HandshakeNext ==
  \/ socketConnected \/ socketEncrypted \/ Broken \/ Waiting \/ OtherClient
  \/ ClientHandles \/ ServerAnswers \/ ServerEnds

HandshakeSpec == HandshakeInit /\ [][HandshakeNext]_handshakeVars

(* The event loop serves the socket and the timers, and the server, while  *)
(* it can be reached, answers.                                             *)
HandshakeFairness ==
  /\ WF_handshakeVars((LookedUp \/ reconnect) /\ UNCHANGED handVars)
  /\ WF_handshakeVars(socketConnected) /\ WF_handshakeVars(socketEncrypted)
  /\ WF_handshakeVars(Broken /\ socket # "online")
  /\ WF_handshakeVars(ClientHandles) /\ WF_handshakeVars(ServerAnswers)

FairHandshakeSpec == HandshakeSpec /\ HandshakeFairness
-----------------------------------------------------------------------------
(* Properties. *)

(* The client never sends what the server does not expect at that point:   *)
(* nothing but starttls where TLS is offered, no credentials in the clear  *)
(* there, each response to its challenge, no query to a server it did not  *)
(* find to be old, and one request at a time; whatever it kept of earlier  *)
(* connections and however those broke.                                    *)
NoSurprise ==
  socket = "handshake" /\ phase # "ended" =>
    /\ Len(toServer) <= 1
    /\ toServer # <<>> => Head(toServer) \in Expected[phase]
    /\ phase \notin {"new", "starttls", "tls"} /\ server.tls => tls = "on"

(* The client leaves a handshake by itself only after the server has       *)
(* turned it down, could not prove that it knows the password, or allows   *)
(* no login the client can do; never for what an earlier stream left.      *)
GivesUpWithReason ==
  socket = "closing" =>
    \/ phase \in {"refused", "forged", "ended"}
    \/ phase = "asked" /\ server.auth = "nofields"

(* When both sides wait for each other for ever, it is one of these: the   *)
(* server knows no login the client knows, is older than the one of an     *)
(* earlier connection, offers no session, or has refused a login by query  *)
(* or to bind the resource, which the client does not take for an error.   *)
Stalled == /\ socket = "handshake" /\ tls # "starting"
           /\ toServer = <<>> /\ toClient = <<>>
StallsOnlyWhen ==
  Stalled => \/ phase = "open" /\ server.auth = "unknown"
             \/ phase = "open" /\ ~server.version /\ streamVersion
             \/ phase = "bound" /\ server.login = "nosession"
             \/ phase = "refused" /\ (server.login = "nobind" \/ server.auth \in Queries)

(* Who is online has been let in by the server, over TLS if it is offered; *)
(* the only thing that may be missing is the session itself.               *)
OnlineMeansLoggedIn ==
  socket = "online" =>
    /\ phase \in {"done", "sessionless", "ended"}
    /\ server.tls => tls = "on"
    /\ phase = "sessionless" => server.login # "session"

(* What XmppLink takes for granted (the strong fairness of Answer) follows *)
(* for a server of these kinds: while it can be reached and does not end   *)
(* its streams the link is up again and again, or was refused.             *)
Serving == /\ server.version /\ server.auth \in {"digest", "plain"}
           /\ server.login \in {"session", "norights"}
ServedLinkRecovers ==
  /\ []Serving
  /\ <>[](net = "up")
  /\ <>[][~(ReplaceClient \/ Relaunch \/ ServerEnds)]_handshakeVars
  => []<>((reported /\ m_connected) \/ refused)

(* Whatever client and server do to a handshake, short of leaving it, uses *)
(* up some of the steps it had left: no choice of answers keeps the two    *)
(* talking for ever, nor does an end of the stream in between.             *)
PhasesLeft ==
  [new |-> 10, starttls |-> 9, tls |-> 8, open |-> 7, challenged |-> 6, asked |-> 6,
   proved |-> 5, success |-> 4, authed |-> 3, bound |-> 2,
   refused |-> 1, forged |-> 1, done |-> 1, sessionless |-> 1, ended |-> 0]
StepsLeft == 6 * PhasesLeft[phase] + 3 * Len(toClient) + Len(toServer)
               + (IF tls = "starting" THEN 2 ELSE 0)
EveryMessageCounts ==
  [][socket = "handshake" /\ socket' = "handshake" /\ ~UNCHANGED handVars
       => StepsLeft' < StepsLeft]_handshakeVars

(* The inductive invariant: the script of a handshake, which lists what is *)
(* on its way in each phase until the server ends the stream, and what is  *)
(* left of it once the client is online or has gone.                       *)
Ready == IF server.tls THEN "on" ELSE "off"
In(t, step, out, in) == /\ tls = t /\ saslStep = step
                        /\ toServer = out /\ toClient = in

Opening ==
  \/ phase = "new" /\ In("off", 0, <<"stream">>, <<>>)
  \/ /\ phase = "starttls" /\ server.version /\ server.tls
     /\ \/ In("off", 0, <<>>, <<"header", "tlsfeatures">>)
        \/ In("off", 0, <<>>, <<"tlsfeatures">>)
        \/ In("off", 0, <<"starttls">>, <<>>)
  \/ /\ phase = "tls" /\ server.version /\ server.tls
     /\ \/ In("off", 0, <<>>, <<"proceed">>)
        \/ In("starting", 0, <<>>, <<>>)
        \/ In("on", 0, <<"stream">>, <<>>)
  \/ /\ phase = "open"
     /\ \/ server.version /\ In(Ready, 0, <<>>, <<"header", "authfeatures">>)
        \/ server.version /\ In(Ready, 0, <<>>, <<"authfeatures">>)
        \/ ~server.version /\ In(Ready, 0, <<>>, <<"oldheader">>)
        \/ server.auth \in Queries /\ In(Ready, 0, <<"query">>, <<>>)
        \/ server.auth \in {"digest", "plain"} /\ In(Ready, 0, <<"auth">>, <<>>)
        \/ server.auth = "unknown" /\ In(Ready, 0, <<>>, <<>>)
        \/ ~server.version /\ streamVersion /\ In(Ready, 0, <<>>, <<>>)

Authenticating ==
  \/ /\ phase = "challenged" /\ server.version
     /\ \/ In(Ready, 0, <<>>, <<"challenge">>)
        \/ In(Ready, 1, <<"response">>, <<>>)
  \/ /\ phase = "proved" /\ server.version
     /\ \/ In(Ready, 1, <<>>, <<"rspauth">>)
        \/ In(Ready, 2, <<"ack">>, <<>>)
  \/ phase = "forged" /\ In(Ready, 1, <<>>, <<"badproof">>)
  \/ /\ phase = "success" /\ server.version
     /\ \/ \E step \in 0..2 : In(Ready, step, <<>>, <<"success">>)
        \/ In(Ready, 0, <<"stream">>, <<>>)
  \/ /\ phase = "asked" /\ server.auth \in Queries
     /\ \/ In(Ready, 0, <<>>, <<server.auth>>)
        \/ \E m \in {"digest", "olddigest", "password"} : In(Ready, 0, <<m>>, <<>>)
  \/ /\ phase = "refused"
     /\ \/ \E step \in 0..1 : In(Ready, step, <<>>, <<"failure">>)
        \/ /\ server.login = "nobind" \/ server.auth \in Queries
           /\ \/ In(Ready, 0, <<>>, <<"binderror">>) \/ In(Ready, 0, <<>>, <<"autherror">>)
              \/ In(Ready, 0, <<>>, <<>>)

LoggingIn ==
  \/ /\ phase = "authed" /\ server.version
     /\ \/ In(Ready, 0, <<>>, <<"header", "bindfeatures">>)
        \/ In(Ready, 0, <<>>, <<"bindfeatures">>)
        \/ In(Ready, 0, <<"bind">>, <<>>) /\ (server.login # "nosession" => sessionAvailable)
  \/ /\ phase = "bound" /\ (server.login # "nosession" => sessionAvailable)
     /\ \/ In(Ready, 0, <<>>, <<"bound">>)
        \/ In(Ready, 0, <<"session">>, <<>>)
        \/ server.login = "nosession" /\ In(Ready, 0, <<>>, <<>>)
  \/ phase = "sessionless" /\ server.login # "session" /\ In(Ready, 0, <<>>, <<"sessionerror">>)
  \/ /\ phase = "done"
     /\ In(Ready, 0, <<>>, <<"session">>) \/ In(Ready, 0, <<>>, <<"result">>)

Script == socket = "handshake" /\ phase # "ended" => Opening \/ Authenticating \/ LoggingIn

Between == /\ socket \notin {"handshake", "online"} => toServer = <<>> /\ toClient = <<>>
           /\ socket = "online" /\ phase # "ended" => toServer = <<>> /\ toClient = <<>>

(* A stream that has ended closes with the error, and may still hold the   *)
(* answer that lets the client in, which is then the next one.             *)
Ending == socket = "handshake" /\ phase = "ended" =>
  /\ toClient # <<>> /\ toClient[Len(toClient)] \in {"streamerror", "conflict"}
  /\ \A i \in 1..Len(toClient) :
       toClient[i] \in {"session", "sessionerror", "result"}
         => i = 1 /\ (server.tls => tls = "on")

HandshakeIInv == /\ HandshakeTypeOK /\ IInv /\ Script /\ Between /\ Ending
                 /\ GivesUpWithReason /\ OnlineMeansLoggedIn
=============================================================================
