--------------------------- MODULE HandshakeProofs ---------------------------
(***************************************************************************)
(* Proofs about Handshake for every set of servers: client and server keep *)
(* to the script, so that neither is surprised, gives up or waits in vain  *)
(* but for the reasons stated, and every step is a step of XmppLink.       *)
(***************************************************************************)
EXTENDS Handshake, Integers, XmppLinkProofs

(* Short messages, which is all the script has. *)
LEMMA One == \A a : /\ <<a>> # <<>> /\ Head(<<a>>) = a /\ Tail(<<a>>) = <<>>
                    /\ Append(<<>>, a) = <<a>> /\ <<>> \o <<a>> = <<a>>
  OBVIOUS

LEMMA Two == \A a, b : /\ <<a, b>> # <<>> /\ Head(<<a, b>>) = a /\ Tail(<<a, b>>) = <<b>>
                       /\ <<>> \o <<a, b>> = <<a, b>>
  OBVIOUS

(* What a line of the script says of who is next. *)
LEMMA LineNone ==
  \A t, n, out : In(t, n, out, <<>>) =>
    toClient = <<>> /\ tls = t /\ saslStep = n /\ toServer = out
  BY DEF In
LEMMA LineOne ==
  \A t, n, out, b : In(t, n, out, <<b>>) =>
    /\ toClient # <<>> /\ Head(toClient) = b /\ Tail(toClient) = <<>>
    /\ tls = t /\ saslStep = n /\ toServer = out
  BY One DEF In
LEMMA LineTwo ==
  \A t, n, out, b, c : In(t, n, out, <<b, c>>) =>
    /\ toClient # <<>> /\ Head(toClient) = b /\ Tail(toClient) = <<c>>
    /\ tls = t /\ saslStep = n /\ toServer = out
  BY Two DEF In

(* The lines in which the client is next. *)
Turn(t, n, m, rest) ==
  /\ tls = t /\ saslStep = n /\ toServer = <<>>
  /\ Head(toClient) = m /\ Tail(toClient) = rest

OpeningTurn ==
  \/ /\ phase = "starttls" /\ server.version /\ server.tls
     /\ \/ Turn("off", 0, "header", <<"tlsfeatures">>)
        \/ Turn("off", 0, "tlsfeatures", <<>>)
  \/ phase = "tls" /\ server.version /\ server.tls /\ Turn("off", 0, "proceed", <<>>)
  \/ /\ phase = "open" /\ server.version
     /\ \/ Turn(Ready, 0, "header", <<"authfeatures">>)
        \/ Turn(Ready, 0, "authfeatures", <<>>)
  \/ phase = "open" /\ ~server.version /\ Turn(Ready, 0, "oldheader", <<>>)

AuthenticatingTurn ==
  \/ phase = "challenged" /\ server.version /\ Turn(Ready, 0, "challenge", <<>>)
  \/ phase = "proved" /\ server.version /\ Turn(Ready, 1, "rspauth", <<>>)
  \/ phase = "forged" /\ Turn(Ready, 1, "badproof", <<>>)
  \/ /\ phase = "success" /\ server.version
     /\ \E step \in 0..2 : Turn(Ready, step, "success", <<>>)
  \/ phase = "asked" /\ server.auth \in Queries /\ Turn(Ready, 0, server.auth, <<>>)
  \/ /\ phase = "refused"
     /\ \/ \E step \in 0..1 : Turn(Ready, step, "failure", <<>>)
        \/ /\ server.login = "nobind" \/ server.auth \in Queries
           /\ Turn(Ready, 0, "binderror", <<>>) \/ Turn(Ready, 0, "autherror", <<>>)

LoggingInTurn ==
  \/ /\ phase = "authed" /\ server.version
     /\ \/ Turn(Ready, 0, "header", <<"bindfeatures">>)
        \/ Turn(Ready, 0, "bindfeatures", <<>>)
  \/ /\ phase = "bound" /\ (server.login # "nosession" => sessionAvailable)
     /\ Turn(Ready, 0, "bound", <<>>)
  \/ phase = "sessionless" /\ server.login # "session" /\ Turn(Ready, 0, "sessionerror", <<>>)
  \/ /\ phase = "done"
     /\ Turn(Ready, 0, "session", <<>>) \/ Turn(Ready, 0, "result", <<>>)

LEMMA OpeningHeard == Opening /\ toClient # <<>> => OpeningTurn
  BY LineNone, LineOne, LineTwo DEF Opening, OpeningTurn, Turn

LEMMA AuthenticatingHeard == Authenticating /\ toClient # <<>> => AuthenticatingTurn
  BY LineNone, LineOne, LineTwo DEF Authenticating, AuthenticatingTurn, Turn

LEMMA LoggingInHeard == LoggingIn /\ toClient # <<>> => LoggingInTurn
  BY LineNone, LineOne, LineTwo DEF LoggingIn, LoggingInTurn, Turn
-----------------------------------------------------------------------------
(* The client's turn is in one part of the script. *)
LEMMA Heard ==
  ASSUME Script, phase # "ended", NEW m, Reads(m)
  PROVE  /\ OpeningTurn \/ AuthenticatingTurn \/ LoggingInTurn
         /\ m = Head(toClient) /\ toClient' = Tail(toClient)
         /\ socket = "handshake" /\ toClient # <<>>
  BY OpeningHeard, AuthenticatingHeard, LoggingInHeard DEF Reads, Script

(* A message that is read leaves what followed it. *)
LEMMA After ==
  ASSUME NEW t, NEW n, NEW m, NEW rest, Turn(t, n, m, rest),
         toClient' = Tail(toClient), UNCHANGED <<tls, saslStep>>
  PROVE  /\ toServer' = toServer => In(t, n, <<>>, rest)'
         /\ \A x : toServer' = Append(toServer, x) => In(t, n, <<x>>, rest)'
  BY One DEF Turn, In

LEMMA StreamScript ==
  ASSUME HandshakeTypeOK, Script, phase # "ended", NEW m, handleStream(m)
  PROVE  Script'
<1>1. /\ Reads(m) /\ m \in {"header", "oldheader"}
      /\ UNCHANGED <<socket, server, phase, tls, saslStep, sessionAvailable>>
      /\ Ready' = Ready
      /\ streamVersion' = (streamVersion \/ m = "header")
      /\ IF streamVersion' THEN toServer' = toServer ELSE toServer' = Append(toServer, "query")
  BY DEF handleStream, vars, connection, Ignore, Send, Ready
<1>2. /\ OpeningTurn \/ AuthenticatingTurn \/ LoggingInTurn
      /\ m = Head(toClient) /\ toClient' = Tail(toClient)
  BY <1>1, Heard
<1>3. CASE phase = "starttls" /\ server.version /\ server.tls /\ Turn("off", 0, "header", <<"tlsfeatures">>)
  <2>1. m = "header" BY <1>2, <1>3 DEF Turn
  <2>2. In("off", 0, <<>>, <<"tlsfeatures">>)'
    BY <1>1, <1>2, <1>3, <2>1, After
  <2> QED BY <1>1, <1>3, <2>2 DEF Script, Opening
<1>4. CASE phase = "open" /\ server.version /\ Turn(Ready, 0, "header", <<"authfeatures">>)
  <2>1. m = "header" BY <1>2, <1>4 DEF Turn
  <2>2. In(Ready, 0, <<>>, <<"authfeatures">>)'
    BY <1>1, <1>2, <1>4, <2>1, After
  <2> QED BY <1>1, <1>4, <2>2 DEF Script, Opening
<1>5. CASE phase = "open" /\ ~server.version /\ Turn(Ready, 0, "oldheader", <<>>)
  <2>1. m = "oldheader" BY <1>2, <1>5 DEF Turn
  <2>2. CASE streamVersion
    <3>1. In(Ready, 0, <<>>, <<>>)'
      BY <1>1, <1>2, <1>5, <2>1, <2>2, After
    <3> QED BY <1>1, <1>5, <2>2, <3>1 DEF Script, Opening
  <2>3. CASE ~streamVersion
    <3>1. In(Ready, 0, <<"query">>, <<>>)'
      BY <1>1, <1>2, <1>5, <2>1, <2>3, After
    <3>2. server.auth \in Queries
      BY <1>5, ServersAssumption DEF HandshakeTypeOK
    <3> QED BY <1>1, <1>5, <3>1, <3>2 DEF Script, Opening
  <2> QED BY <2>2, <2>3
<1>6. CASE phase = "authed" /\ server.version /\ Turn(Ready, 0, "header", <<"bindfeatures">>)
  <2>1. m = "header" BY <1>2, <1>6 DEF Turn
  <2>2. In(Ready, 0, <<>>, <<"bindfeatures">>)'
    BY <1>1, <1>2, <1>6, <2>1, After
  <2> QED BY <1>1, <1>6, <2>2 DEF Script, LoggingIn
<1> QED BY <1>1, <1>2, <1>3, <1>4, <1>5, <1>6
        DEF OpeningTurn, AuthenticatingTurn, LoggingInTurn, Turn, Queries

LEMMA FeaturesScript ==
  ASSUME HandshakeTypeOK, Script, phase # "ended", handleFeatures
  PROVE  Script'
<1>1. /\ UNCHANGED <<socket, server, phase, tls, saslStep, streamVersion>>
      /\ Ready' = Ready
  BY DEF handleFeatures, vars, connection, Ready
<1>2. CASE Reads("tlsfeatures") /\ Send("starttls")
  <2>1. /\ OpeningTurn \/ AuthenticatingTurn \/ LoggingInTurn
        /\ "tlsfeatures" = Head(toClient) /\ toClient' = Tail(toClient)
    BY <1>2, Heard
  <2>2. /\ phase = "starttls" /\ server.version /\ server.tls
        /\ Turn("off", 0, "tlsfeatures", <<>>)
    BY <2>1 DEF OpeningTurn, AuthenticatingTurn, LoggingInTurn, Turn, Queries
  <2>3. In("off", 0, <<"starttls">>, <<>>)'
    BY <1>1, <1>2, <2>1, <2>2, After DEF Send
  <2> QED BY <1>1, <2>2, <2>3 DEF Script, Opening
<1>3. CASE Reads("authfeatures") /\ Authenticate
  <2>1. /\ OpeningTurn \/ AuthenticatingTurn \/ LoggingInTurn
        /\ "authfeatures" = Head(toClient) /\ toClient' = Tail(toClient)
    BY <1>3, Heard
  <2>2. phase = "open" /\ Turn(Ready, 0, "authfeatures", <<>>)
    BY <2>1 DEF OpeningTurn, AuthenticatingTurn, LoggingInTurn, Turn, Queries
  <2>3. CASE server.auth \in Queries
    <3>1. In(Ready, 0, <<"query">>, <<>>)'
      BY <1>1, <1>3, <2>1, <2>2, <2>3, After DEF Send, Authenticate, Queries
    <3> QED BY <1>1, <2>2, <2>3, <3>1 DEF Script, Opening
  <2>4. CASE server.auth = "unknown"
    <3>1. In(Ready, 0, <<>>, <<>>)'
      BY <1>1, <1>3, <2>1, <2>2, <2>4, After DEF Ignore, Authenticate, Queries
    <3> QED BY <1>1, <2>2, <2>4, <3>1 DEF Script, Opening
  <2>5. CASE server.auth \in {"digest", "plain"}
    <3>1. In(Ready, 0, <<"auth">>, <<>>)'
      BY <1>1, <1>3, <2>1, <2>2, <2>5, After DEF Send, Authenticate, Queries
    <3> QED BY <1>1, <2>2, <2>5, <3>1 DEF Script, Opening
  <2> QED BY <2>3, <2>4, <2>5, ServersAssumption DEF HandshakeTypeOK, ServerKinds
<1>4. CASE /\ Reads("bindfeatures") /\ Send("bind")
           /\ sessionAvailable' = (sessionAvailable \/ server.login # "nosession")
  <2>1. /\ OpeningTurn \/ AuthenticatingTurn \/ LoggingInTurn
        /\ "bindfeatures" = Head(toClient) /\ toClient' = Tail(toClient)
    BY <1>4, Heard
  <2>2. phase = "authed" /\ server.version /\ Turn(Ready, 0, "bindfeatures", <<>>)
    BY <2>1 DEF OpeningTurn, AuthenticatingTurn, LoggingInTurn, Turn, Queries
  <2>3. In(Ready, 0, <<"bind">>, <<>>)'
    BY <1>1, <1>4, <2>1, <2>2, After DEF Send
  <2> QED BY <1>1, <1>4, <2>2, <2>3 DEF Script, LoggingIn
<1> QED BY <1>2, <1>3, <1>4 DEF handleFeatures

LEMMA ProceedScript ==
  ASSUME HandshakeTypeOK, Script, phase # "ended", handleProceed
  PROVE  Script'
<1>1. /\ Reads("proceed") /\ tls' = "starting"
      /\ UNCHANGED <<socket, server, phase, saslStep, toServer>>
  BY DEF handleProceed, vars
<1>2. /\ OpeningTurn \/ AuthenticatingTurn \/ LoggingInTurn
      /\ "proceed" = Head(toClient) /\ toClient' = Tail(toClient)
  BY <1>1, Heard
<1>3. phase = "tls" /\ server.version /\ server.tls /\ Turn("off", 0, "proceed", <<>>)
  BY <1>2 DEF OpeningTurn, AuthenticatingTurn, LoggingInTurn, Turn, Queries
<1>4. In("starting", 0, <<>>, <<>>)'
  BY <1>1, <1>2, <1>3 DEF Turn, In
<1> QED BY <1>1, <1>3, <1>4 DEF Script, Opening

LEMMA SuccessScript ==
  ASSUME HandshakeTypeOK, Script, phase # "ended", handleSuccess
  PROVE  Script'
<1>1. /\ Reads("success") /\ toServer' = Append(toServer, "stream") /\ saslStep' = 0
      /\ UNCHANGED <<socket, server, phase, tls>> /\ Ready' = Ready
  BY DEF handleSuccess, handleStart, vars, connection, Ready
<1>2. /\ OpeningTurn \/ AuthenticatingTurn \/ LoggingInTurn
      /\ "success" = Head(toClient) /\ toClient' = Tail(toClient)
  BY <1>1, Heard
<1>3. /\ phase = "success" /\ server.version
      /\ \E step \in 0..2 : Turn(Ready, step, "success", <<>>)
  BY <1>2 DEF OpeningTurn, AuthenticatingTurn, LoggingInTurn, Turn, Queries
<1>4. In(Ready, 0, <<"stream">>, <<>>)'
  BY <1>1, <1>2, <1>3, One DEF Turn, In
<1> QED BY <1>1, <1>3, <1>4 DEF Script, Authenticating

(* A challenge that does not fit proves nothing of the server. *)
LEMMA ChallengeScript ==
  ASSUME HandshakeTypeOK, Script, phase # "ended", NEW m, handleChallenge(m)
  PROVE  Script' /\ (socket' = "closing" => phase' = "forged")
<1> DEFINE Fits == \/ saslStep = 0 /\ m = "challenge"
                   \/ saslStep = 1 /\ m = "rspauth"
<1>1. /\ socket = "handshake" /\ toClient # <<>> /\ m = Head(toClient)
      /\ m \in {"challenge", "rspauth", "badproof"}
      /\ UNCHANGED <<server, phase, tls>> /\ Ready' = Ready
  BY DEF handleChallenge, connection, GiveUp, Ready
<1>2. saslStep' = saslStep + 1
  BY DEF handleChallenge
<1>3. \/ Fits /\ Reads(m) /\ Send(IF saslStep = 0 THEN "response" ELSE "ack") /\ socket' = socket
      \/ ~Fits /\ socket' = "closing"
  BY DEF handleChallenge, GiveUp, HandshakeGivenUp, vars
<1>4. OpeningTurn \/ AuthenticatingTurn \/ LoggingInTurn
  BY <1>1, OpeningHeard, AuthenticatingHeard, LoggingInHeard DEF Script
<1>5. \/ phase = "challenged" /\ server.version /\ Turn(Ready, 0, "challenge", <<>>)
      \/ phase = "proved" /\ server.version /\ Turn(Ready, 1, "rspauth", <<>>)
      \/ phase = "forged" /\ Turn(Ready, 1, "badproof", <<>>)
  BY <1>1, <1>4 DEF OpeningTurn, AuthenticatingTurn, LoggingInTurn, Turn, Queries
<1>6. CASE phase = "challenged" /\ server.version /\ Turn(Ready, 0, "challenge", <<>>)
  <2>1. Fits /\ saslStep = 0
    BY <1>1, <1>6 DEF Turn
  <2>2. toServer' = Append(toServer, "response") /\ toClient' = Tail(toClient) /\ socket' = socket
    BY <1>3, <2>1 DEF Reads, Send
  <2>3. saslStep' = 1
    BY <1>2, <2>1
  <2>4. In(Ready, 1, <<"response">>, <<>>)'
    BY <1>1, <1>6, <2>2, <2>3, One DEF Turn, In
  <2> QED BY <1>1, <1>6, <2>2, <2>4 DEF Script, Authenticating
<1>7. CASE phase = "proved" /\ server.version /\ Turn(Ready, 1, "rspauth", <<>>)
  <2>1. Fits /\ saslStep = 1
    BY <1>1, <1>7 DEF Turn
  <2>2. toServer' = Append(toServer, "ack") /\ toClient' = Tail(toClient) /\ socket' = socket
    BY <1>3, <2>1 DEF Reads, Send
  <2>3. saslStep' = 2
    BY <1>2, <2>1
  <2>4. In(Ready, 2, <<"ack">>, <<>>)'
    BY <1>1, <1>7, <2>2, <2>3, One DEF Turn, In
  <2> QED BY <1>1, <1>7, <2>2, <2>4 DEF Script, Authenticating
<1>8. CASE phase = "forged" /\ Turn(Ready, 1, "badproof", <<>>)
  <2>1. ~Fits
    BY <1>1, <1>8 DEF Turn
  <2> QED BY <1>1, <1>3, <1>8, <2>1 DEF Script
<1> HIDE DEF Fits
<1> QED BY <1>1, <1>5, <1>6, <1>7, <1>8

LEMMA FailureScript ==
  ASSUME HandshakeTypeOK, Script, phase # "ended", handleFailure
  PROVE  Script' /\ phase' = "refused" /\ socket' = "closing"
<1>1. /\ socket = "handshake" /\ toClient # <<>> /\ "failure" = Head(toClient)
      /\ socket' = "closing" /\ phase' = phase
  BY DEF handleFailure, AuthenticationFailure, connection
<1>2. OpeningTurn \/ AuthenticatingTurn \/ LoggingInTurn
  BY <1>1, OpeningHeard, AuthenticatingHeard, LoggingInHeard DEF Script
<1>3. phase = "refused"
  BY <1>1, <1>2 DEF OpeningTurn, AuthenticatingTurn, LoggingInTurn, Turn, Queries
<1> QED BY <1>1, <1>3 DEF Script

LEMMA BoundScript ==
  ASSUME HandshakeTypeOK, Script, phase # "ended", handleBound
  PROVE  Script'
<1>1. /\ Reads("bound")
      /\ UNCHANGED <<socket, server, phase, tls, saslStep, sessionAvailable>>
      /\ Ready' = Ready
      /\ toServer' = IF sessionAvailable THEN Append(toServer, "session") ELSE toServer
  BY DEF handleBound, vars, connection, kept, Send, Ignore, Ready
<1>2. /\ OpeningTurn \/ AuthenticatingTurn \/ LoggingInTurn
      /\ "bound" = Head(toClient) /\ toClient' = Tail(toClient)
  BY <1>1, Heard
<1>3. /\ phase = "bound" /\ (server.login # "nosession" => sessionAvailable)
      /\ Turn(Ready, 0, "bound", <<>>)
  BY <1>2 DEF OpeningTurn, AuthenticatingTurn, LoggingInTurn, Turn, Queries
<1>4. CASE sessionAvailable
  <2>1. In(Ready, 0, <<"session">>, <<>>)'
    BY <1>1, <1>2, <1>3, <1>4, After
  <2> QED BY <1>1, <1>3, <2>1 DEF Script, LoggingIn
<1>5. CASE ~sessionAvailable
  <2>1. In(Ready, 0, <<>>, <<>>)'
    BY <1>1, <1>2, <1>3, <1>5, After
  <2> QED BY <1>1, <1>3, <1>5, <2>1 DEF Script, LoggingIn
<1> QED BY <1>4, <1>5

(* Who is let in was asked to log in or for a session. *)
LEMMA LoginScript ==
  ASSUME HandshakeTypeOK, Script, Ending, NEW m, handleLogin(m)
  PROVE  /\ Script' /\ OnlineMeansLoggedIn' /\ socket' = "online"
         /\ phase' # "ended" => toServer' = <<>> /\ toClient' = <<>>
<1>1. /\ m \in {"session", "sessionerror", "result"} /\ Reads(m) /\ socket' = "online"
      /\ UNCHANGED <<server, phase, tls, saslStep, toServer>>
  BY DEF handleLogin, SessionStarted, connection
<1>2. CASE phase # "ended"
  <2>1. /\ OpeningTurn \/ AuthenticatingTurn \/ LoggingInTurn
        /\ m = Head(toClient) /\ toClient' = Tail(toClient)
    BY <1>1, <1>2, Heard
  <2>2. \/ /\ phase = "sessionless" /\ server.login # "session"
           /\ Turn(Ready, 0, "sessionerror", <<>>)
        \/ /\ phase = "done"
           /\ Turn(Ready, 0, "session", <<>>) \/ Turn(Ready, 0, "result", <<>>)
    BY <1>1, <2>1 DEF OpeningTurn, AuthenticatingTurn, LoggingInTurn, Turn, Queries
  <2> QED BY <1>1, <2>1, <2>2 DEF Script, OnlineMeansLoggedIn, Turn, Ready
<1>3. CASE phase = "ended"
  <2>1. toClient \in Seq(Answers) /\ toClient # <<>> /\ m = toClient[1]
    BY <1>1 DEF HandshakeTypeOK, Reads
  <2>2. 1 \in 1..Len(toClient)
    BY <2>1
  <2>3. server.tls => tls = "on"
    BY <1>1, <1>3, <2>1, <2>2 DEF Ending, Reads
  <2> QED BY <1>1, <1>3, <2>3 DEF Script, OnlineMeansLoggedIn
<1> QED BY <1>2, <1>3

LEMMA FieldsScript ==
  ASSUME HandshakeTypeOK, Script, phase # "ended", NEW m, handleFields(m)
  PROVE  Script' /\ (socket' = "closing" => phase' = "asked" /\ server'.auth = "nofields")
<1>1. /\ socket = "handshake" /\ toClient # <<>> /\ m = Head(toClient) /\ m \in Queries
      /\ UNCHANGED <<server, phase, tls>> /\ Ready' = Ready
  BY DEF handleFields, GiveUp, HandshakeGivenUp, Reads, vars, connection, Ready
<1>2. OpeningTurn \/ AuthenticatingTurn \/ LoggingInTurn
  BY <1>1, OpeningHeard, AuthenticatingHeard, LoggingInHeard DEF Script
<1>3. /\ phase = "asked" /\ server.auth \in Queries /\ m = server.auth
      /\ Turn(Ready, 0, server.auth, <<>>)
  BY <1>1, <1>2 DEF OpeningTurn, AuthenticatingTurn, LoggingInTurn, Turn, Queries
<1>4. CASE m = "nofields"
  <2>1. socket' = "closing"
    BY <1>4 DEF handleFields, GiveUp, HandshakeGivenUp
  <2> QED BY <1>1, <1>3, <1>4, <2>1 DEF Script
<1>5. CASE m # "nofields"
  <2>1. PICK x \in {"digest", "olddigest", "password"} :
          toServer' = Append(toServer, x) /\ toClient' = Tail(toClient)
          /\ UNCHANGED <<socket, saslStep>>
    BY <1>5 DEF handleFields, Send, Reads, vars
  <2>2. In(Ready, 0, <<x>>, <<>>)'
    BY <1>1, <1>3, <2>1, After
  <2> QED BY <1>1, <1>3, <2>1, <2>2 DEF Script, Authenticating
<1> QED BY <1>4, <1>5

LEMMA ErrorScript ==
  ASSUME HandshakeTypeOK, Script, phase # "ended", handleError
  PROVE  Script'
<1>1. PICK m \in {"binderror", "autherror"} : Reads(m)
  BY DEF handleError
<1>2. UNCHANGED <<socket, server, phase, tls, saslStep, toServer>> /\ Ready' = Ready
  BY DEF handleError, vars, connection, Ready
<1>3. /\ OpeningTurn \/ AuthenticatingTurn \/ LoggingInTurn
      /\ m = Head(toClient) /\ toClient' = Tail(toClient)
  BY <1>1, Heard
<1>4. /\ phase = "refused" /\ (server.login = "nobind" \/ server.auth \in Queries)
      /\ Turn(Ready, 0, m, <<>>)
  BY <1>1, <1>3 DEF OpeningTurn, AuthenticatingTurn, LoggingInTurn, Turn, Queries
<1>5. In(Ready, 0, <<>>, <<>>)'
  BY <1>2, <1>3, <1>4, After
<1> QED BY <1>2, <1>4, <1>5 DEF Script, Authenticating
-----------------------------------------------------------------------------
(* The lines in which the server is next. *)
Ask(t, n, m) == /\ tls = t /\ saslStep = n /\ toClient = <<>>
                /\ toServer # <<>> /\ Head(toServer) = m /\ Tail(toServer) = <<>>

Asked ==
  \/ phase = "new" /\ Ask("off", 0, "stream")
  \/ /\ phase = "starttls" /\ server.version /\ server.tls /\ Ask("off", 0, "starttls")
  \/ /\ phase = "tls" /\ server.version /\ server.tls /\ Ask("on", 0, "stream")
  \/ phase = "open" /\ server.auth \in Queries /\ Ask(Ready, 0, "query")
  \/ phase = "open" /\ server.auth \in {"digest", "plain"} /\ Ask(Ready, 0, "auth")
  \/ phase = "challenged" /\ server.version /\ Ask(Ready, 1, "response")
  \/ phase = "proved" /\ server.version /\ Ask(Ready, 2, "ack")
  \/ phase = "success" /\ server.version /\ Ask(Ready, 0, "stream")
  \/ /\ phase = "asked" /\ server.auth \in Queries
     /\ \E m \in {"digest", "olddigest", "password"} : Ask(Ready, 0, m)
  \/ /\ phase = "authed" /\ server.version /\ Ask(Ready, 0, "bind")
     /\ server.login # "nosession" => sessionAvailable
  \/ /\ phase = "bound" /\ Ask(Ready, 0, "session")
     /\ server.login # "nosession" => sessionAvailable

LEMMA LineAsk ==
  \A t, n, m : In(t, n, <<m>>, <<>>) => Ask(t, n, m)
  BY One DEF In, Ask
LEMMA LineOut ==
  \A t, n, in : In(t, n, <<>>, in) => toServer = <<>>
  BY DEF In

LEMMA AskedOne ==
  ASSUME Script, socket = "handshake", phase # "ended", toServer # <<>>
  PROVE  Asked
<1>1. CASE Opening
  BY <1>1, LineAsk, LineOut DEF Opening, Asked
<1>2. CASE Authenticating
  BY <1>2, LineAsk, LineOut DEF Authenticating, Asked
<1>3. CASE LoggingIn
  BY <1>3, LineAsk, LineOut DEF LoggingIn, Asked
<1> QED BY <1>1, <1>2, <1>3 DEF Script

(* What is heard was asked in one of these phases. *)
LEMMA HeardAsk ==
  ASSUME Script, NEW m, Hears(m)
  PROVE  /\ socket = "handshake" /\ socket' = socket /\ phase # "ended"
         /\ m = Head(toServer) /\ toServer' = <<>> /\ toClient = <<>> /\ Asked
         /\ UNCHANGED <<server, tls, saslStep, sessionAvailable, streamVersion>>
         /\ Ready' = Ready
<1>1. Asked
  BY AskedOne DEF Hears
<1>2. toClient = <<>> /\ Tail(toServer) = <<>>
  BY <1>1 DEF Asked, Ask
<1> QED BY <1>1, <1>2 DEF Hears, vars, kept, Ready

(* The server's answer is the next line. *)
LEMMA Line ==
  ASSUME NEW t, NEW n, NEW m, Ask(t, n, m), toServer' = <<>>, toClient = <<>>,
         UNCHANGED <<tls, saslStep>>
  PROVE  /\ \A a, p : Replies(<<a>>, p) => In(t, n, <<>>, <<a>>)' /\ phase' = p
         /\ \A a, b, p : Replies(<<a, b>>, p) => In(t, n, <<>>, <<a, b>>)' /\ phase' = p
  BY One, Two DEF Ask, Replies, In

LEMMA ServeStreamScript ==
  ASSUME HandshakeTypeOK, Script, ServeStream
  PROVE  Script'
<1>1. Hears("stream")
  BY DEF ServeStream
<1>2. \/ phase = "new" /\ Ask("off", 0, "stream")
      \/ phase = "tls" /\ server.version /\ server.tls /\ Ask("on", 0, "stream")
      \/ phase = "success" /\ server.version /\ Ask(Ready, 0, "stream")
  BY <1>1, HeardAsk DEF Asked, Ask
<1>3. ~server.version => ~server.tls
  BY ServersAssumption DEF HandshakeTypeOK
<1>4. PICK t : Ask(t, 0, "stream") /\ t = tls
  BY <1>2 DEF Ask
<1>5. CASE ~server.version
  <2>1. tls = Ready
    BY <1>2, <1>3, <1>5 DEF Ask, Ready
  <2>2. Replies(<<"oldheader">>, "open")
    BY <1>5 DEF ServeStream
  <2>3. In(Ready, 0, <<>>, <<"oldheader">>)' /\ phase' = "open"
    BY <1>1, <1>4, <2>1, <2>2, HeardAsk, Line
  <2> QED BY <1>1, <1>5, <2>3, HeardAsk DEF Script, Opening
<1>6. CASE server.version /\ server.tls /\ tls = "off"
  <2>1. Replies(<<"header", "tlsfeatures">>, "starttls")
    BY <1>6 DEF ServeStream
  <2>2. In("off", 0, <<>>, <<"header", "tlsfeatures">>)' /\ phase' = "starttls"
    BY <1>1, <1>4, <1>6, <2>1, HeardAsk, Line
  <2> QED BY <1>1, <1>6, <2>2, HeardAsk DEF Script, Opening
<1>7. CASE server.version /\ ~(server.tls /\ tls = "off") /\ phase = "success"
  <2>1. tls = Ready
    BY <1>2, <1>7 DEF Ask, Ready
  <2>2. Replies(<<"header", "bindfeatures">>, "authed")
    BY <1>7 DEF ServeStream
  <2>3. In(Ready, 0, <<>>, <<"header", "bindfeatures">>)' /\ phase' = "authed"
    BY <1>1, <1>4, <2>1, <2>2, HeardAsk, Line
  <2> QED BY <1>1, <1>7, <2>3, HeardAsk DEF Script, LoggingIn
<1>8. CASE server.version /\ ~(server.tls /\ tls = "off") /\ phase # "success"
  <2>1. tls = Ready
    BY <1>2, <1>8 DEF Ask, Ready
  <2>2. Replies(<<"header", "authfeatures">>, "open")
    BY <1>8 DEF ServeStream
  <2>3. In(Ready, 0, <<>>, <<"header", "authfeatures">>)' /\ phase' = "open"
    BY <1>1, <1>4, <2>1, <2>2, HeardAsk, Line
  <2> QED BY <1>1, <1>8, <2>3, HeardAsk DEF Script, Opening
<1> QED BY <1>5, <1>6, <1>7, <1>8

LEMMA ServeTlsScript ==
  ASSUME HandshakeTypeOK, Script, ServeTls
  PROVE  Script'
<1>1. Hears("starttls") /\ Replies(<<"proceed">>, "tls")
  BY DEF ServeTls
<1>2. server.version /\ server.tls /\ Ask("off", 0, "starttls")
  BY <1>1, HeardAsk DEF Asked, Ask
<1>3. In("off", 0, <<>>, <<"proceed">>)' /\ phase' = "tls"
  BY <1>1, <1>2, HeardAsk, Line
<1> QED BY <1>1, <1>2, <1>3, HeardAsk DEF Script, Opening

LEMMA ServeAuthScript ==
  ASSUME HandshakeTypeOK, Script, ServeAuth
  PROVE  Script'
<1>1. Hears("auth")
  BY DEF ServeAuth
<1>2. phase = "open" /\ server.auth \in {"digest", "plain"} /\ Ask(Ready, 0, "auth")
  BY <1>1, HeardAsk DEF Asked, Ask
<1>3. server.version
  BY <1>2, ServersAssumption DEF HandshakeTypeOK, Queries
<1>4. CASE Replies(<<"challenge">>, "challenged")
  <2>1. In(Ready, 0, <<>>, <<"challenge">>)' /\ phase' = "challenged"
    BY <1>1, <1>2, <1>4, HeardAsk, Line
  <2> QED BY <1>1, <1>3, <2>1, HeardAsk DEF Script, Authenticating
<1>5. CASE Replies(<<"success">>, "success")
  <2>1. In(Ready, 0, <<>>, <<"success">>)' /\ phase' = "success" /\ 0 \in 0..2
    BY <1>1, <1>2, <1>5, HeardAsk, Line
  <2> QED BY <1>1, <1>3, <2>1, HeardAsk DEF Script, Authenticating
<1>6. CASE Replies(<<"failure">>, "refused")
  <2>1. In(Ready, 0, <<>>, <<"failure">>)' /\ phase' = "refused" /\ 0 \in 0..1
    BY <1>1, <1>2, <1>6, HeardAsk, Line
  <2> QED BY <1>1, <2>1, HeardAsk DEF Script, Authenticating
<1> QED BY <1>4, <1>5, <1>6 DEF ServeAuth

LEMMA ServeResponseScript ==
  ASSUME HandshakeTypeOK, Script, ServeResponse
  PROVE  Script'
<1>1. Hears("response")
  BY DEF ServeResponse
<1>2. server.version /\ Ask(Ready, 1, "response")
  BY <1>1, HeardAsk DEF Asked, Ask
<1>3. CASE Replies(<<"rspauth">>, "proved")
  <2>1. In(Ready, 1, <<>>, <<"rspauth">>)' /\ phase' = "proved"
    BY <1>1, <1>2, <1>3, HeardAsk, Line
  <2> QED BY <1>1, <1>2, <2>1, HeardAsk DEF Script, Authenticating
<1>4. CASE Replies(<<"success">>, "success")
  <2>1. In(Ready, 1, <<>>, <<"success">>)' /\ phase' = "success" /\ 1 \in 0..2
    BY <1>1, <1>2, <1>4, HeardAsk, Line
  <2> QED BY <1>1, <1>2, <2>1, HeardAsk DEF Script, Authenticating
<1>5. CASE Replies(<<"badproof">>, "forged")
  <2>1. In(Ready, 1, <<>>, <<"badproof">>)' /\ phase' = "forged"
    BY <1>1, <1>2, <1>5, HeardAsk, Line
  <2> QED BY <1>1, <2>1, HeardAsk DEF Script, Authenticating
<1>6. CASE Replies(<<"failure">>, "refused")
  <2>1. In(Ready, 1, <<>>, <<"failure">>)' /\ phase' = "refused" /\ 1 \in 0..1
    BY <1>1, <1>2, <1>6, HeardAsk, Line
  <2> QED BY <1>1, <2>1, HeardAsk DEF Script, Authenticating
<1> QED BY <1>3, <1>4, <1>5, <1>6 DEF ServeResponse

LEMMA ServeAckScript ==
  ASSUME HandshakeTypeOK, Script, ServeAck
  PROVE  Script'
<1>1. Hears("ack") /\ Replies(<<"success">>, "success")
  BY DEF ServeAck
<1>2. server.version /\ Ask(Ready, 2, "ack")
  BY <1>1, HeardAsk DEF Asked, Ask
<1>3. In(Ready, 2, <<>>, <<"success">>)' /\ phase' = "success" /\ 2 \in 0..2
  BY <1>1, <1>2, HeardAsk, Line
<1> QED BY <1>1, <1>2, <1>3, HeardAsk DEF Script, Authenticating

LEMMA ServeBindScript ==
  ASSUME HandshakeTypeOK, Script, ServeBind
  PROVE  Script'
<1>1. Hears("bind")
  BY DEF ServeBind
<1>2. /\ Ask(Ready, 0, "bind") /\ (server.login # "nosession" => sessionAvailable)
  BY <1>1, HeardAsk DEF Asked, Ask
<1>3. CASE server.login = "nobind"
  <2>1. In(Ready, 0, <<>>, <<"binderror">>)' /\ phase' = "refused"
    BY <1>1, <1>2, <1>3, HeardAsk, Line DEF ServeBind
  <2> QED BY <1>1, <1>3, <2>1, HeardAsk DEF Script, Authenticating
<1>4. CASE server.login # "nobind"
  <2>1. In(Ready, 0, <<>>, <<"bound">>)' /\ phase' = "bound"
    BY <1>1, <1>2, <1>4, HeardAsk, Line DEF ServeBind
  <2> QED BY <1>1, <1>2, <2>1, HeardAsk DEF Script, LoggingIn
<1> QED BY <1>3, <1>4

LEMMA ServeSessionScript ==
  ASSUME HandshakeTypeOK, Script, ServeSession
  PROVE  Script'
<1>1. Hears("session")
  BY DEF ServeSession
<1>2. Ask(Ready, 0, "session")
  BY <1>1, HeardAsk DEF Asked, Ask
<1>3. CASE server.login = "session"
  <2>1. In(Ready, 0, <<>>, <<"session">>)' /\ phase' = "done"
    BY <1>1, <1>2, <1>3, HeardAsk, Line DEF ServeSession
  <2> QED BY <1>1, <2>1, HeardAsk DEF Script, LoggingIn
<1>4. CASE server.login # "session"
  <2>1. In(Ready, 0, <<>>, <<"sessionerror">>)' /\ phase' = "sessionless"
    BY <1>1, <1>2, <1>4, HeardAsk, Line DEF ServeSession
  <2> QED BY <1>1, <1>4, <2>1, HeardAsk DEF Script, LoggingIn
<1> QED BY <1>3, <1>4

LEMMA ServeQueryScript ==
  ASSUME HandshakeTypeOK, Script, ServeQuery
  PROVE  Script'
<1>1. Hears("query") /\ Replies(<<server.auth>>, "asked")
  BY DEF ServeQuery
<1>2. server.auth \in Queries /\ Ask(Ready, 0, "query")
  BY <1>1, HeardAsk DEF Asked, Ask
<1>3. In(Ready, 0, <<>>, <<server.auth>>)' /\ phase' = "asked"
  BY <1>1, <1>2, HeardAsk, Line
<1> QED BY <1>1, <1>2, <1>3, HeardAsk DEF Script, Authenticating

LEMMA ServeLoginScript ==
  ASSUME HandshakeTypeOK, Script, ServeLogin
  PROVE  Script'
<1>1. PICK m \in {"olddigest", "digest", "password"} :
        /\ Hears(m)
        /\ Replies(<<"result">>, "done") \/ Replies(<<"autherror">>, "refused")
  BY DEF ServeLogin
<1>2. server.auth \in Queries /\ Ask(Ready, 0, m)
  BY <1>1, HeardAsk DEF Asked, Ask
<1>3. CASE Replies(<<"result">>, "done")
  <2>1. In(Ready, 0, <<>>, <<"result">>)' /\ phase' = "done"
    BY <1>1, <1>2, <1>3, HeardAsk, Line
  <2> QED BY <1>1, <2>1, HeardAsk DEF Script, LoggingIn
<1>4. CASE Replies(<<"autherror">>, "refused")
  <2>1. In(Ready, 0, <<>>, <<"autherror">>)' /\ phase' = "refused"
    BY <1>1, <1>2, <1>4, HeardAsk, Line
  <2> QED BY <1>1, <1>2, <2>1, HeardAsk DEF Script, Authenticating
<1> QED BY <1>1, <1>3, <1>4

LEMMA ServerScript ==
  ASSUME HandshakeTypeOK, Script, ServerAnswers
  PROVE  Script'
  BY ServeStreamScript, ServeTlsScript, ServeAuthScript, ServeResponseScript,
     ServeAckScript, ServeBindScript, ServeSessionScript, ServeQueryScript,
     ServeLoginScript DEF ServerAnswers
-----------------------------------------------------------------------------
(* Encryption starts where the script has it. *)
LEMMA EncryptedScript ==
  ASSUME HandshakeTypeOK, Script, phase # "ended", socketEncrypted
  PROVE  Script'
<1>1. /\ socket = "handshake" /\ tls = "starting" /\ tls' = "on"
      /\ toServer' = Append(toServer, "stream") /\ saslStep' = 0
      /\ UNCHANGED <<socket, server, phase, toClient>>
  BY DEF socketEncrypted, handleStart, vars
<1>2. \A t, n, out, in : In(t, n, out, in) => t = "starting"
  BY <1>1 DEF In
<1>3. /\ phase = "tls" /\ server.version /\ server.tls /\ In("starting", 0, <<>>, <<>>)
  <2>1. CASE Opening
    BY <2>1, <1>2 DEF Opening, Ready
  <2>2. CASE Authenticating
    BY <2>2, <1>2 DEF Authenticating, Ready
  <2>3. CASE LoggingIn
    BY <2>3, <1>2 DEF LoggingIn, Ready
  <2> QED BY <1>1, <2>1, <2>2, <2>3 DEF Script
<1>4. In("on", 0, <<"stream">>, <<>>)'
  BY <1>1, <1>3, One DEF In
<1> QED BY <1>1, <1>3, <1>4 DEF Script, Opening

(* A connection starts with nothing on its way. *)
LEMMA ConnectedScript ==
  ASSUME HandshakeTypeOK, Between, socketConnected
  PROVE  Script' /\ phase' = "new" /\ socket' = "handshake"
<1>1. /\ socket = "connecting" /\ socket' = "handshake" /\ phase' = "new" /\ tls' = "off"
      /\ toServer' = Append(toServer, "stream") /\ saslStep' = 0 /\ toClient' = toClient
  BY DEF socketConnected, SocketConnected, handleStart
<1>2. toServer = <<>> /\ toClient = <<>>
  BY <1>1 DEF Between
<1>3. In("off", 0, <<"stream">>, <<>>)'
  BY <1>1, <1>2, One DEF In
<1> QED BY <1>1, <1>3 DEF Script, Opening

(* The client's steps but the last: it has read a message, or has gone.    *)
LEMMA ClientSteps ==
  ASSUME ClientHandles
  PROVE  /\ socket \in {"handshake", "online"}
         /\ UNCHANGED <<server, phase>>
         /\ \/ /\ socket' = socket /\ socket = "handshake"
               /\ toClient # <<>> /\ toClient' = Tail(toClient)
               /\ Head(toClient) \notin {"streamerror", "conflict"}
            \/ socket' \in {"closing", "ended"} /\ Silence
            \/ \E m \in Answers : handleLogin(m)
         /\ socket' = "closing" => \/ \E m \in Answers : handleChallenge(m) \/ handleFields(m)
                                  \/ handleFailure
<1> USE DEF connection, vars, Reads
<1>1. ASSUME NEW m \in Answers, handleStream(m)
      PROVE  /\ socket' = socket /\ Reads(m) /\ UNCHANGED <<server, phase>>
             /\ m \notin {"streamerror", "conflict"}
  BY <1>1 DEF handleStream
<1>2. ASSUME NEW m \in Answers, handleChallenge(m)
      PROVE  /\ socket = "handshake" /\ UNCHANGED <<server, phase>>
             /\ m \notin {"streamerror", "conflict"}
             /\ (socket' = socket /\ Reads(m)) \/ (socket' = "closing" /\ Silence)
  BY <1>2 DEF handleChallenge, GiveUp, HandshakeGivenUp
<1>3. ASSUME NEW m \in Answers, handleFields(m)
      PROVE  /\ socket = "handshake" /\ UNCHANGED <<server, phase>>
             /\ m \notin {"streamerror", "conflict"}
             /\ (socket' = socket /\ Reads(m)) \/ (socket' = "closing" /\ Silence)
  BY <1>3 DEF handleFields, GiveUp, HandshakeGivenUp, Queries
<1>4. CASE handleFeatures \/ handleProceed \/ handleSuccess \/ handleBound \/ handleError
  BY <1>4 DEF handleFeatures, handleProceed, handleSuccess, handleBound, handleError
<1>5. CASE handleFailure
  BY <1>5 DEF handleFailure, AuthenticationFailure
<1>6. ASSUME NEW conflict \in BOOLEAN, handleStreamError(conflict)
      PROVE  /\ socket \in {"handshake", "online"} /\ UNCHANGED <<server, phase>>
             /\ socket' = "ended" /\ Silence
  BY <1>6 DEF handleStreamError, StreamError
<1>7. ASSUME NEW m \in Answers, handleLogin(m)
      PROVE  socket = "handshake" /\ socket' = "online" /\ UNCHANGED <<server, phase>>
  BY <1>7 DEF handleLogin, SessionStarted
<1> QED BY <1>1, <1>2, <1>3, <1>4, <1>5, <1>6, <1>7 DEF ClientHandles

LEMMA ClientScript ==
  ASSUME HandshakeTypeOK, Script, Ending, ClientHandles
  PROVE  /\ Script'
         /\ socket' = "online" => /\ OnlineMeansLoggedIn'
                                  /\ phase' # "ended" => toServer' = <<>> /\ toClient' = <<>>
         /\ phase # "ended" => GivesUpWithReason'
<1>1. CASE \E m \in Answers : handleLogin(m)
  BY <1>1, LoginScript DEF GivesUpWithReason
<1>2. CASE phase = "ended" /\ ~\E m \in Answers : handleLogin(m)
  BY <1>2, ClientSteps DEF Script
<1>3. CASE phase # "ended" /\ ~\E m \in Answers : handleLogin(m)
  <2>1. socket' # "online"
    BY <1>3, ClientSteps
  <2>2. Script'
    <3>1. CASE \E m \in Answers : handleStream(m) \/ handleChallenge(m) \/ handleFields(m)
      BY <1>3, <3>1, StreamScript, ChallengeScript, FieldsScript
    <3>2. CASE handleFeatures \/ handleProceed \/ handleSuccess \/ handleFailure
      BY <1>3, <3>2, FeaturesScript, ProceedScript, SuccessScript, FailureScript
    <3>3. CASE handleBound \/ handleError
      BY <1>3, <3>3, BoundScript, ErrorScript
    <3>4. CASE \E conflict \in BOOLEAN : handleStreamError(conflict)
      BY <3>4 DEF handleStreamError, StreamError, Script
    <3> QED BY <1>3, <3>1, <3>2, <3>3, <3>4 DEF ClientHandles
  <2>3. GivesUpWithReason'
    BY <1>3, ClientSteps, ChallengeScript, FieldsScript, FailureScript DEF GivesUpWithReason
  <2> QED BY <2>1, <2>2, <2>3
<1> QED BY <1>1, <1>2, <1>3

(* What is left of an ended stream after a message was read. *)
LEMMA TailEnding ==
  ASSUME HandshakeTypeOK, Ending, socket = "handshake", phase' = "ended" => phase = "ended",
         toClient # <<>>, toClient' = Tail(toClient),
         Head(toClient) \notin {"streamerror", "conflict"}
  PROVE  Ending'
<1>1. toClient \in Seq(Answers)
  BY DEF HandshakeTypeOK
<1>2. ASSUME NEW i \in 1..Len(toClient')
      PROVE  i + 1 \in 1..Len(toClient) /\ toClient'[i] = toClient[i + 1] /\ i + 1 # 1
  BY <1>1, <1>2
<1>3. CASE phase = "ended"
  <2>1. toClient[Len(toClient)] \in {"streamerror", "conflict"} /\ Head(toClient) = toClient[1]
    BY <1>1, <1>3 DEF Ending
  <2>2. Len(toClient) \in Nat /\ Len(toClient) > 1
    BY <1>1, <2>1
  <2>3. /\ Len(toClient') = Len(toClient) - 1 /\ toClient' # <<>>
        /\ Len(toClient') \in 1..Len(toClient')
    BY <1>1, <2>2
  <2>4. toClient'[Len(toClient')] = toClient[Len(toClient)]
    BY <1>2, <2>2, <2>3
  <2> QED BY <1>2, <1>3, <2>1, <2>3, <2>4 DEF Ending
<1>4. CASE phase # "ended"
  BY <1>4 DEF Ending
<1> QED BY <1>3, <1>4

(* A stream that ends. *)
LEMMA EndsEnding ==
  ASSUME HandshakeTypeOK, Script, ServerEnds
  PROVE  Ending'
<1> USE DEF ServerEnds
<1>1. PICK e \in {"streamerror", "conflict"} : toClient' = Append(toClient, e)
  OBVIOUS
<1>2. UNCHANGED <<socket, server, tls>> /\ phase # "ended" /\ toClient \in Seq(Answers)
  BY DEF vars, HandshakeTypeOK
<1>3. CASE socket = "handshake"
  <2> DEFINE Lets == {"session", "sessionerror", "result"}
  <2>1. /\ toClient # <<>> => Tail(toClient) = <<>> \/ Head(toClient) = "header"
        /\ Tail(toClient) # <<>> /\ toClient # <<>> => Len(Tail(toClient)) = 1 /\ Head(Tail(toClient)) \notin Lets
        /\ toClient # <<>> /\ Head(toClient) \in Lets => tls = Ready
    <3>1. CASE toClient = <<>>
      BY <3>1
    <3>2. CASE toClient # <<>>
      <4>1. OpeningTurn \/ AuthenticatingTurn \/ LoggingInTurn
        BY <1>2, <1>3, <3>2, OpeningHeard, AuthenticatingHeard, LoggingInHeard DEF Script
      <4>2. CASE OpeningTurn
        BY <4>2, One DEF OpeningTurn, Turn
      <4>3. CASE AuthenticatingTurn
        BY <4>3, One DEF AuthenticatingTurn, Turn, Queries
      <4>4. CASE LoggingInTurn
        BY <4>4, One DEF LoggingInTurn, Turn
      <4> QED BY <4>1, <4>2, <4>3, <4>4
    <3> QED BY <3>1, <3>2
  <2>2. ASSUME NEW i \in 1..Len(toClient'), toClient'[i] \in Lets
        PROVE  i = 1 /\ tls = Ready
    <3>1. toClient'[i] # e
      BY <1>1, <2>2
    <3>2. i \in 1..Len(toClient) /\ toClient'[i] = toClient[i] /\ toClient # <<>>
      BY <1>1, <1>2, <2>2, <3>1
    <3>3. CASE i = 1
      BY <1>2, <2>1, <2>2, <3>2, <3>3
    <3>4. CASE i # 1
      <4>1. Tail(toClient) # <<>> /\ i - 1 \in 1..Len(Tail(toClient)) /\ toClient[i] = Tail(toClient)[i - 1]
        BY <1>2, <3>2, <3>4
      <4>2. Len(Tail(toClient)) = 1 /\ Head(Tail(toClient)) \notin Lets
        BY <2>1, <3>2, <4>1
      <4>3. \A j \in Int : j \in 1..1 => j = 1
        OBVIOUS
      <4>4. i \in Int /\ i - 1 \in 1..1
        BY <2>2, <4>1, <4>2
      <4>5. i - 1 = 1
        BY <4>3, <4>4
      <4>6. Tail(toClient)[1] \in Lets
        BY <2>2, <3>2, <4>1, <4>5
      <4> QED BY <1>2, <4>1, <4>2, <4>6
    <3> QED BY <3>3, <3>4
  <2>3. toClient' # <<>> /\ toClient'[Len(toClient')] = e
    BY <1>1, <1>2
  <2> QED BY <1>1, <1>2, <2>2, <2>3 DEF Ending, Ready
<1>4. CASE socket # "handshake"
  BY <1>2, <1>4 DEF Ending
<1> QED BY <1>3, <1>4
-----------------------------------------------------------------------------
(* Every step is one of the client that XmppLink describes, or none. *)
LEMMA LinkStep == [HandshakeNext]_handshakeVars => [Next]_vars
<1> SUFFICES ASSUME HandshakeNext PROVE Next \/ UNCHANGED vars
  BY DEF handshakeVars
<1>1. CASE socketConnected
  BY <1>1 DEF socketConnected, Next
<1>2. CASE socketEncrypted
  BY <1>2 DEF socketEncrypted
<1>3. CASE Broken
  BY <1>3 DEF Broken, Next
<1>4. CASE Waiting
  BY <1>4 DEF Waiting, Next
<1>5. CASE OtherClient
  BY <1>5 DEF OtherClient, Next
<1>6. CASE ClientHandles
  <2>1. ASSUME NEW m, handleStream(m) \/ handleChallenge(m) \/ handleLogin(m) \/ handleFields(m)
        PROVE  Next \/ UNCHANGED vars
    BY <2>1 DEF handleStream, handleChallenge, handleLogin, handleFields, GiveUp, Next, Answer
  <2>2. CASE handleFeatures \/ handleProceed \/ handleSuccess \/ handleBound \/ handleError
    BY <2>2 DEF handleFeatures, handleProceed, handleSuccess, handleBound, handleError
  <2>3. CASE handleFailure
    BY <2>3 DEF handleFailure, Next, Answer
  <2>4. CASE \E conflict \in BOOLEAN : handleStreamError(conflict)
    BY <2>4 DEF handleStreamError, Next
  <2> QED BY <1>6, <2>1, <2>2, <2>3, <2>4 DEF ClientHandles
<1>7. CASE ServerAnswers
  BY <1>7 DEF ServerAnswers, ServeStream, ServeTls, ServeAuth, ServeResponse, ServeAck,
       ServeBind, ServeSession, ServeQuery, ServeLogin, Hears
<1>8. CASE ServerEnds
  BY <1>8 DEF ServerEnds
<1> QED BY <1>1, <1>2, <1>3, <1>4, <1>5, <1>6, <1>7, <1>8 DEF HandshakeNext

LEMMA TypeStep ==
  ASSUME HandshakeTypeOK, Script, TypeOK', [HandshakeNext]_handshakeVars
  PROVE  HandshakeTypeOK'
<1> DEFINE Hand == /\ server' \in Servers /\ phase' \in DOMAIN Expected'
                   /\ tls' \in {"off", "starting", "on"}
                   /\ toServer' \in Seq(Requests) /\ toClient' \in Seq(Answers)
                   /\ saslStep' \in Nat /\ streamId' \in {"none", "this", "old"}
                   /\ streamVersion' \in BOOLEAN /\ sessionAvailable' \in BOOLEAN
<1> SUFFICES Hand
  BY DEF HandshakeTypeOK
<1>1. DOMAIN Expected' = DOMAIN Expected
  BY DEF Expected
<1>2. /\ server \in Servers /\ phase \in DOMAIN Expected
      /\ tls \in {"off", "starting", "on"}
      /\ toServer \in Seq(Requests) /\ toClient \in Seq(Answers)
      /\ saslStep \in Nat /\ streamId \in {"none", "this", "old"}
      /\ streamVersion \in BOOLEAN /\ sessionAvailable \in BOOLEAN
  BY DEF HandshakeTypeOK
<1> HIDE DEF HandshakeTypeOK
<1>3. /\ <<>> \in Seq(Requests) /\ <<>> \in Seq(Answers)
      /\ \A m \in Requests : Append(toServer, m) \in Seq(Requests)
      /\ toClient # <<>> => Tail(toClient) \in Seq(Answers)
      /\ toServer # <<>> => Tail(toServer) \in Seq(Requests)
      /\ \A a \in Answers : /\ Append(toClient, a) \in Seq(Answers)
                            /\ toClient \o <<a>> \in Seq(Answers)
      /\ \A a, b \in Answers : toClient \o <<a, b>> \in Seq(Answers)
  BY <1>2
<1>4. DOMAIN Expected =
        {"new", "starttls", "tls", "open", "challenged", "proved", "success", "authed",
         "bound", "asked", "refused", "forged", "done", "sessionless", "ended"}
  BY DEF Expected
<1>5. CASE socketConnected
  BY <1>1, <1>2, <1>3, <1>4, <1>5 DEF socketConnected, handleStart, kept, Requests
<1>6. CASE socketEncrypted
  BY <1>1, <1>2, <1>3, <1>6 DEF socketEncrypted, handleStart, kept, Requests
<1>7. CASE Broken \/ Waiting \/ OtherClient
  <2>1. CASE Broken
    BY <1>1, <1>2, <1>3, <2>1 DEF Broken, Silence, connection, kept
  <2>2. CASE Waiting
    BY <1>1, <1>2, <2>2 DEF Waiting, handVars, connection, kept
  <2>3. CASE OtherClient
    BY <1>1, <1>2, <1>3, <2>3 DEF OtherClient, Silence, connection
  <2> QED BY <1>7, <2>1, <2>2, <2>3
<1>8. CASE ClientHandles
  <2> USE <1>1, <1>2, <1>3 DEF Reads, Send, Ignore, connection, kept, Requests
  <2>1. ASSUME NEW m \in Answers, handleStream(m) PROVE Hand
    BY <2>1 DEF handleStream
  <2>2. ASSUME NEW m \in Answers, handleChallenge(m) PROVE Hand
    <3>1. saslStep' \in Nat
      BY <2>2 DEF handleChallenge
    <3>2. CASE GiveUp
      BY <2>2, <3>1, <3>2 DEF GiveUp, Silence
    <3>3. CASE ~GiveUp
      BY <2>2, <3>1, <3>3 DEF handleChallenge
    <3> QED BY <3>2, <3>3
  <2>3. ASSUME NEW m \in Answers, handleFields(m) PROVE Hand
    <3>1. CASE GiveUp
      BY <2>3, <3>1 DEF handleFields, GiveUp, Silence
    <3>2. CASE ~GiveUp
      BY <2>3, <3>2 DEF handleFields
    <3> QED BY <3>1, <3>2
  <2>4. ASSUME NEW m \in Answers, handleLogin(m) PROVE Hand
    BY <2>4 DEF handleLogin
  <2>5. CASE handleFeatures
    BY <2>5 DEF handleFeatures, Authenticate
  <2>6. CASE handleProceed \/ handleSuccess \/ handleBound \/ handleError
    <3>1. CASE handleProceed
      BY <3>1 DEF handleProceed
    <3>2. CASE handleSuccess
      BY <3>2 DEF handleSuccess, handleStart
    <3>3. CASE handleBound
      BY <3>3 DEF handleBound
    <3>4. CASE handleError
      BY <3>4 DEF handleError
    <3> QED BY <2>6, <3>1, <3>2, <3>3, <3>4
  <2>7. CASE handleFailure \/ \E conflict \in BOOLEAN : handleStreamError(conflict)
    BY <2>7 DEF handleFailure, handleStreamError, Silence
  <2> QED BY <1>8, <2>1, <2>2, <2>3, <2>4, <2>5, <2>6, <2>7 DEF ClientHandles
<1>9. CASE ServerAnswers
  <2>1. ASSUME NEW m, Hears(m), NEW p \in DOMAIN Expected, NEW a \in Answers,
               Replies(<<a>>, p)
        PROVE  Hand
    BY <1>1, <1>2, <1>3, <2>1 DEF Hears, Replies, kept
  <2>2. ASSUME NEW m, Hears(m), NEW p \in DOMAIN Expected, NEW a \in Answers,
               NEW b \in Answers, Replies(<<a, b>>, p)
        PROVE  Hand
    BY <1>1, <1>2, <1>3, <2>2 DEF Hears, Replies, kept
  <2> HIDE DEF Hand
  <2>3. CASE ServeStream
    BY <2>1, <2>2, <2>3, <1>4 DEF ServeStream, Answers
  <2>4. CASE ServeTls \/ ServeAuth \/ ServeResponse \/ ServeAck
    BY <2>1, <2>4, <1>4 DEF ServeTls, ServeAuth, ServeResponse, ServeAck, Answers
  <2>5. CASE ServeBind \/ ServeSession \/ ServeLogin
    BY <2>1, <2>5, <1>4 DEF ServeBind, ServeSession, ServeLogin, Answers
  <2>6. CASE ServeQuery
    <3>1. Hears("query") /\ Replies(<<server.auth>>, "asked")
      BY <2>6 DEF ServeQuery
    <3>2. server.auth \in Queries
      BY <3>1, HeardAsk DEF Asked, Ask
    <3> QED BY <2>1, <3>1, <3>2, <1>4 DEF Answers
  <2> QED BY <1>9, <2>3, <2>4, <2>5, <2>6 DEF ServerAnswers
<1>10. CASE ServerEnds
  BY <1>1, <1>2, <1>3, <1>4, <1>10 DEF ServerEnds, Answers, kept
<1>11. CASE UNCHANGED handshakeVars
  BY <1>1, <1>2, <1>11 DEF handshakeVars, handVars, connection, kept
<1> QED BY <1>5, <1>6, <1>7, <1>8, <1>9, <1>10, <1>11 DEF HandshakeNext
-----------------------------------------------------------------------------
(* What the script leaves open: who has gone or is online. *)
Outside == Script /\ Between /\ Ending /\ GivesUpWithReason /\ OnlineMeansLoggedIn

LEMMA HandshakeInitInv == HandshakeInit => HandshakeIInv
<1> SUFFICES ASSUME HandshakeInit PROVE HandshakeIInv
  OBVIOUS
<1>1. IInv
  BY InitInv DEF HandshakeInit
<1>2. socket = "lookup" /\ toServer = <<>> /\ toClient = <<>>
  BY DEF HandshakeInit, Init
<1>3. HandshakeTypeOK
  <2>1. "new" \in DOMAIN Expected
    BY DEF Expected
  <2>2. TypeOK /\ <<>> \in Seq(Requests) /\ <<>> \in Seq(Answers)
    BY <1>1 DEF IInv
  <2> QED BY <2>1, <2>2 DEF HandshakeTypeOK, HandshakeInit
<1> QED BY <1>1, <1>2, <1>3 DEF HandshakeIInv, Script, Between, Ending,
           GivesUpWithReason, OnlineMeansLoggedIn

LEMMA OutsideStep ==
  ASSUME HandshakeTypeOK, Outside, [HandshakeNext]_handshakeVars
  PROVE  Outside'
<1> USE DEF Outside
<1>1. CASE socketConnected
  BY <1>1, ConnectedScript DEF Between, Ending, GivesUpWithReason, OnlineMeansLoggedIn
<1>2. CASE socketEncrypted
  <2>1. /\ socket = "handshake" /\ socket' = socket /\ tls' = "on"
        /\ UNCHANGED <<server, phase, toClient>>
    BY <1>2 DEF socketEncrypted, vars
  <2>2. Script'
    BY <1>2, <2>1, EncryptedScript DEF Script
  <2>3. Ending'
    BY <2>1 DEF Ending
  <2> QED BY <2>1, <2>2, <2>3 DEF Between, GivesUpWithReason, OnlineMeansLoggedIn
<1>3. CASE Broken
  <2>1. socket' = "off" /\ Silence
    BY <1>3 DEF Broken, SocketError, Closed
  <2> QED BY <2>1 DEF Silence, Script, Between, Ending, GivesUpWithReason, OnlineMeansLoggedIn
<1>4. CASE Waiting \/ UNCHANGED handshakeVars
  <2>1. /\ UNCHANGED <<server, phase, tls, toServer, toClient, saslStep, streamVersion,
                     sessionAvailable>>
        /\ \/ socket' = socket
           \/ {socket, socket'} \subseteq {"off", "lookup", "connecting"}
    BY <1>4 DEF Waiting, LookedUp, reconnect, NetChanges, handshakeVars, vars, handVars,
           connection, kept
  <2>2. CASE socket' = socket
    <3>1. Opening' = Opening
      BY <2>1 DEF Opening, In, Ready
    <3>2. Authenticating' = Authenticating
      BY <2>1 DEF Authenticating, In, Ready
    <3>3. LoggingIn' = LoggingIn
      BY <2>1 DEF LoggingIn, In, Ready
    <3> QED BY <2>1, <2>2, <3>1, <3>2, <3>3
            DEF Script, Between, Ending, GivesUpWithReason, OnlineMeansLoggedIn
  <2>3. CASE {socket, socket'} \subseteq {"off", "lookup", "connecting"}
    BY <2>1, <2>3 DEF Script, Between, Ending, GivesUpWithReason, OnlineMeansLoggedIn
  <2> QED BY <2>1, <2>2, <2>3
<1>5. CASE OtherClient
  <2>1. socket' = "lookup" /\ Silence
    BY <1>5 DEF OtherClient, ReplaceClient, Relaunch, NewClient
  <2> QED BY <2>1 DEF Silence, Script, Between, Ending, GivesUpWithReason, OnlineMeansLoggedIn
<1>6. CASE ClientHandles
  <2>1. Script' /\ OnlineMeansLoggedIn'
    BY <1>6, ClientScript DEF OnlineMeansLoggedIn
  <2>2. GivesUpWithReason'
    BY <1>6, ClientSteps, ClientScript DEF GivesUpWithReason
  <2>3. Between'
    <3>1. CASE \E m \in Answers : handleLogin(m)
      BY <1>6, <3>1, ClientScript, LoginScript DEF Between
    <3>2. CASE ~\E m \in Answers : handleLogin(m)
      BY <1>6, <3>2, ClientSteps DEF Between, Silence
    <3> QED BY <3>1, <3>2
  <2>4. Ending'
    BY <1>6, ClientSteps, TailEnding, LoginScript DEF Ending
  <2> QED BY <2>1, <2>2, <2>3, <2>4
<1>7. CASE ServerAnswers
  <2>1. PICK m : Hears(m) /\ phase' # "ended"
    BY <1>7 DEF ServerAnswers, ServeStream, ServeTls, ServeAuth, ServeResponse, ServeAck,
       ServeBind, ServeSession, ServeQuery, ServeLogin, Replies
  <2>2. socket = "handshake" /\ socket' = "handshake"
    BY <2>1 DEF Hears, vars
  <2> QED BY <1>7, <2>1, <2>2, ServerScript
          DEF Between, Ending, GivesUpWithReason, OnlineMeansLoggedIn
<1>8. CASE ServerEnds
  <2>1. /\ socket' = socket /\ socket \in {"handshake", "online"} /\ phase' = "ended"
        /\ UNCHANGED <<server, tls>>
    BY <1>8 DEF ServerEnds, vars
  <2>2. Ending'
    BY <1>8, EndsEnding
  <2> QED BY <2>1, <2>2 DEF Script, Between, GivesUpWithReason, OnlineMeansLoggedIn
<1> QED BY <1>1, <1>2, <1>3, <1>4, <1>5, <1>6, <1>7, <1>8 DEF HandshakeNext

LEMMA HandshakeStepInv == HandshakeIInv /\ [HandshakeNext]_handshakeVars => HandshakeIInv'
<1> SUFFICES ASSUME HandshakeIInv, [HandshakeNext]_handshakeVars PROVE HandshakeIInv'
  OBVIOUS
<1>1. IInv'
  BY LinkStep, StepInv DEF HandshakeIInv
<1>2. HandshakeTypeOK'
  BY <1>1, TypeStep DEF HandshakeIInv, IInv
<1>3. Outside'
  BY OutsideStep DEF HandshakeIInv, Outside
<1> QED BY <1>1, <1>2, <1>3 DEF HandshakeIInv, Outside
-----------------------------------------------------------------------------
(* The inductive invariant. *)
THEOREM HandshakeInvariance == HandshakeSpec => []HandshakeIInv
  BY HandshakeInitInv, HandshakeStepInv, PTL DEF HandshakeSpec

(* The client that speaks is the client of XmppLink, so that what is true  *)
(* of that one is true of it: m_connected tells whether a session is open, *)
(* and who is down tries again unless it was refused. *)
THEOREM HandshakeImplementsLink == HandshakeSpec => Spec
<1>1. HandshakeInit => Init
  BY DEF HandshakeInit
<1> QED BY <1>1, LinkStep, PTL DEF HandshakeSpec, Spec

(* The client never sends what the server does not expect. *)
LEMMA ScriptNoSurprise == HandshakeIInv => NoSurprise
<1> SUFFICES ASSUME HandshakeIInv, socket = "handshake", phase # "ended"
             PROVE  /\ Len(toServer) <= 1
                    /\ toServer # <<>> => Head(toServer) \in Expected[phase]
                    /\ phase \notin {"new", "starttls", "tls"} /\ server.tls => tls = "on"
  BY DEF NoSurprise
<1>1. Len(<<>>) <= 1 /\ \A m : Len(<<m>>) <= 1
  OBVIOUS
<1>2. Opening \/ Authenticating \/ LoggingIn
  BY DEF HandshakeIInv, Script
<1>3. phase \notin {"new", "starttls", "tls"} /\ server.tls => tls = "on"
  <2>1. phase \notin {"new", "starttls", "tls"} => \E n, out, in : In(Ready, n, out, in)
    BY <1>2 DEF Opening, Authenticating, LoggingIn
  <2> QED BY <2>1 DEF In, Ready
<1>4. CASE toServer = <<>>
  BY <1>1, <1>3, <1>4
<1>5. CASE toServer # <<>>
  <2>1. Asked
    BY <1>5, AskedOne DEF HandshakeIInv
  <2>2. Head(toServer) \in Expected[phase]
    BY <2>1 DEF Asked, Ask, Expected, Queries
  <2>3. toServer \in Seq(Requests) /\ Tail(toServer) = <<>>
    BY <2>1 DEF Asked, Ask, HandshakeIInv, HandshakeTypeOK
  <2>4. Len(toServer) <= 1
    BY <1>5, <2>3
  <2> QED BY <1>3, <2>2, <2>4
<1> QED BY <1>4, <1>5

THEOREM Unsurprised == HandshakeSpec => []NoSurprise
  BY ScriptNoSurprise, HandshakeInvariance, PTL

(* It gives a handshake up only for what the server said in this one. *)
THEOREM Reasons == HandshakeSpec => []GivesUpWithReason
<1>1. HandshakeIInv => GivesUpWithReason
  BY DEF HandshakeIInv
<1> QED BY <1>1, HandshakeInvariance, PTL

(* Who is online was let in. *)
THEOREM LetIn == HandshakeSpec => []OnlineMeansLoggedIn
<1>1. HandshakeIInv => OnlineMeansLoggedIn
  BY DEF HandshakeIInv
<1> QED BY <1>1, HandshakeInvariance, PTL

(* Client and server wait for each other only in these cases. *)
LEMMA LineFull == \A t, n, out, in, m : ~In(t, n, <<m>>, in) \/ toServer # <<>>
  BY One DEF In

LEMMA ScriptStalls == HandshakeIInv => StallsOnlyWhen
<1> SUFFICES ASSUME HandshakeIInv, Stalled
             PROVE  \/ phase = "open" /\ server.auth = "unknown"
                    \/ phase = "open" /\ ~server.version /\ streamVersion
                    \/ phase = "bound" /\ server.login = "nosession"
                    \/ phase = "refused" /\ (server.login = "nobind" \/ server.auth \in Queries)
  BY DEF StallsOnlyWhen
<1>1. /\ socket = "handshake" /\ tls # "starting" /\ toServer = <<>> /\ toClient = <<>>
  BY DEF Stalled
<1>2. Opening \/ Authenticating \/ LoggingIn
  BY <1>1 DEF HandshakeIInv, Script, Ending
<1> QED BY <1>1, <1>2, LineOne, LineTwo, LineFull, LineNone
        DEF Opening, Authenticating, LoggingIn

THEOREM Stalls == HandshakeSpec => []StallsOnlyWhen
  BY ScriptStalls, HandshakeInvariance, PTL
-----------------------------------------------------------------------------
(* The steps a handshake has left. *)

LEMMA PhaseLeft ==
  \A p \in DOMAIN Expected : PhasesLeft[p] \in 0..10
  BY DEF Expected, PhasesLeft

(* They are a natural number, so they run out. *)
LEMMA LeftNat == HandshakeTypeOK => StepsLeft \in Nat
<1> SUFFICES ASSUME HandshakeTypeOK PROVE StepsLeft \in Nat
  OBVIOUS
<1>1. PhasesLeft[phase] \in Nat /\ Len(toClient) \in Nat /\ Len(toServer) \in Nat
  BY PhaseLeft DEF HandshakeTypeOK
<1> HIDE DEF PhasesLeft
<1> QED BY <1>1 DEF StepsLeft

(* A message is read, and answered by one at most. *)
LEMMA ReadCounts ==
  ASSUME HandshakeTypeOK, phase' = phase, toClient # <<>>, toClient' = Tail(toClient),
         \/ UNCHANGED <<toServer, tls>>
         \/ \E m : Send(m) /\ UNCHANGED tls
         \/ UNCHANGED toServer /\ tls' = "starting"
  PROVE  StepsLeft' < StepsLeft
<1>1. PhasesLeft[phase] \in Nat
  <2>1. phase \in DOMAIN Expected
    BY DEF HandshakeTypeOK
  <2> HIDE DEF PhasesLeft
  <2> QED BY <2>1, PhaseLeft
<1>2. /\ Len(toClient) \in Nat /\ Len(toClient) >= 1 /\ Len(toServer) \in Nat
      /\ Len(toClient') = Len(toClient) - 1
      /\ Len(toServer') \in {Len(toServer), Len(toServer) + 1}
      /\ tls' = tls \/ (tls' = "starting" /\ Len(toServer') = Len(toServer))
  BY DEF HandshakeTypeOK, Send
<1>3. PhasesLeft'[phase'] = PhasesLeft[phase]
  BY DEF PhasesLeft
<1> HIDE DEF PhasesLeft
<1> DEFINE p == PhasesLeft[phase]
           c == Len(toClient)
           s == Len(toServer)
           r == Len(toServer')
           t == IF tls = "starting" THEN 2 ELSE 0
           u == IF tls' = "starting" THEN 2 ELSE 0
<1>4. StepsLeft = 6 * p + 3 * c + s + t
  BY DEF StepsLeft
<1>5. StepsLeft' = 6 * p + 3 * (c - 1) + r + u
  BY <1>2, <1>3 DEF StepsLeft
<1>6. /\ p \in Nat /\ c \in Nat /\ s \in Nat
      /\ r = s \/ r = s + 1
      /\ t \in {0, 2} /\ u \in {0, 2}
      /\ u = t \/ r = s
  BY <1>1, <1>2
<1> HIDE DEF p, c, s, r, t, u
<1> QED BY <1>4, <1>5, <1>6

(* A request is answered by two messages at most, in a later phase. *)
LEMMA AnswerCounts ==
  ASSUME HandshakeTypeOK, Script, NEW m, Hears(m),
         NEW p \in DOMAIN Expected, PhasesLeft[p] < PhasesLeft[phase],
         (\E a : Replies(<<a>>, p)) \/ (\E a, b : Replies(<<a, b>>, p))
  PROVE  StepsLeft' < StepsLeft
<1>1. PhasesLeft[phase] \in Nat /\ PhasesLeft[p] \in Nat
  BY PhaseLeft DEF HandshakeTypeOK
<1>2. toServer # <<>> /\ toServer' = <<>> /\ toClient = <<>> /\ tls' = tls
  BY HeardAsk DEF Hears
<1>3. /\ Len(toServer) \in Nat /\ Len(toServer) >= 1 /\ Len(toServer') = 0
      /\ Len(toClient) = 0
  BY <1>2 DEF HandshakeTypeOK
<1>4. phase' = p /\ (Len(toClient') = 1 \/ Len(toClient') = 2)
  BY <1>2, One, Two DEF Replies
<1>5. PhasesLeft'[phase'] = PhasesLeft[p]
  BY <1>4 DEF PhasesLeft
<1> HIDE DEF PhasesLeft
<1> DEFINE starting == IF tls = "starting" THEN 2 ELSE 0
<1>6. starting \in Nat
  OBVIOUS
<1>7. StepsLeft = 6 * PhasesLeft[phase] + 3 * 0 + Len(toServer) + starting
  BY <1>3 DEF StepsLeft
<1>8. StepsLeft' = 6 * PhasesLeft[p] + 3 * Len(toClient') + 0 + starting
  BY <1>2, <1>3, <1>5 DEF StepsLeft
<1> HIDE DEF starting
<1>9. \A later, now, out, s \in Nat :
        later < now /\ out >= 1 =>
          /\ 6 * later + 3 * 1 + 0 + s < 6 * now + 3 * 0 + out + s
          /\ 6 * later + 3 * 2 + 0 + s < 6 * now + 3 * 0 + out + s
  OBVIOUS
<1> QED BY <1>1, <1>3, <1>4, <1>6, <1>7, <1>8, <1>9

LEMMA ClientCounts ==
  ASSUME HandshakeTypeOK, ClientHandles, socket' = "handshake"
  PROVE  StepsLeft' < StepsLeft
<1> USE DEF connection
<1>1. CASE \E m \in Answers : handleStream(m) \/ handleLogin(m)
  BY <1>1, ReadCounts DEF handleStream, handleLogin, Reads, Ignore, SessionStarted
<1>2. CASE \E m \in Answers : handleChallenge(m) \/ handleFields(m)
  <2>1. ~GiveUp
    BY DEF GiveUp, HandshakeGivenUp
  <2>2. PICK m \in Answers : handleChallenge(m) \/ handleFields(m)
    BY <1>2
  <2>3. /\ toClient # <<>> /\ toClient' = Tail(toClient) /\ UNCHANGED <<phase, tls>>
        /\ \E x : Send(x)
    BY <2>1, <2>2 DEF handleChallenge, handleFields, Reads
  <2> QED BY <2>3, ReadCounts
<1>3. CASE handleFeatures
  BY <1>3, ReadCounts DEF handleFeatures, Reads, Ignore, Authenticate
<1>4. CASE handleProceed \/ handleSuccess
  BY <1>4, ReadCounts DEF handleProceed, handleSuccess, handleStart, Reads, Send
<1>5. CASE handleBound \/ handleError
  BY <1>5, ReadCounts DEF handleBound, handleError, Reads, Ignore
<1>6. ~handleFailure /\ ~\E conflict \in BOOLEAN : handleStreamError(conflict)
  BY DEF handleFailure, AuthenticationFailure, handleStreamError, StreamError
<1> QED BY <1>1, <1>2, <1>3, <1>4, <1>5, <1>6 DEF ClientHandles

LEMMA ServerCounts ==
  ASSUME HandshakeTypeOK, Script, ServerAnswers
  PROVE  StepsLeft' < StepsLeft
<1> USE DEF Asked, Ask
<1>1. /\ PhasesLeft.new = 10 /\ PhasesLeft.starttls = 9 /\ PhasesLeft.tls = 8
      /\ PhasesLeft.open = 7 /\ PhasesLeft.challenged = 6 /\ PhasesLeft.asked = 6
      /\ PhasesLeft.proved = 5 /\ PhasesLeft.success = 4 /\ PhasesLeft.authed = 3
      /\ PhasesLeft.bound = 2 /\ PhasesLeft.refused = 1 /\ PhasesLeft.forged = 1
      /\ PhasesLeft.done = 1 /\ PhasesLeft.sessionless = 1
  BY DEF PhasesLeft
<1>2. {"starttls", "tls", "open", "challenged", "proved", "success", "authed", "bound",
       "asked", "refused", "forged", "done", "sessionless"} \subseteq DOMAIN Expected
  BY DEF Expected
<1>3. CASE ServeStream
  <2>1. Hears("stream")
    BY <1>3 DEF ServeStream
  <2>2. PICK p \in {"starttls", "open", "authed"} :
          /\ (\E a : Replies(<<a>>, p)) \/ (\E a, b : Replies(<<a, b>>, p))
          /\ p = "starttls" => server.version /\ server.tls /\ tls = "off"
          /\ p = "authed" <=> (phase = "success" /\ ~(server.tls /\ tls = "off") /\ server.version)
    BY <1>3 DEF ServeStream
  <2>3. (phase \in {"new", "tls", "success"} /\ server.version) \/ phase = "new"
    BY <2>1, HeardAsk
  <2>4. phase \in {"tls", "success"} => ~(server.tls /\ tls = "off")
    BY <2>1, HeardAsk DEF Ready
  <2>5. PhasesLeft[p] < PhasesLeft[phase]
    BY <1>1, <2>2, <2>3, <2>4
  <2> QED BY <1>2, <2>1, <2>2, <2>5, AnswerCounts
<1>4. ASSUME NEW m, Hears(m), NEW p, NEW a, Replies(<<a>>, p),
             \/ m = "starttls" /\ p = "tls"
             \/ m = "auth" /\ p \in {"challenged", "success", "refused"}
             \/ m = "response" /\ p \in {"proved", "success", "forged", "refused"}
             \/ m = "ack" /\ p = "success"
             \/ m = "bind" /\ p \in {"refused", "bound"}
             \/ m = "session" /\ p \in {"done", "sessionless"}
             \/ m = "query" /\ p = "asked"
             \/ m \in {"olddigest", "digest", "password"} /\ p \in {"done", "refused"}
      PROVE  StepsLeft' < StepsLeft
  <2>1. /\ m = "starttls" => phase = "starttls"
        /\ m = "auth" => phase = "open"
        /\ m = "response" => phase = "challenged"
        /\ m = "ack" => phase = "proved"
        /\ m = "bind" => phase = "authed"
        /\ m = "session" => phase = "bound"
        /\ m = "query" => phase = "open"
        /\ m \in {"olddigest", "digest", "password"} => phase = "asked"
    BY <1>4, HeardAsk
  <2>2. PhasesLeft[p] < PhasesLeft[phase]
    BY <1>1, <1>4, <2>1
  <2>3. p \in DOMAIN Expected
    BY <1>2, <1>4
  <2> QED BY <1>4, <2>2, <2>3, AnswerCounts
<1>5. CASE ServeTls \/ ServeAuth \/ ServeResponse \/ ServeAck
  BY <1>4, <1>5 DEF ServeTls, ServeAuth, ServeResponse, ServeAck
<1>6. CASE ServeBind \/ ServeSession \/ ServeQuery \/ ServeLogin
  BY <1>4, <1>6 DEF ServeBind, ServeSession, ServeQuery, ServeLogin
<1> QED BY <1>3, <1>5, <1>6 DEF ServerAnswers

LEMMA StepCounts ==
  ASSUME HandshakeTypeOK, Script, HandshakeNext,
         socket = "handshake", socket' = "handshake", ~UNCHANGED handVars
  PROVE  StepsLeft' < StepsLeft
<1>1. ~socketConnected /\ ~Broken /\ ~Waiting /\ ~OtherClient
  BY DEF socketConnected, SocketConnected, Broken, SocketError, Closed, Waiting,
         OtherClient, ReplaceClient, Relaunch, NewClient
<1>2. PhasesLeft[phase] \in Nat /\ PhasesLeft' = PhasesLeft
  <2>1. PhasesLeft[phase] \in Nat
    BY PhaseLeft DEF HandshakeTypeOK
  <2>2. PhasesLeft' = PhasesLeft
    BY DEF PhasesLeft
  <2> QED BY <2>1, <2>2
<1>3. Len(toClient) \in Nat /\ Len(toServer) \in Nat
  BY DEF HandshakeTypeOK
<1>4. CASE socketEncrypted
  <2>1. /\ tls = "starting" /\ tls' = "on" /\ UNCHANGED <<phase, toClient>>
        /\ Len(toServer') = Len(toServer) + 1
    BY <1>4 DEF socketEncrypted, handleStart, HandshakeTypeOK
  <2> HIDE DEF PhasesLeft
  <2> QED BY <1>2, <1>3, <2>1 DEF StepsLeft
<1>5. CASE ServerEnds
  <2>1. PhasesLeft[phase] >= 1 /\ PhasesLeft["ended"] = 0
    BY <1>5 DEF PhasesLeft, HandshakeTypeOK, Expected, ServerEnds
  <2>2. /\ phase' = "ended" /\ UNCHANGED <<tls, toServer>>
        /\ Len(toClient') = Len(toClient) + 1
    BY <1>5 DEF ServerEnds, HandshakeTypeOK
  <2> HIDE DEF PhasesLeft
  <2> QED BY <1>2, <1>3, <2>1, <2>2 DEF StepsLeft
<1> QED BY <1>1, <1>4, <1>5, ClientCounts, ServerCounts DEF HandshakeNext

(* A handshake cannot go on for ever: what client and server have left to  *)
(* say is a natural number, and every message makes it smaller. *)
THEOREM EveryStepCounts ==
  HandshakeSpec => [](StepsLeft \in Nat) /\ EveryMessageCounts
<1>1. HandshakeIInv => HandshakeTypeOK /\ Script /\ StepsLeft \in Nat
  BY LeftNat DEF HandshakeIInv
<1>2. HandshakeIInv /\ [HandshakeNext]_handshakeVars =>
        [socket = "handshake" /\ socket' = "handshake" /\ ~UNCHANGED handVars
           => StepsLeft' < StepsLeft]_handshakeVars
  BY <1>1, StepCounts
<1> QED BY <1>1, <1>2, HandshakeInvariance, PTL DEF HandshakeSpec, EveryMessageCounts

-----------------------------------------------------------------------------
(* What XmppLink promises, of the client that speaks. *)

(* The client with its whole handshake is the link the window relies on:   *)
(* with LinkRefinement of PushLoopProofs, both sides of one contract.      *)
THEOREM HandshakeGivesLink == HandshakeSpec => LinkSpec
  BY HandshakeImplementsLink, LinkRefinement

(* m_connected tells whether a session is open, down to the message that   *)
(* opens it. *)
THEOREM HandshakeTruth == HandshakeSpec => []LinkTrue
  BY HandshakeImplementsLink, Truth

(* Whatever ends a handshake, who is then down tries again or was refused, *)
(* and no reconnection crosses a handshake under way.                      *)
THEOREM HandshakeTriesAgain == HandshakeSpec => [](StaysDownOnlyWhenRefused /\ RetryOnlyWhenDown)
  BY HandshakeImplementsLink, TriesAgain, NoCrossing, PTL
==============================================================================
