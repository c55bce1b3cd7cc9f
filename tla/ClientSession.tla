--------------------------- MODULE ClientSession ---------------------------
(***************************************************************************)
(* AAClient between a phone and AAServer.  Three threads: main runs setup, *)
(* which brings the phone's session up and then handles its messages; the  *)
(* relay reads the server's socket and hands each message to its channel's *)
(* handler; the writer takes messages from sendQueue to the phone, with    *)
(* one retry.  The relay runs before setup is called: what the server says *)
(* early meets a session without TLS and channels without handlers.        *)
(* The phone is one that speaks like AAServer, which plays one.            *)
(***************************************************************************)
EXTENDS Naturals, Sequences, SequencesExt

CONSTANTS Opening,      \* the order in which the phone opens the channels
          MaxMedia,     \* bound: video packets of the phone
          MaxUnasked,   \* bound: messages the server sends without being asked
          MaxFaults,    \* bound: messages to the phone whose transfer fails
          MaxWaiting    \* bound: messages on their way while the phone says something new

Offered == {"video", "input", "sensor"}
Channels == Offered \union {"control"}

ASSUME OpeningAssumption == Opening \in Seq(Channels) /\ ToSet(Opening) = Channels
ASSUME ClientBounds ==
    /\ MaxMedia \in Nat /\ MaxUnasked \in Nat
    /\ MaxFaults \in Nat /\ MaxWaiting \in Nat \ {0}

VARIABLES
    phone,        \* the phone: "up", or "failed" over a message it cannot take
    took,         \* the kinds of messages it has taken
    acks,         \* acknowledgements of video packets it has taken
    opened,       \* how many channels it has asked to open
    media,        \* video packets it has sent
    fromPhone,    \* its messages that main has not read
    stage,        \* main: "start", "version", "handshake", "auth", "serve", "discover"
    flights,      \* handshake messages of the phone, two make a TLS session
    sends,        \* what main's handler has still to send
    todo,         \* channels of the description still to be set up
    handlers,     \* each channel's handler: "none", "made", "answers", "wired"
    source,       \* the video handler's app_source exists
    sendQueue,    \* messages to the phone
    inHand,       \* what the writer has to try again, as a sequence of at most one
    arrived,      \* the transfer that failed has reached the phone
    faults,       \* messages whose transfer has failed
    wire,         \* what has reached the phone and it has not taken
    passed,       \* history: the server's messages that have reached it
    repeated,     \* history: a message has reached it twice
    server,       \* the server: "up", "gone"
    toServer,     \* history: what main has written to the socket
    answered,     \* how much of it the server has read
    fromServer,   \* the server's messages that the relay has not read
    said,         \* how many the server has sent
    unasked,      \* how many of them nobody asked for
    lost,         \* history: the server's messages a handler has dropped
    early,        \* history: one came before TLS and its channel were ready
    ended         \* why the program has ended, or "no"

phoneVars == <<phone, took, acks, opened, media>>
mainVars == <<stage, flights, sends, todo, source>>
writerVars == <<inHand, arrived, faults, wire, passed, repeated>>
serverVars == <<server, answered, said, unasked>>
relayVars == <<lost, early>>
vars == <<phoneVars, fromPhone, mainVars, handlers, sendQueue, writerVars, serverVars,
          toServer, fromServer, relayVars, ended>>

Msg(ch, type) == [ch |-> ch, type |-> type, nr |-> 0]
Control(type) == Msg("control", type)
PlainTypes == {"VersionRequest", "SslHandshake", "AuthComplete"}
ForwardedTypes == {"AudioFocusRequest", "NavigationFocusRequest", "VoiceSessionRequest"}

Init ==
    /\ phone = "up" /\ took = {} /\ acks = 0 /\ opened = 0 /\ media = 0
    /\ fromPhone = <<>>
    /\ stage = "start" /\ flights = 0 /\ sends = <<>> /\ todo = {} /\ source = FALSE
    /\ handlers = [ch \in Channels |-> IF ch = "control" THEN "wired" ELSE "none"]
    /\ sendQueue = <<>>
    /\ inHand = <<>> /\ arrived = FALSE /\ faults = 0
    /\ wire = <<>> /\ passed = <<>> /\ repeated = FALSE
    /\ server = "up" /\ toServer = <<>> /\ answered = 0
    /\ fromServer = <<>> /\ said = 0 /\ unasked = 0
    /\ lost = {} /\ early = FALSE
    /\ ended = "no"

Established == flights = 2
\* Mutant: the message is put at the front.
SendMessageFront(m) == sendQueue' = <<m>> \o sendQueue

SendMessage(m) == sendQueue' = Append(sendQueue, m)
End(reason) == ended' = reason

-----------------------------------------------------------------------------
(* The phone.                                                              *)

PhoneSays(m) == fromPhone' = Append(fromPhone, m)

\* What phone and server do after the program has ended is out of sight.
Environment ==
    /\ ended = "no"
    /\ UNCHANGED <<mainVars, handlers, sendQueue, inHand, arrived, faults, passed,
                   repeated, relayVars, toServer, ended>>

Reaction(m) ==
    CASE m.type = "VersionRequest" -> <<Control("VersionResponse")>>
      [] m.type = "SslHandshake" -> <<Control("SslHandshake")>>
      [] m.type = "AuthComplete" -> <<Control("ServiceDiscoveryRequest")>>
      [] m.type = "ChannelOpenResponse" /\ m.ch = "video" -> <<Msg("video", "SetupRequest")>>
      [] m.type = "VideoFocusIndication" -> <<Msg("video", "StartIndication")>>
      [] m.type = "ChannelOpenResponse" /\ m.ch = "input" -> <<Msg("input", "HandshakeRequest")>>
      [] OTHER -> <<>>

\* It takes the next message.  A repeated one it takes for a new one if it is
\* plain; otherwise its TLS session is broken.
PhoneTakes ==
    /\ phone = "up" /\ wire # <<>>
    /\ wire' = Tail(wire)
    /\ LET m == wire[1].msg IN
       IF wire[1].again /\ m.type \notin {"VersionRequest", "AuthComplete"}
       THEN phone' = "failed" /\ UNCHANGED <<took, acks, fromPhone>>
       ELSE /\ took' = took \union {Msg(m.ch, m.type)}
            /\ acks' = IF m.type = "MediaAckIndication" THEN acks + 1 ELSE acks
            /\ fromPhone' = fromPhone \o Reaction(m)
            /\ UNCHANGED phone
    /\ UNCHANGED <<opened, media, serverVars, fromServer>>
    /\ Environment

Room == Len(fromPhone) + Len(sends) + Len(sendQueue) + Len(inHand) + Len(wire) < MaxWaiting

\* Instead of opening the control channel it asks for the audio focus.
PhoneOpens ==
    /\ phone = "up" /\ Room /\ Control("ServiceDiscoveryResponse") \in took /\ opened < Len(Opening)
    /\ opened' = opened + 1
    /\ LET ch == Opening[opened + 1] IN
       PhoneSays(Msg(ch, IF ch = "control" THEN "AudioFocusRequest" ELSE "ChannelOpenRequest"))
    /\ UNCHANGED <<phone, took, acks, media, serverVars, wire, fromServer>>
    /\ Environment

\* The first sample goes without a time, the others with one.
PhoneStreams ==
    /\ phone = "up" /\ Room /\ Msg("video", "VideoFocusIndication") \in took /\ media < MaxMedia
    /\ media' = media + 1
    /\ PhoneSays(Msg("video", IF media = 0 THEN "MediaIndication" ELSE "MediaWithTimestamp"))
    /\ UNCHANGED <<phone, took, acks, opened, serverVars, wire, fromServer>>
    /\ Environment

-----------------------------------------------------------------------------
(* The server.                                                             *)

ServerSays(ch) ==
    /\ said' = said + 1
    /\ fromServer' = Append(fromServer, [ch |-> ch, type |-> "Relayed", nr |-> said + 1])

\* It answers what needs an answer of the head unit; the empty packet on the
\* input channel only opens it.
ServerAnswers ==
    /\ server = "up" /\ answered < Len(toServer)
    /\ answered' = answered + 1
    /\ LET ch == toServer[answered + 1].ch IN
       IF ch = "input" THEN UNCHANGED <<said, fromServer>> ELSE ServerSays(ch)
    /\ UNCHANGED <<phoneVars, fromPhone, server, unasked, wire>>
    /\ Environment

\* The head unit's messages for everybody, and touch events once registered.
ServerSpeaks ==
    /\ server = "up" /\ unasked < MaxUnasked
    /\ unasked' = unasked + 1
    /\ \E ch \in Channels :
        /\ ch = "input" => \E i \in 1..answered : toServer[i].ch = "input"
        /\ ServerSays(ch)
    /\ UNCHANGED <<phoneVars, fromPhone, server, answered, wire>>
    /\ Environment

ServerLeaves ==
    /\ server = "up" /\ toServer # <<>>
    /\ server' = "gone"
    /\ UNCHANGED <<phoneVars, fromPhone, answered, said, unasked, wire, fromServer>>
    /\ Environment

Phone == PhoneTakes \/ PhoneStreams \/ PhoneOpens
Server == ServerAnswers \/ ServerSpeaks \/ ServerLeaves

-----------------------------------------------------------------------------
(* main: setup.                                                            *)

Running == ended = "no"
MainElse == UNCHANGED <<phoneVars, writerVars, serverVars, fromServer, relayVars>>

GetMessage(at) ==
    /\ Running /\ stage = at /\ sends = <<>> /\ fromPhone # <<>>
    /\ fromPhone' = Tail(fromPhone)

\* The writer is started, and the first message is for it; the relay may have been
\* faster.
SendVersionRequest ==
    /\ Running /\ stage = "start"
    /\ SendMessage(Control("VersionRequest"))
    /\ stage' = "version"
    /\ UNCHANGED <<fromPhone, flights, sends, todo, source, handlers, toServer, ended>>
    /\ MainElse

\* expectVersionResponse, and the first doSslHandshake.
ExpectVersionResponse ==
    /\ GetMessage("version")
    /\ \/ /\ stage' = "handshake"
          /\ SendMessage(Control("SslHandshake"))
          /\ UNCHANGED ended
       \/ /\ End("refused")                \* "did not get version response"
          /\ UNCHANGED <<stage, sendQueue>>
    /\ UNCHANGED <<flights, sends, todo, source, handlers, toServer>>
    /\ MainElse

\* doSslHandshake with a message of the phone.
DoSslHandshake ==
    /\ GetMessage("handshake")
    /\ \/ /\ fromPhone[1].type = "SslHandshake"
          /\ flights' = flights + 1
          /\ IF flights = 0
             THEN SendMessage(Control("SslHandshake")) /\ UNCHANGED stage
             ELSE stage' = "auth" /\ UNCHANGED sendQueue
          /\ UNCHANGED ended
       \/ /\ fromPhone[1].type # "SslHandshake"   \* "Expected SSL handshake message"
          /\ End("protocol")
          /\ UNCHANGED <<flights, sendQueue, stage>>
       \/ /\ fromPhone[1].type = "SslHandshake"
          /\ End("refused")                \* "SSL_connect failed"
          /\ UNCHANGED <<flights, sendQueue, stage>>
    /\ UNCHANGED <<sends, todo, source, handlers, toServer>>
    /\ MainElse

SendAuthComplete ==
    /\ Running /\ stage = "auth"
    /\ SendMessage(Control("AuthComplete"))
    /\ stage' = "serve"
    /\ UNCHANGED <<fromPhone, flights, sends, todo, source, handlers, toServer, ended>>
    /\ MainElse

\* No message within the timeout: fatal in the handshake, otherwise after
\* thirty times in a row, which takes a phone that has nothing to react to.
PhoneSilent ==
    /\ Running /\ sends = <<>> /\ fromPhone = <<>>
    /\ \/ stage \in {"version", "handshake"}
       \/ stage = "serve" /\ (wire = <<>> \/ phone = "failed")
    /\ End("silent")
    /\ UNCHANGED <<fromPhone, mainVars, handlers, sendQueue, toServer>>
    /\ MainElse

Packets == {"MediaIndication", "MediaWithTimestamp"}

\* Mutant: StartIndication is acknowledged like a packet.
AnswersStart(m) ==
    CASE m.ch = "video" /\ m.type = "ChannelOpenRequest" -> <<Msg("video", "ChannelOpenResponse")>>
      [] m.ch = "video" /\ m.type = "SetupRequest" -> <<Msg("video", "VideoFocusIndication")>>
      [] m.ch = "video" -> <<Msg("video", "MediaAckIndication")>>
      [] OTHER -> <<>>

\* What the handlers of the three kinds of channels send on the phone's message.
Answers(m) ==
    CASE m.ch = "video" /\ m.type = "ChannelOpenRequest" -> <<Msg("video", "ChannelOpenResponse")>>
      [] m.ch = "video" /\ m.type = "SetupRequest" ->
             <<Msg("video", "SetupResponse"), Msg("video", "VideoFocusIndication")>>
      [] m.type \in Packets -> <<Msg("video", "MediaAckIndication")>>
      [] m.ch = "input" /\ m.type = "ChannelOpenRequest" ->
             <<Msg("input", "ChannelOpenResponse"), Msg("input", "ToServer")>>
      [] m.ch = "input" /\ m.type = "HandshakeRequest" -> <<Msg("input", "HandshakeResponse")>>
      [] m.ch \in {"sensor", "control"} -> <<Msg(m.ch, "ToServer")>>
      [] OTHER -> <<>>

\* createAppSource is called for a packet without a time only.
HasSource(m) == m.type # "MediaWithTimestamp" \/ source

PushFails(m) ==
    /\ m.type \in Packets
    /\ End("pipeline")                               \* "push-buffer failed"
    /\ UNCHANGED <<sends, source>>

\* The channel's handler, which may be missing, as the video pipeline may.
HandleChannelMessage(m) ==
    \/ /\ handlers[m.ch] # "none" /\ HasSource(m)
       /\ \/ /\ sends' = Answers(m)
             /\ source' = (source \/ m.type = "MediaIndication")
             /\ UNCHANGED ended
          \/ PushFails(m)
    \/ /\ handlers[m.ch] = "none" \/ ~HasSource(m)
       /\ End("null")
       /\ UNCHANGED <<sends, source>>

\* setup's loop.
HandleMessage ==
    /\ GetMessage("serve")
    /\ LET m == fromPhone[1] IN
       \/ /\ m.type = "ServiceDiscoveryRequest"
          /\ stage' = "discover" /\ todo' = Offered
          /\ UNCHANGED <<sends, source, ended>>
       \/ /\ m.ch # "control"
          /\ HandleChannelMessage(m)
          /\ UNCHANGED <<stage, todo>>
       \/ /\ m.ch = "control" /\ m.type \in ForwardedTypes
          /\ sends' = Answers(m)
          /\ UNCHANGED <<stage, todo, source, ended>>
       \/ /\ m.ch = "control" /\ m.type \notin ForwardedTypes \union {"ServiceDiscoveryRequest"}
          /\ End("protocol")                         \* "unexpected message"
          /\ UNCHANGED <<stage, sends, todo, source>>
    /\ UNCHANGED <<flights, handlers, sendQueue, toServer>>
    /\ MainElse

\* The handler's signals: to the phone's queue, or to the server's socket,
\* which throws if the server has gone.
Send ==
    /\ Running /\ sends # <<>>
    /\ sends' = Tail(sends)
    /\ IF sends[1].type # "ToServer"
       THEN SendMessage(sends[1]) /\ UNCHANGED <<toServer, ended>>
       ELSE /\ IF server = "up"
               THEN toServer' = Append(toServer, sends[1]) /\ UNCHANGED ended
               ELSE End("server") /\ UNCHANGED toServer
            /\ UNCHANGED sendQueue
    /\ UNCHANGED <<fromPhone, stage, flights, todo, source, handlers>>
    /\ MainElse

\* Mutant: only the channels of media and input get a handler.
SetUpChannelKnown ==
    /\ Running /\ stage = "discover"
    /\ handlers' = [handlers EXCEPT !["video"] = "wired", !["input"] = "wired"]
    /\ todo' = {}
    /\ SendMessage(Control("ServiceDiscoveryResponse"))
    /\ stage' = "serve"
    /\ UNCHANGED <<source, fromPhone, flights, sends, toServer, ended>>
    /\ MainElse

\* handleServiceDiscoveryRequest, for one channel: the handler is in place
\* before its two signals are connected, the one to the server first.
NextState(old) == CASE old = "made" -> "answers" [] old = "answers" -> "wired" [] OTHER -> "made"

SetUpChannel ==
    /\ Running /\ stage = "discover"
    /\ \/ \E ch \in todo :
           /\ \A other \in todo \ {ch} : handlers[other] \notin {"made", "answers"}
           /\ handlers' = [handlers EXCEPT ![ch] = NextState(@)]
           /\ todo' = IF handlers[ch] = "answers" THEN todo \ {ch} ELSE todo
           /\ source' = (source /\ ch # "video")
           /\ UNCHANGED <<stage, sendQueue>>
       \/ /\ todo = {}
          /\ SendMessage(Control("ServiceDiscoveryResponse"))
          /\ stage' = "serve"
          /\ UNCHANGED <<todo, source, handlers>>
    /\ UNCHANGED <<fromPhone, flights, sends, toServer, ended>>
    /\ MainElse

Main == SendVersionRequest \/ ExpectVersionResponse \/ DoSslHandshake \/ SendAuthComplete
        \/ HandleMessage \/ Send \/ SetUpChannel

-----------------------------------------------------------------------------
(* The relay and the writer.                                               *)

\* sendMessagePublic: the channel's handler, if it is there, passes the
\* message to the phone, if its signal is connected.
Relay ==
    /\ Running /\ fromServer # <<>>
    /\ fromServer' = Tail(fromServer)
    /\ LET m == fromServer[1] IN
       /\ early' = (early \/ ~Established \/ handlers[m.ch] # "wired")
       /\ \/ /\ handlers[m.ch] = "wired"
             /\ SendMessage(m)
             /\ UNCHANGED <<lost, ended>>
          \/ /\ handlers[m.ch] \in {"made", "answers"}
             /\ lost' = lost \union {m.nr}
             /\ UNCHANGED <<sendQueue, ended>>
          \/ /\ handlers[m.ch] = "none"
             /\ End("null")
             /\ UNCHANGED <<lost, sendQueue>>
    /\ UNCHANGED <<phoneVars, fromPhone, mainVars, handlers, writerVars, serverVars, toServer>>

WriterElse == UNCHANGED <<phoneVars, fromPhone, mainVars, handlers, serverVars, toServer, fromServer, relayVars>>

\* The message reaches the phone, for the first time or again.
Arrive(m, again) ==
    /\ wire' = Append(wire, [msg |-> m, again |-> again])
    /\ passed' = IF m.nr = 0 \/ again THEN passed ELSE Append(passed, m.nr)
    /\ repeated' = (repeated \/ again)

\* prepareMessage takes the front message and encrypts it, which fails without
\* a TLS session.  What others do until it is written does not touch it.
Ready(m) == m.type \in PlainTypes \/ Established

PrepareMessage ==
    /\ Running /\ inHand = <<>> /\ sendQueue # <<>> /\ Ready(sendQueue[1])
    /\ sendQueue' = Tail(sendQueue)

PrepareFails ==
    /\ Running /\ inHand = <<>> /\ sendQueue # <<>> /\ ~Ready(sendQueue[1])
    /\ End("tls")                                    \* "SSL_write error"
    /\ UNCHANGED <<sendQueue, writerVars>>
    /\ WriterElse

WriteToUsb ==
    /\ PrepareMessage
    /\ Arrive(sendQueue[1], FALSE)
    /\ UNCHANGED <<inHand, arrived, faults, ended>>
    /\ WriterElse

\* The transfer fails, after its bytes have gone or before; writeThread tries
\* once more ...
WriteFails ==
    /\ PrepareMessage /\ faults < MaxFaults
    /\ faults' = faults + 1
    /\ inHand' = <<sendQueue[1]>>
    /\ \/ arrived' = TRUE /\ Arrive(sendQueue[1], FALSE)
       \/ UNCHANGED <<wire, passed, repeated, arrived>>
    /\ UNCHANGED ended
    /\ WriterElse

\* Mutant: the writer takes the next message instead.
RetryNext ==
    /\ Running /\ inHand # <<>>
    /\ inHand' = <<>> /\ arrived' = FALSE
    /\ UNCHANGED <<sendQueue, wire, passed, repeated, faults, ended>>
    /\ WriterElse

Retry ==
    /\ Running /\ inHand # <<>>
    /\ Arrive(inHand[1], arrived)
    /\ inHand' = <<>> /\ arrived' = FALSE
    /\ UNCHANGED <<sendQueue, faults, ended>>
    /\ WriterElse

\* ... and nothing catches the second exception.
RetryFails ==
    /\ Running /\ inHand # <<>>
    /\ End("write")
    /\ UNCHANGED <<sendQueue, writerVars>>
    /\ WriterElse

WriteThread == PrepareFails \/ WriteToUsb \/ Retry
Faults == WriteFails \/ RetryFails

Next == Phone \/ Server \/ Main \/ PhoneSilent \/ Relay \/ WriteThread \/ Faults

Spec == Init /\ [][Next]_vars

\* The program's threads, a phone that reacts and streams, a server that
\* answers.
FairSpec ==
    /\ Spec
    /\ WF_vars(Main) /\ WF_vars(Relay) /\ WF_vars(WriteThread)
    /\ WF_vars(Phone) /\ WF_vars(ServerAnswers)

-----------------------------------------------------------------------------
(* Properties.                                                             *)

\* Types of the phone's, the server's and the three threads' state.
ClientTypeOK ==
    /\ phone \in {"up", "failed"} /\ acks \in 0..media /\ opened \in 0..Len(Opening)
    /\ stage \in {"start", "version", "handshake", "auth", "serve", "discover"}
    /\ flights \in 0..2 /\ todo \subseteq Offered /\ source \in BOOLEAN
    /\ handlers \in [Channels -> {"none", "made", "answers", "wired"}]
    /\ \A m \in ToSet(sendQueue \o fromPhone \o toServer \o fromServer) : m.ch \in Channels
    /\ Len(inHand) \in 0..1 /\ faults \in 0..MaxFaults /\ arrived \in BOOLEAN
    /\ repeated \in BOOLEAN /\ ToSet(passed) \subseteq 1..said /\ lost \subseteq 1..said
    /\ ended \in {"no", "refused", "silent", "protocol", "pipeline", "null", "server", "tls", "write"}

\* AAClient calls a handler that is not there, or encrypts without a session,
\* only over a message of the server that came before the session and its
\* channel were ready: the phone alone cannot bring it there, nor a message
\* repeated to the phone.
CrashesOnlyEarly == ended \in {"null", "tls"} => early

\* What the server says reaches the phone in order and without gaps, however
\* main's own answers and failing transfers mix with it; what is dropped came
\* early.
RelayedInOrder ==
    /\ \A i \in 2..Len(passed) : passed[i - 1] < passed[i]
    /\ \A i \in 1..Len(passed) : 1..passed[i] \subseteq ToSet(passed) \union lost
    /\ lost # {} => early

\* Unless something from outside comes between, the session comes up and
\* every channel is served: video packets and the input handshake answered,
\* the sensor channel and the audio focus passed on and the server's answers
\* passed back.  A transfer that fails before its bytes have gone is one the
\* retry hides completely.
Served ==
    /\ acks = MaxMedia
    /\ {Msg("input", "HandshakeResponse"), Msg("sensor", "Relayed"), Control("Relayed")} \subseteq took

Disturbed == early \/ repeated \/ server = "gone" \/ ended \in {"refused", "silent", "pipeline", "write"}

SessionServed == <>(Disturbed \/ Served)
=============================================================================
