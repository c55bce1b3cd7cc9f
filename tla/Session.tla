------------------------------- MODULE Session -------------------------------
(***************************************************************************)
(* AAServer's session with the head unit, from the version request to the  *)
(* service discovery, while its socket already serves clients.  The socket *)
(* is open before the session is up: a client that asks too early gets an  *)
(* empty service description, or 255 for a channel number, and is started  *)
(* again by the loops of scripts/start.  What the head unit says on the    *)
(* control channel goes to every client connected.                         *)
(***************************************************************************)
EXTENDS Naturals, Sequences, FiniteSets

CONSTANTS Proxies,      \* AAClient processes
          Tools,        \* GetEvents processes
          MaxWaiting,   \* bound: messages on their way, and packets unread
          Descriptors   \* sockets of clients the server may have open (RLIMIT_NOFILE)

ASSUME SessionBounds ==
    /\ Proxies \intersect Tools = {}
    /\ MaxWaiting \in Nat /\ Descriptors \in Nat

VARIABLES
    headunit,       \* "silent", "started", "authenticated"
    flights,        \* handshake messages accepted, two make a TLS session
    toHeadunit,     \* messages queued for the head unit
    fromHeadunit,   \* messages on their way from it
    ep2,            \* the pump: "idle", "discovery", "ended"
    todo,           \* channels of the description still to be set up
    handler,        \* state of each channel's handler
    descriptor,     \* serviceDescriptor
    prog,           \* each client program: "down", "asking", "running", "leaving"
    got,            \* what the program took for the answer to its question
    packet,         \* its packet that the server has not read, "none" without one
    inbox,          \* what it has not read of what the server wrote to it
    thread,         \* its thread in the server
    mapped,         \* main's map of clients
    leaked          \* sockets of clients that left: only ~SocketClient closes them

wireVars == <<toHeadunit, fromHeadunit>>
discoveryVars == <<todo, handler, descriptor>>
programVars == <<prog, got>>
serverVars == <<thread, mapped, leaked>>
vars == <<headunit, flights, wireVars, ep2, discoveryVars, programVars, packet, inbox, serverVars>>

Clients == Proxies \union Tools
Offered == {"input", "sensor"}              \* by the head unit
Unknown == "255"                            \* no such channel
Channels == Offered \union {"control", Unknown}
Empty == "empty"                            \* a packet of no bytes
Description == "description"

\* A client's first packet.
Question(c) == IF c \in Proxies THEN "GetServiceDescriptor" ELSE "GetChannelNumber"
Answers == {Empty, Description, Unknown, "input"}
Broadcasts == {"AudioFocusResponse", "SensorData"}
PlainTypes == {"VersionResponse", "SslHandshake"}
EncryptedTypes == {"ServiceDiscoveryRequest", "PingResponse", "AudioFocusRequest",
                   "SensorRequest", "ChannelOpenRequest", Empty}

Init ==
    /\ headunit = "silent" /\ flights = 0
    /\ toHeadunit = <<>> /\ fromHeadunit = <<>>
    /\ ep2 = "idle" /\ todo = {}
    /\ handler = [ch \in Channels |-> IF ch = "control" THEN "wired" ELSE "null"]
    /\ descriptor = Empty
    /\ prog = [c \in Clients |-> "down"] /\ got = [c \in Clients |-> Empty]
    /\ packet = [c \in Clients |-> "none"]
    /\ inbox = [c \in Clients |-> <<>>]
    /\ thread = [c \in Clients |-> "none"] /\ mapped = {} /\ leaked = 0

SendMessage(type) == toHeadunit' = Append(toHeadunit, type)
Room == Len(toHeadunit) + Len(fromHeadunit) < MaxWaiting
Established == flights = 2

-----------------------------------------------------------------------------
(* The head unit.                                                          *)

Say(message) == fromHeadunit' = Append(fromHeadunit, message)

Begin ==
    /\ headunit = "silent"
    /\ headunit' = "started"
    /\ \E m \in {"VersionRequest", "BadVersion"} : Say(m)
    /\ UNCHANGED <<flights, toHeadunit, ep2, discoveryVars, programVars, packet, inbox, serverVars>>

\* It takes the next message and says what follows from it.
React ==
    /\ toHeadunit # <<>> /\ toHeadunit[1] # Empty
    /\ toHeadunit' = Tail(toHeadunit)
    /\ LET m == toHeadunit[1] IN
       CASE m = "VersionResponse" -> Say("SslHandshake") /\ UNCHANGED headunit
         [] m = "SslHandshake" /\ ~Established -> Say("SslHandshake") /\ UNCHANGED headunit
         [] m = "SslHandshake" /\ Established -> Say("AuthComplete") /\ headunit' = "authenticated"
         [] m = "ServiceDiscoveryRequest" -> Say("ServiceDiscoveryResponse") /\ UNCHANGED headunit
         [] m = "AudioFocusRequest" -> Say("AudioFocusResponse") /\ UNCHANGED headunit
         [] m = "ChannelOpenRequest" -> Say("ChannelOpenResponse") /\ UNCHANGED headunit
         [] m = "SensorRequest" -> Say("SensorData") /\ UNCHANGED headunit
         [] OTHER -> UNCHANGED <<fromHeadunit, headunit>>
    /\ UNCHANGED <<flights, ep2, discoveryVars, programVars, packet, inbox, serverVars>>

Ping ==
    /\ headunit = "authenticated" /\ Room
    /\ Say("PingRequest")
    /\ UNCHANGED <<headunit, flights, toHeadunit, ep2, discoveryVars, programVars, packet, inbox, serverVars>>

\* The other pump, ep1: there is nothing to encrypt in a message of no bytes,
\* BIO_read fails and every pump ends (SendQueue, Shutdown).
PumpFails ==
    /\ toHeadunit # <<>> /\ toHeadunit[1] = Empty
    /\ toHeadunit' = Tail(toHeadunit)
    /\ ep2' = "ended"
    /\ UNCHANGED <<headunit, flights, fromHeadunit, discoveryVars, programVars, packet, inbox, serverVars>>

-----------------------------------------------------------------------------
(* The pump of ep2: handleMessageContent.                                  *)

Incoming(message) ==
    /\ ep2 = "idle" /\ fromHeadunit # <<>> /\ fromHeadunit[1] = message
    /\ fromHeadunit' = Tail(fromHeadunit)
    /\ UNCHANGED <<headunit, programVars, packet, mapped, leaked>>

HandleVersionRequest ==
    /\ \/ /\ Incoming("VersionRequest")
          /\ SendMessage("VersionResponse")
          /\ UNCHANGED ep2
       \/ /\ Incoming("BadVersion")         \* "unsupported version"
          /\ ep2' = "ended"
          /\ UNCHANGED toHeadunit
    /\ UNCHANGED <<flights, discoveryVars, inbox, thread>>

\* Mutant: the flight leaves in two messages.
HandleSslHandshakeTwice ==
    /\ Incoming("SslHandshake")
    /\ flights' = flights + 1
    /\ toHeadunit' = toHeadunit \o <<"SslHandshake", "SslHandshake">>
    /\ UNCHANGED <<ep2, discoveryVars, inbox, thread>>

HandleSslHandshake ==
    /\ Incoming("SslHandshake")
    /\ flights' = flights + 1
    /\ SendMessage("SslHandshake")
    /\ UNCHANGED <<ep2, discoveryVars, inbox, thread>>

\* Mutant: no request follows.
HandleAuthCompleteNot ==
    /\ Incoming("AuthComplete")
    /\ UNCHANGED <<flights, toHeadunit, ep2, discoveryVars, inbox, thread>>

HandleAuthComplete ==
    /\ Incoming("AuthComplete")
    /\ SendMessage("ServiceDiscoveryRequest")
    /\ UNCHANGED <<flights, ep2, discoveryVars, inbox, thread>>

HandlePingRequest ==
    /\ Incoming("PingRequest")
    /\ SendMessage("PingResponse")
    /\ UNCHANGED <<flights, ep2, discoveryVars, inbox, thread>>

\* The description can be had at once, its channels are set up one by one.
HandleServiceDiscoveryResponse ==
    /\ Incoming("ServiceDiscoveryResponse")
    /\ descriptor' = Description
    /\ todo' = Offered
    /\ ep2' = "discovery"
    /\ UNCHANGED <<flights, toHeadunit, handler, inbox, thread>>

\* First the channel's number, then its handler, then the handler's signals.
NextState(h) == CASE h = "null" -> "numbered" [] h = "numbered" -> "made" [] h = "made" -> "wired"
SetUpChannel ==
    /\ ep2 = "discovery"
    /\ \E ch \in todo :
          /\ \A other \in todo \ {ch} : handler[other] = "null"
          /\ handler' = [handler EXCEPT ![ch] = NextState(@)]
          /\ todo' = IF handler'[ch] = "wired" THEN todo \ {ch} ELSE todo
    /\ ep2' = IF todo' = {} THEN "idle" ELSE "discovery"
    /\ UNCHANGED <<headunit, flights, wireVars, descriptor, programVars, packet, inbox, serverVars>>

\* gotMessage(-1, ...): to every client in the map, waiting for room in its
\* socket; a client that has left may end the pump (InputChannel).
Present == {c \in mapped : prog[c] # "leaving"}
HandleChannelMessage ==
    /\ \E m \in Broadcasts :
          /\ Incoming(m)
          /\ \A c \in Present : Len(inbox[c]) < MaxWaiting
          /\ inbox' = [c \in Clients |-> IF c \in Present THEN Append(inbox[c], m) ELSE inbox[c]]
    /\ \/ UNCHANGED ep2
       \/ mapped # Present /\ ep2' = "ended"
    /\ UNCHANGED <<flights, toHeadunit, discoveryVars, thread>>

\* The answer wakes every thread that waits for the channel.
HandleChannelOpenResponse ==
    /\ Incoming("ChannelOpenResponse")
    /\ thread' = [c \in Clients |-> IF thread[c] = "opening" THEN "serving" ELSE thread[c]]
    /\ UNCHANGED <<flights, toHeadunit, ep2, discoveryVars, inbox>>

Ep2 ==
    \/ HandleVersionRequest \/ HandleSslHandshake \/ HandleAuthComplete \/ HandlePingRequest
    \/ HandleServiceDiscoveryResponse \/ SetUpChannel \/ HandleChannelMessage
    \/ HandleChannelOpenResponse

-----------------------------------------------------------------------------
(* The listening thread: accept, newClient, ready.                         *)

\* accept fails while the process has no descriptor left.
Open == {c \in Clients : thread[c] \in {"serving", "opening"}}
Exhausted == Cardinality(Open) + leaked >= Descriptors

Accept(c) ==
    /\ prog[c] = "asking" /\ thread[c] = "none" /\ ~Exhausted
    /\ thread' = [thread EXCEPT ![c] = "serving"]
    /\ mapped' = mapped \union {c}
    /\ UNCHANGED <<headunit, flights, wireVars, ep2, discoveryVars, programVars, packet, inbox, leaked>>

-----------------------------------------------------------------------------
(* The threads of the clients in the server: gotPacket, disconnected.      *)

ServerReads(c) ==
    /\ thread[c] = "serving" /\ packet[c] # "none"
    /\ packet' = [packet EXCEPT ![c] = "none"]
    /\ UNCHANGED <<headunit, flights, fromHeadunit, ep2, discoveryVars, programVars>>

\* Mutant: no answer while there is no description.
GetServiceDescriptorLater(c) ==
    /\ packet[c] = "GetServiceDescriptor" /\ ServerReads(c)
    /\ inbox' = IF descriptor = Empty THEN inbox ELSE [inbox EXCEPT ![c] = Append(@, descriptor)]
    /\ UNCHANGED <<toHeadunit, serverVars>>

GetServiceDescriptor(c) ==
    /\ packet[c] = "GetServiceDescriptor" /\ ServerReads(c)
    /\ inbox' = [inbox EXCEPT ![c] = Append(@, descriptor)]
    /\ UNCHANGED <<toHeadunit, serverVars>>

\* The number is a uint8_t: without one it is 255, and no exception.
GetChannelNumberByChannelType(c) ==
    /\ packet[c] = "GetChannelNumber" /\ ServerReads(c)
    /\ inbox' = [inbox EXCEPT ![c] = Append(@, IF handler["input"] = "null" THEN Unknown ELSE "input")]
    /\ UNCHANGED <<toHeadunit, serverVars>>

\* RawData: sendToChannel.  A proxy's data are a request of the phone, a tool's
\* are empty.  The input channel goes on to wait for the head unit (InputChannel),
\* for ever if its signal is not connected yet.
Request(c, ch) ==
    CASE ch = "input" -> "ChannelOpenRequest"
      [] c \in Tools  -> Empty
      [] ch = "control" -> "AudioFocusRequest"
      [] OTHER -> "SensorRequest"

\* Mutant: a channel without a handler is not refused.
RefusedNot(ch) == FALSE

\* "No handler for channel"
Refused(ch) == handler[ch] \in {"null", "numbered"}

RawData(c) ==
    /\ packet[c] \in Channels /\ ServerReads(c)
    /\ LET ch == packet[c] IN
       \/ /\ Refused(ch)
          /\ thread' = [thread EXCEPT ![c] = "dropped"]
          /\ mapped' = mapped \ {c}
          /\ UNCHANGED toHeadunit
       \/ /\ ~Refused(ch) /\ Room
          /\ IF handler[ch] = "made" THEN UNCHANGED toHeadunit ELSE SendMessage(Request(c, ch))
          /\ thread' = [thread EXCEPT ![c] = IF ch = "input" THEN "opening" ELSE @]
          /\ UNCHANGED mapped
    /\ UNCHANGED <<inbox, leaked>>

\* The slots forget the client; nobody deletes it.
Disconnected(c) ==
    /\ thread[c] = "serving" /\ packet[c] = "none" /\ prog[c] = "leaving"
    /\ thread' = [thread EXCEPT ![c] = "none"]
    /\ leaked' = leaked + 1
    /\ mapped' = mapped \ {c}
    /\ prog' = [prog EXCEPT ![c] = "down"]
    /\ UNCHANGED <<headunit, flights, wireVars, ep2, discoveryVars, got, packet, inbox>>

ServerThread(c) ==
    Accept(c) \/ GetServiceDescriptor(c) \/ GetChannelNumberByChannelType(c) \/ RawData(c) \/ Disconnected(c)

-----------------------------------------------------------------------------
(* The client programs.                                                    *)

\* connect; the program asks its question and waits for the answer, if need be
\* in the backlog of the socket.
Start(c) ==
    /\ prog[c] = "down"
    /\ prog' = [prog EXCEPT ![c] = "asking"]
    /\ packet' = [packet EXCEPT ![c] = Question(c)]
    /\ inbox' = [inbox EXCEPT ![c] = <<>>]
    /\ UNCHANGED <<headunit, flights, wireVars, ep2, discoveryVars, got, serverVars>>

\* getServiceDescriptor, openChannel: whatever is read first is the answer.
\* A read of no bytes is an error; GetEvents takes the first byte for the
\* number, which in a broadcast is the channel it comes from.
FirstByte(message) == IF message = "AudioFocusResponse" THEN "control"
                      ELSE IF message = "SensorData" THEN "sensor" ELSE message

\* Mutant: a read of no bytes is an answer.
TakeAnswerEmpty(c) ==
    /\ prog[c] = "asking" /\ inbox[c] # <<>>
    /\ prog' = [prog EXCEPT ![c] = "running"]
    /\ got' = [got EXCEPT ![c] = inbox[c][1]]
    /\ inbox' = [inbox EXCEPT ![c] = Tail(@)]
    /\ UNCHANGED <<headunit, flights, wireVars, ep2, discoveryVars, packet, serverVars>>

TakeAnswer(c) ==
    /\ prog[c] = "asking" /\ inbox[c] # <<>>
    /\ LET answer == inbox[c][1] IN
       \/ /\ answer = Empty
          /\ prog' = [prog EXCEPT ![c] = "leaving"]
          /\ UNCHANGED <<got, packet>>
       \/ /\ answer # Empty
          /\ prog' = [prog EXCEPT ![c] = "running"]
          /\ got' = [got EXCEPT ![c] = IF c \in Proxies THEN answer ELSE FirstByte(answer)]
          /\ packet' = IF c \in Proxies THEN packet ELSE [packet EXCEPT ![c] = FirstByte(answer)]
    /\ inbox' = [inbox EXCEPT ![c] = Tail(@)]
    /\ UNCHANGED <<headunit, flights, wireVars, ep2, discoveryVars, serverVars>>

\* Once it runs it reads everything ...
Read(c) ==
    /\ prog[c] = "running" /\ inbox[c] # <<>>
    /\ inbox' = [inbox EXCEPT ![c] = Tail(@)]
    /\ UNCHANGED <<headunit, flights, wireVars, ep2, discoveryVars, programVars, packet, serverVars>>

\* ... a proxy sends what the phone asks for ...
Forward(c) ==
    /\ c \in Proxies /\ prog[c] = "running" /\ packet[c] = "none"
    /\ thread[c] = "serving"
    /\ \E ch \in Offered \union {"control"} : packet' = [packet EXCEPT ![c] = ch]
    /\ UNCHANGED <<headunit, flights, wireVars, ep2, discoveryVars, programVars, inbox, serverVars>>

\* ... and it may end, as it does when the server has dropped it.
Exit(c) ==
    /\ prog[c] = "running" /\ thread[c] # "dropped"
    /\ prog' = [prog EXCEPT ![c] = "leaving"]
    /\ UNCHANGED <<headunit, flights, wireVars, ep2, discoveryVars, got, packet, inbox, serverVars>>

\* GetEvents reads the end of the socket.  AAClient reads past it for ever, until the
\* next message of the phone cannot be written.
SeeDropped(c) ==
    /\ thread[c] = "dropped" /\ inbox[c] = <<>>
    /\ prog' = [prog EXCEPT ![c] = "down"]
    /\ thread' = [thread EXCEPT ![c] = "none"]
    /\ UNCHANGED <<headunit, flights, wireVars, ep2, discoveryVars, got, packet, inbox, mapped, leaked>>

Program(c) == Start(c) \/ TakeAnswer(c) \/ Read(c) \/ SeeDropped(c)

-----------------------------------------------------------------------------
Next ==
    \/ Begin \/ React \/ Ping \/ PumpFails \/ Ep2
    \/ \E c \in Clients : ServerThread(c) \/ Program(c) \/ Forward(c) \/ Exit(c)

Spec == Init /\ [][Next]_vars

\* The head unit starts and answers, threads run, programs run and are started
\* again by the loops of scripts/start.
FairSpec ==
    /\ Spec
    /\ WF_vars(Begin) /\ WF_vars(React) /\ WF_vars(PumpFails) /\ WF_vars(Ep2)
    /\ \A c \in Clients : WF_vars(ServerThread(c)) /\ WF_vars(Program(c))
-----------------------------------------------------------------------------
(* Properties.                                                             *)

\* The types of the variables.
SessionTypeOK ==
    /\ headunit \in {"silent", "started", "authenticated"} /\ flights \in 0..2
    /\ toHeadunit \in Seq(PlainTypes \union EncryptedTypes)
    /\ ep2 \in {"idle", "discovery", "ended"} /\ todo \subseteq Offered
    /\ handler \in [Channels -> {"null", "numbered", "made", "wired"}]
    /\ descriptor \in {Empty, Description}
    /\ prog \in [Clients -> {"down", "asking", "running", "leaving"}]
    /\ got \in [Clients -> Answers \union Broadcasts \union Channels]
    /\ packet \in [Clients -> {"none", "GetServiceDescriptor", "GetChannelNumber"} \union Channels]
    /\ inbox \in [Clients -> Seq(Answers \union Broadcasts)]
    /\ thread \in [Clients -> {"none", "serving", "opening", "dropped"}]
    /\ mapped \subseteq Clients /\ leaked \in 0..Descriptors

\* Nothing is queued for encryption before the TLS session stands, whenever the
\* clients come: an early one is refused, and the programs that use the control
\* channel, which has its handler from the start, wait for the description.
NothingEncryptedEarly ==
    (\E i \in 1..Len(toHeadunit) : toHeadunit[i] \in EncryptedTypes) => Established

\* The head unit's data for a channel meet the channel's handler complete.
HandlerWaits ==
    (\E i \in 1..Len(fromHeadunit) : fromHeadunit[i] = "SensorData")
        => handler["sensor"] = "wired"

\* Once it has begun, the session comes to the description, whatever the
\* clients do meanwhile.
DescriptionComes == (headunit = "started") ~> (descriptor = Description \/ ep2 = "ended")

\* A proxy that is started too early is refused and started again until it gets
\* in, unless the sockets of all who left are too many for the process.
ProxyGetsIn ==
    \A c \in Proxies : (prog[c] = "asking") ~> (prog[c] = "running" \/ ep2 = "ended" \/ Exhausted)

\* README: AAClient "starts connection to AAServer to get available service
\* description": what a running proxy took for it is the description.
DescriptionIsDescription ==
    \A c \in Proxies : prog[c] = "running" => got[c] = Description
=============================================================================
