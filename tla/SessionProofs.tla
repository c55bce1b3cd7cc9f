---------------------------- MODULE SessionProofs ----------------------------
(***************************************************************************)
(* Proofs about Session, for any programs, any bound of the queues and any *)
(* number of descriptors: its types, that nothing is encrypted before the  *)
(* TLS session stands, and that the head unit's data find their handler.   *)
(***************************************************************************)
EXTENDS Session, Integers, FiniteSetTheorems, TLAPS

-----------------------------------------------------------------------------
(* The inductive invariant.                                                *)

Elements(q) == {q[i] : i \in 1..Len(q)}

\* At most one place of q holds a message of T.
AtMostOne(q, T) == \A i, j \in 1..Len(q) : q[i] \in T /\ q[j] \in T => i = j

Said == {"VersionRequest", "BadVersion", "SslHandshake", "AuthComplete", "PingRequest",
         "ServiceDiscoveryResponse", "ChannelOpenResponse"} \union Broadcasts
Types == SessionTypeOK /\ fromHeadunit \in Seq(Said)

\* The session comes up step by step: of its messages at most one is on its way,
\* and none once the description is there.
OurTurn == {"VersionRequest", "BadVersion", "SslHandshake", "AuthComplete", "ServiceDiscoveryResponse"}
ItsTurn == {"VersionResponse", "SslHandshake", "ServiceDiscoveryRequest"}
NobodysTurn == Elements(fromHeadunit) \intersect OurTurn = {} /\ Elements(toHeadunit) \intersect ItsTurn = {}
TakingTurns ==
    /\ AtMostOne(fromHeadunit, OurTurn) /\ AtMostOne(toHeadunit, ItsTurn)
    /\ Elements(fromHeadunit) \intersect OurTurn = {} \/ Elements(toHeadunit) \intersect ItsTurn = {}
    /\ headunit = "silent" \/ descriptor = Description => NobodysTurn

\* How far the handshake is, by the message on its way.
Handshake ==
    /\ headunit = "silent" => flights = 0
    /\ "VersionRequest" \in Elements(fromHeadunit) => flights = 0
    /\ "VersionResponse" \in Elements(toHeadunit) => flights = 0
    /\ "SslHandshake" \in Elements(fromHeadunit) => flights < 2

\* Whatever shows that the TLS session stands.
Evidence ==
    \/ headunit = "authenticated"
    \/ Elements(fromHeadunit) \ {"VersionRequest", "BadVersion", "SslHandshake"} # {}
    \/ Elements(toHeadunit) \intersect EncryptedTypes # {}
    \/ descriptor = Description
    \/ \E c \in Clients : \/ packet[c] \in Channels \ {Unknown}
                          \/ Elements(inbox[c]) \ {Empty, Unknown} # {}
                          \/ c \in Proxies /\ prog[c] = "running"
EvidenceHolds == Evidence => Established

\* Channels get their handlers after the description is there, each once.
Discovery ==
    /\ descriptor = Empty => todo = {} /\ ep2 # "discovery" /\ \A ch \in Offered : handler[ch] = "null"
    /\ \A ch \in todo : handler[ch] # "wired"
    /\ handler[Unknown] = "null" /\ handler["control"] = "wired"

\* Each program has its own question, and the answers are to it.
Questions ==
    \A c \in Clients : /\ packet[c] \in {"none", Question(c)} \union Channels
                       /\ IF c \in Proxies THEN Unknown \notin Elements(inbox[c])
                                           ELSE Description \notin Elements(inbox[c])

\* The sensor channel is asked for when it is complete.
SensorReady ==
    "SensorRequest" \in Elements(toHeadunit) \/ "SensorData" \in Elements(fromHeadunit)
        => handler["sensor"] = "wired"

\* Sockets in use and sockets leaked are no more than the process may have.
Sockets == IsFiniteSet(Open) /\ Cardinality(Open) + leaked <= Descriptors

IInv == Types /\ TakingTurns /\ Handshake /\ EvidenceHolds /\ Discovery /\ Questions /\ SensorReady /\ Sockets

-----------------------------------------------------------------------------
(* Queues.                                                                 *)

\* What is in a queue is of its type.
LEMMA Element == \A S : \A q \in Seq(S) : Elements(q) \subseteq S
BY DEF Elements

\* A message more.
LEMMA Appended ==
    ASSUME NEW S, NEW q \in Seq(S), NEW e \in S
    PROVE  /\ Append(q, e) \in Seq(S)
           /\ Elements(Append(q, e)) = Elements(q) \union {e}
           /\ \A T : AtMostOne(q, T) /\ (e \in T => Elements(q) \intersect T = {})
                        => AtMostOne(Append(q, e), T)
<1>1. /\ Append(q, e) \in Seq(S) /\ Len(Append(q, e)) = Len(q) + 1
      /\ \A i \in 1..Len(q) : Append(q, e)[i] = q[i]
      /\ Append(q, e)[Len(q) + 1] = e /\ Len(q) \in Nat
  OBVIOUS
<1>2. Elements(Append(q, e)) = Elements(q) \union {e}
  <2>1. \A i \in 1..(Len(q) + 1) : i \in 1..Len(q) \/ i = Len(q) + 1
    BY <1>1
  <2>2. 1..Len(q) \subseteq 1..(Len(q) + 1) /\ Len(q) + 1 \in 1..(Len(q) + 1)
    BY <1>1
  <2>. QED BY <1>1, <2>1, <2>2 DEF Elements
<1>3. ASSUME NEW T, AtMostOne(q, T), e \in T => Elements(q) \intersect T = {}
      PROVE  AtMostOne(Append(q, e), T)
  BY <1>1, <1>3 DEF AtMostOne, Elements
<1>. QED BY <1>1, <1>2, <1>3

\* The first is taken.
LEMMA Taken ==
    ASSUME NEW S, NEW q \in Seq(S), q # <<>>
    PROVE  /\ q[1] \in Elements(q) /\ q[1] \in S
           /\ Tail(q) \in Seq(S)
           /\ Elements(Tail(q)) \subseteq Elements(q)
           /\ \A T : AtMostOne(q, T) => /\ AtMostOne(Tail(q), T)
                                        /\ q[1] \in T => Elements(Tail(q)) \intersect T = {}
<1>1. /\ Tail(q) \in Seq(S) /\ Len(q) \in Nat /\ Len(q) > 0 /\ Len(Tail(q)) = Len(q) - 1
      /\ \A i \in 1..Len(Tail(q)) : Tail(q)[i] = q[i + 1] /\ i + 1 \in 1..Len(q) /\ i + 1 # 1
  OBVIOUS
<1>2. 1 \in 1..Len(q)
  BY <1>1
<1>3. Elements(Tail(q)) \subseteq Elements(q)
  BY <1>1 DEF Elements
<1>4. ASSUME NEW T, AtMostOne(q, T)
      PROVE  AtMostOne(Tail(q), T) /\ (q[1] \in T => Elements(Tail(q)) \intersect T = {})
  <2>1. AtMostOne(Tail(q), T)
    BY <1>1, <1>4 DEF AtMostOne
  <2>2. q[1] \in T => Elements(Tail(q)) \intersect T = {}
    BY <1>1, <1>2, <1>4 DEF AtMostOne, Elements
  <2>. QED BY <2>1, <2>2
<1>. QED BY <1>1, <1>2, <1>3, <1>4 DEF Elements

-----------------------------------------------------------------------------
(* Types.                                                                  *)

\* Every step keeps the types.
LEMMA TypeStep ==
    ASSUME IInv, [Next]_vars
    PROVE  Types'
<1>. USE SessionBounds DEF Types, SessionTypeOK, wireVars, discoveryVars, programVars, serverVars,
     Clients, Offered, Unknown, Channels, Empty, Description, Answers, Broadcasts, PlainTypes,
     EncryptedTypes, Said
<1>. Types
  BY DEF IInv
<1>1. Begin => Types'
  BY DEF Begin, Say
<1>2. React => Types'
  <2>. SUFFICES ASSUME React PROVE Types'
    OBVIOUS
  <2>1. /\ Tail(toHeadunit) \in Seq(PlainTypes \union EncryptedTypes)
        /\ \A m \in Said : Append(fromHeadunit, m) \in Seq(Said)
    BY DEF React
  <2>2. UNCHANGED fromHeadunit \/ \E m \in Said : fromHeadunit' = Append(fromHeadunit, m)
    BY DEF React, Say
  <2>3. headunit' \in {"silent", "started", "authenticated"}
    BY DEF React
  <2>. QED BY <2>1, <2>2, <2>3 DEF React
<1>3. Ping => Types'
  BY DEF Ping, Say
<1>4. PumpFails => Types'
  BY DEF PumpFails
<1>5. HandleVersionRequest => Types'
  <2>1. Incoming("VersionRequest") \/ Incoming("BadVersion") => Tail(fromHeadunit) \in Seq(Said)
    BY DEF Incoming
  <2>2. Append(toHeadunit, "VersionResponse") \in Seq(PlainTypes \union EncryptedTypes)
    OBVIOUS
  <2>. QED BY <2>1, <2>2 DEF HandleVersionRequest, Incoming, SendMessage
<1>6. HandleSslHandshake => Types'
  <2>. SUFFICES ASSUME HandleSslHandshake PROVE Types'
    OBVIOUS
  <2>1. flights < 2
    BY Taken DEF HandleSslHandshake, Incoming, IInv, Handshake
  <2>. QED BY <2>1 DEF HandleSslHandshake, Incoming, SendMessage
<1>7. HandleAuthComplete \/ HandlePingRequest => Types'
  <2>1. Incoming("AuthComplete") \/ Incoming("PingRequest") => Tail(fromHeadunit) \in Seq(Said)
    BY DEF Incoming
  <2>2. \A m \in EncryptedTypes : Append(toHeadunit, m) \in Seq(PlainTypes \union EncryptedTypes)
    OBVIOUS
  <2>. QED BY <2>1, <2>2 DEF HandleAuthComplete, HandlePingRequest, Incoming, SendMessage
<1>8. HandleServiceDiscoveryResponse => Types'
  BY DEF HandleServiceDiscoveryResponse, Incoming
<1>9. SetUpChannel => Types'
  BY DEF SetUpChannel, NextState, IInv, Discovery
<1>10. HandleChannelMessage => Types'
  BY DEF HandleChannelMessage, Incoming
<1>11. HandleChannelOpenResponse => Types'
  BY DEF HandleChannelOpenResponse, Incoming
<1>12. ASSUME NEW c \in Clients, Accept(c)
       PROVE  Types'
  BY <1>12 DEF Accept
<1>13. ASSUME NEW c \in Clients, GetServiceDescriptor(c)
       PROVE  Types'
  BY <1>13 DEF GetServiceDescriptor, ServerReads
<1>14. ASSUME NEW c \in Clients, GetChannelNumberByChannelType(c)
       PROVE  Types'
  BY <1>14 DEF GetChannelNumberByChannelType, ServerReads
<1>15. ASSUME NEW c \in Clients, RawData(c)
       PROVE  Types'
  <2>1. UNCHANGED toHeadunit \/ \E ch : toHeadunit' = Append(toHeadunit, Request(c, ch))
    BY <1>15 DEF RawData, SendMessage
  <2>2. \A ch : Request(c, ch) \in EncryptedTypes
    BY DEF Request
  <2>3. thread' \in [Clients -> {"none", "serving", "opening", "dropped"}]
    BY <1>15 DEF RawData
  <2>4. toHeadunit' \in Seq(PlainTypes \union EncryptedTypes)
    <3>1. \A m \in EncryptedTypes : Append(toHeadunit, m) \in Seq(PlainTypes \union EncryptedTypes)
      OBVIOUS
    <3>. QED BY <2>1, <2>2, <3>1
  <2>5. mapped' \subseteq Clients
    BY <1>15 DEF RawData
  <2>. QED BY <1>15, <2>3, <2>4, <2>5 DEF RawData, ServerReads
<1>16. ASSUME NEW c \in Clients, Disconnected(c)
       PROVE  Types'
  <2>1. c \in Open /\ IsFiniteSet(Open) /\ Cardinality(Open) + leaked <= Descriptors
    BY <1>16 DEF Disconnected, Open, IInv, Sockets
  <2>2. Cardinality(Open) \in Nat /\ Cardinality(Open) # 0
    BY <2>1, FS_CardinalityType, FS_EmptySet
  <2>3. leaked' \in 0..Descriptors
    BY <1>16, <2>1, <2>2 DEF Disconnected
  <2>. QED BY <1>16, <2>3 DEF Disconnected
<1>17. ASSUME NEW c \in Clients, Start(c)
       PROVE  Types'
  BY <1>17 DEF Start, Question
<1>18. ASSUME NEW c \in Clients, TakeAnswer(c)
       PROVE  Types'
  <2>1. inbox[c] \in Seq(Answers \union Broadcasts)
    OBVIOUS
  <2>2. /\ inbox[c][1] \in Elements(inbox[c]) /\ inbox[c][1] \in Answers \union Broadcasts
        /\ Tail(inbox[c]) \in Seq(Answers \union Broadcasts)
    BY <1>18, <2>1, Taken DEF TakeAnswer
  <2>3. c \notin Proxies => FirstByte(inbox[c][1]) \in Channels \union {Empty}
    BY <2>2 DEF FirstByte, IInv, Questions
  <2>4. packet' \in [Clients -> {"none", "GetServiceDescriptor", "GetChannelNumber"} \union Channels]
    BY <1>18, <2>2, <2>3 DEF TakeAnswer, FirstByte
  <2>5. got' \in [Clients -> Answers \union Broadcasts \union Channels]
    <3>1. /\ inbox[c][1] \in Answers \union Broadcasts \union Channels
          /\ c \notin Proxies => FirstByte(inbox[c][1]) \in Answers \union Broadcasts \union Channels
      BY <2>2, <2>3
    <3>2. UNCHANGED got \/ \E m \in Answers \union Broadcasts \union Channels : got' = [got EXCEPT ![c] = m]
      BY <1>18, <3>1 DEF TakeAnswer
    <3>. QED BY <3>2
  <2>6. prog' \in [Clients -> {"down", "asking", "running", "leaving"}]
    <3>1. \E place \in {"running", "leaving"} : prog' = [prog EXCEPT ![c] = place]
      BY <1>18 DEF TakeAnswer
    <3>. QED BY <3>1
  <2>7. inbox' \in [Clients -> Seq(Answers \union Broadcasts)]
    BY <1>18, <2>2 DEF TakeAnswer
  <2>. QED BY <1>18, <2>4, <2>5, <2>6, <2>7 DEF TakeAnswer
<1>19. ASSUME NEW c \in Clients, Read(c)
       PROVE  Types'
  BY <1>19 DEF Read
<1>20. ASSUME NEW c \in Clients, SeeDropped(c) \/ Forward(c) \/ Exit(c)
       PROVE  Types'
  <2>1. SeeDropped(c) => Types'
    BY DEF SeeDropped
  <2>2. Forward(c) => Types'
    BY DEF Forward
  <2>3. Exit(c) => Types'
    BY DEF Exit
  <2>. QED BY <1>20, <2>1, <2>2, <2>3
<1>21. UNCHANGED vars => Types'
  BY DEF vars
<1>. QED BY <1>1, <1>2, <1>3, <1>4, <1>5, <1>6, <1>7, <1>8, <1>9, <1>10, <1>11, <1>12, <1>13, <1>14,
     <1>15, <1>16, <1>17, <1>18, <1>19, <1>20, <1>21 DEF Next, Ep2, ServerThread, Program

-----------------------------------------------------------------------------
(* How the session comes up.                                               *)

Outgoing == PlainTypes \union EncryptedTypes

\* A step that sends and takes, but is nobody's turn.
LEMMA QuietQueue ==
    ASSUME NEW S, NEW q \in Seq(S), NEW T, AtMostOne(q, T), NEW r,
           \/ r = q
           \/ \E m \in S \ T : r = Append(q, m)
           \/ q # <<>> /\ r = Tail(q)
    PROVE  Elements(r) \intersect T \subseteq Elements(q) \intersect T /\ AtMostOne(r, T)
<1>1. CASE r = q
  BY <1>1
<1>2. ASSUME NEW m \in S \ T, r = Append(q, m)
      PROVE  Elements(r) \intersect T \subseteq Elements(q) \intersect T /\ AtMostOne(r, T)
  BY <1>2, Appended
<1>3. CASE q # <<>> /\ r = Tail(q)
  BY <1>3, Taken
<1>. QED BY <1>1, <1>2, <1>3

\* Such a step keeps whose turn it is.
LEMMA QuietTurns ==
    ASSUME Types, TakingTurns, Handshake, UNCHANGED <<headunit, flights, descriptor>>,
           \/ UNCHANGED fromHeadunit
           \/ \E m \in Said \ OurTurn : fromHeadunit' = Append(fromHeadunit, m)
           \/ fromHeadunit # <<>> /\ fromHeadunit' = Tail(fromHeadunit),
           \/ UNCHANGED toHeadunit
           \/ \E m \in Outgoing \ ItsTurn : toHeadunit' = Append(toHeadunit, m)
           \/ toHeadunit # <<>> /\ toHeadunit' = Tail(toHeadunit)
    PROVE  TakingTurns' /\ Handshake'
<1>. fromHeadunit \in Seq(Said) /\ toHeadunit \in Seq(Outgoing)
  BY DEF Types, SessionTypeOK, Outgoing
<1>1. /\ Elements(fromHeadunit') \intersect OurTurn \subseteq Elements(fromHeadunit) \intersect OurTurn
      /\ AtMostOne(fromHeadunit', OurTurn)
  BY QuietQueue DEF TakingTurns
<1>2. /\ Elements(toHeadunit') \intersect ItsTurn \subseteq Elements(toHeadunit) \intersect ItsTurn
      /\ AtMostOne(toHeadunit', ItsTurn)
  BY QuietQueue DEF TakingTurns
<1>. QED BY <1>1, <1>2 DEF TakingTurns, NobodysTurn, Handshake, OurTurn, ItsTurn

\* A step that takes a message and says what follows from it.
LEMMA TurnsStep ==
    ASSUME IInv, [Next]_vars
    PROVE  TakingTurns' /\ Handshake'
<1>. USE DEF wireVars, discoveryVars, programVars, serverVars, Say, SendMessage, Incoming
<1>1. /\ fromHeadunit \in Seq(Said) /\ toHeadunit \in Seq(Outgoing) /\ flights \in 0..2
      /\ Types /\ TakingTurns /\ Handshake /\ EvidenceHolds
  BY DEF IInv, Types, SessionTypeOK, Outgoing
<1>2. Begin => TakingTurns' /\ Handshake'
  <2>. SUFFICES ASSUME Begin PROVE TakingTurns' /\ Handshake'
    OBVIOUS
  <2>1. flights = 0 /\ NobodysTurn /\ descriptor # Description
    BY <1>1 DEF Begin, Handshake, TakingTurns, EvidenceHolds, Evidence, Established
  <2>2. PICK m \in {"VersionRequest", "BadVersion"} : fromHeadunit' = Append(fromHeadunit, m)
    BY DEF Begin
  <2>3. m \in Said
    BY DEF Said
  <2>4. /\ Elements(fromHeadunit') = Elements(fromHeadunit) \union {m}
        /\ AtMostOne(fromHeadunit', OurTurn)
    BY <1>1, <2>1, <2>2, <2>3, Appended DEF TakingTurns, NobodysTurn
  <2>. QED BY <1>1, <2>1, <2>4 DEF Begin, TakingTurns, Handshake, NobodysTurn, OurTurn
<1>3. React => TakingTurns' /\ Handshake'
  <2>. SUFFICES ASSUME React PROVE TakingTurns' /\ Handshake'
    OBVIOUS
  <2>1. /\ toHeadunit # <<>> /\ toHeadunit' = Tail(toHeadunit) /\ UNCHANGED <<flights, descriptor>>
        /\ toHeadunit[1] \in Elements(toHeadunit)
        /\ Elements(toHeadunit') \subseteq Elements(toHeadunit)
        /\ AtMostOne(toHeadunit', ItsTurn)
        /\ toHeadunit[1] \in ItsTurn => Elements(toHeadunit') \intersect ItsTurn = {}
    BY <1>1, Taken DEF React, TakingTurns
  <2>2. CASE toHeadunit[1] \in ItsTurn
    <3>1. /\ NobodysTurn' \/ \E m \in OurTurn : fromHeadunit' = Append(fromHeadunit, m)
          /\ Elements(fromHeadunit) \intersect OurTurn = {}
          /\ headunit # "silent" /\ descriptor # Description
      BY <2>1, <2>2, <1>1 DEF React, TakingTurns, ItsTurn, OurTurn, NobodysTurn
    <3>2. PICK m \in {"SslHandshake", "AuthComplete", "ServiceDiscoveryResponse"} :
             /\ fromHeadunit' = Append(fromHeadunit, m)
             /\ m = "SslHandshake" => flights < 2
             /\ headunit' # "silent"
      <4>1. toHeadunit[1] = "VersionResponse" => flights < 2
        BY <2>1, <1>1 DEF Handshake
      <4>2. ~Established => flights < 2
        BY <1>1 DEF Established
      <4>. QED BY <2>1, <2>2, <3>1, <4>1, <4>2 DEF React, ItsTurn
    <3>3. /\ m \in Said
          /\ Elements(fromHeadunit') = Elements(fromHeadunit) \union {m}
          /\ AtMostOne(fromHeadunit', OurTurn)
      BY <1>1, <3>1, <3>2, Appended DEF TakingTurns, Said
    <3>. QED BY <1>1, <2>1, <2>2, <3>1, <3>2, <3>3 DEF TakingTurns, Handshake, NobodysTurn, OurTurn, ItsTurn
  <2>3. CASE toHeadunit[1] \notin ItsTurn
    <3>1. /\ UNCHANGED headunit
          /\ \/ UNCHANGED fromHeadunit
             \/ \E m \in Said \ OurTurn : fromHeadunit' = Append(fromHeadunit, m)
      BY <2>3 DEF React, ItsTurn, Said, OurTurn, Broadcasts
    <3>. QED BY <1>1, <2>1, <3>1, QuietTurns
  <2>. QED BY <2>2, <2>3
<1>4. ASSUME NEW m, Incoming(m)
      PROVE  /\ fromHeadunit # <<>> /\ fromHeadunit' = Tail(fromHeadunit) /\ m \in Elements(fromHeadunit)
             /\ Elements(fromHeadunit') \subseteq Elements(fromHeadunit)
             /\ AtMostOne(fromHeadunit', OurTurn)
             /\ m \in OurTurn => /\ Elements(fromHeadunit') \intersect OurTurn = {}
                                 /\ Elements(toHeadunit) \intersect ItsTurn = {}
                                 /\ headunit # "silent" /\ descriptor # Description
             /\ UNCHANGED headunit
  <2>1. /\ fromHeadunit # <<>> /\ fromHeadunit' = Tail(fromHeadunit) /\ m \in Elements(fromHeadunit)
        /\ Elements(fromHeadunit') \subseteq Elements(fromHeadunit)
        /\ AtMostOne(fromHeadunit', OurTurn)
        /\ m \in OurTurn => Elements(fromHeadunit') \intersect OurTurn = {}
    BY <1>1, <1>4, Taken DEF TakingTurns
  <2>. QED BY <1>1, <1>4, <2>1 DEF TakingTurns, NobodysTurn
<1>5. ASSUME NEW m \in Outgoing, SendMessage(m)
      PROVE  /\ Elements(toHeadunit') = Elements(toHeadunit) \union {m}
             /\ (m \in ItsTurn => Elements(toHeadunit) \intersect ItsTurn = {}) => AtMostOne(toHeadunit', ItsTurn)
  BY <1>1, <1>5, Appended DEF TakingTurns
<1>. HIDE DEF Incoming, SendMessage
<1>6. HandleVersionRequest => TakingTurns' /\ Handshake'
  <2>1. ASSUME Incoming("VersionRequest"), SendMessage("VersionResponse"), UNCHANGED <<flights, descriptor>>
        PROVE  TakingTurns' /\ Handshake'
    <3>1. "VersionRequest" \in OurTurn /\ "VersionResponse" \in Outgoing \intersect ItsTurn
      BY DEF OurTurn, ItsTurn, Outgoing, PlainTypes
    <3>. QED BY <1>1, <1>4, <1>5, <2>1, <3>1 DEF TakingTurns, Handshake, NobodysTurn, OurTurn
  <2>2. ASSUME Incoming("BadVersion"), UNCHANGED <<toHeadunit, flights, descriptor>>
        PROVE  TakingTurns' /\ Handshake'
    BY <1>1, <1>4, <2>2, QuietTurns
  <2>. QED BY <2>1, <2>2 DEF HandleVersionRequest
<1>7. HandleSslHandshake => TakingTurns' /\ Handshake'
  <2>. SUFFICES ASSUME HandleSslHandshake PROVE TakingTurns' /\ Handshake'
    OBVIOUS
  <2>1. "SslHandshake" \in OurTurn \intersect ItsTurn \intersect Outgoing
    BY DEF OurTurn, ItsTurn, Outgoing, PlainTypes
  <2>2. Incoming("SslHandshake") /\ SendMessage("SslHandshake") /\ UNCHANGED descriptor
    BY DEF HandleSslHandshake
  <2>. QED BY <1>1, <1>4, <1>5, <2>1, <2>2 DEF TakingTurns, Handshake, NobodysTurn, OurTurn, ItsTurn
<1>8. HandleAuthComplete => TakingTurns' /\ Handshake'
  <2>. SUFFICES ASSUME HandleAuthComplete PROVE TakingTurns' /\ Handshake'
    OBVIOUS
  <2>1. "AuthComplete" \in OurTurn /\ "ServiceDiscoveryRequest" \in ItsTurn \intersect Outgoing
    BY DEF OurTurn, ItsTurn, Outgoing, EncryptedTypes
  <2>2. Incoming("AuthComplete") /\ SendMessage("ServiceDiscoveryRequest") /\ UNCHANGED <<flights, descriptor>>
    BY DEF HandleAuthComplete
  <2>. QED BY <1>1, <1>4, <1>5, <2>1, <2>2 DEF TakingTurns, Handshake, NobodysTurn, OurTurn, ItsTurn
<1>9. HandleServiceDiscoveryResponse => TakingTurns' /\ Handshake'
  <2>. SUFFICES ASSUME HandleServiceDiscoveryResponse PROVE TakingTurns' /\ Handshake'
    OBVIOUS
  <2>1. "ServiceDiscoveryResponse" \in OurTurn
    BY DEF OurTurn
  <2>2. Incoming("ServiceDiscoveryResponse") /\ UNCHANGED <<toHeadunit, flights>>
    BY DEF HandleServiceDiscoveryResponse
  <2>. QED BY <1>1, <1>4, <2>1, <2>2 DEF TakingTurns, Handshake, NobodysTurn, OurTurn, ItsTurn
<1>10. HandlePingRequest \/ HandleChannelMessage \/ HandleChannelOpenResponse => TakingTurns' /\ Handshake'
  <2>1. "PingResponse" \in Outgoing \ ItsTurn
    BY DEF Outgoing, EncryptedTypes, ItsTurn
  <2>2. HandlePingRequest => TakingTurns' /\ Handshake'
    BY <1>1, <1>4, <2>1, QuietTurns DEF HandlePingRequest, SendMessage
  <2>3. HandleChannelMessage => TakingTurns' /\ Handshake'
    BY <1>1, <1>4, QuietTurns DEF HandleChannelMessage
  <2>4. HandleChannelOpenResponse => TakingTurns' /\ Handshake'
    BY <1>1, <1>4, QuietTurns DEF HandleChannelOpenResponse
  <2>. QED BY <2>2, <2>3, <2>4
<1>11. Ping \/ PumpFails \/ SetUpChannel \/ UNCHANGED vars => TakingTurns' /\ Handshake'
  <2>1. "PingRequest" \in Said \ OurTurn
    BY DEF Said, OurTurn
  <2>. QED BY <1>1, <2>1, QuietTurns DEF Ping, PumpFails, SetUpChannel, vars
<1>12. ASSUME NEW c \in Clients, ServerThread(c) \/ Program(c) \/ Forward(c) \/ Exit(c)
       PROVE  TakingTurns' /\ Handshake'
  <2>1. \A ch : Request(c, ch) \in Outgoing \ ItsTurn
    BY DEF Request, Outgoing, EncryptedTypes, ItsTurn, Empty
  <2>2. RawData(c) => /\ UNCHANGED <<headunit, flights, descriptor, fromHeadunit>>
                      /\ UNCHANGED toHeadunit \/ \E ch : toHeadunit' = Append(toHeadunit, Request(c, ch))
    BY DEF RawData, ServerReads, SendMessage
  <2>3. RawData(c) => TakingTurns' /\ Handshake'
    BY <1>1, <2>1, <2>2, QuietTurns
  <2>4. ~RawData(c) => UNCHANGED <<headunit, flights, descriptor, wireVars>>
    BY <1>12 DEF ServerThread, Program, Accept, GetServiceDescriptor, GetChannelNumberByChannelType,
       ServerReads, Disconnected, Start, TakeAnswer, Read, SeeDropped, Forward, Exit
  <2>. QED BY <1>1, <2>3, <2>4, QuietTurns
<1>. QED BY <1>2, <1>3, <1>6, <1>7, <1>8, <1>9, <1>10, <1>11, <1>12 DEF Next, Ep2

-----------------------------------------------------------------------------
(* Nothing shows a TLS session that does not stand.                        *)

\* The evidence of the messages on their way and of the session, ...
WireEvidence ==
    \/ headunit = "authenticated"
    \/ Elements(fromHeadunit) \ {"VersionRequest", "BadVersion", "SslHandshake"} # {}
    \/ Elements(toHeadunit) \intersect EncryptedTypes # {}
    \/ descriptor = Description

\* ... and of a client.
ClientEvidence(c, itsPacket, itsInbox, place) ==
    \/ itsPacket \in Channels \ {Unknown}
    \/ Elements(itsInbox) \ {Empty, Unknown} # {}
    \/ c \in Proxies /\ place = "running"

LEMMA AllEvidence ==
    Evidence <=> WireEvidence \/ \E c \in Clients : ClientEvidence(c, packet[c], inbox[c], prog[c])
BY DEF Evidence, WireEvidence, ClientEvidence

\* A step of the clients shows nothing that was not there.
LEMMA QuietEvidence ==
    ASSUME EvidenceHolds, UNCHANGED flights,
           WireEvidence' => Evidence,
           \A c \in Clients : ClientEvidence(c, packet'[c], inbox'[c], prog'[c])
                                => ClientEvidence(c, packet[c], inbox[c], prog[c]) \/ WireEvidence
    PROVE  EvidenceHolds'
BY AllEvidence DEF EvidenceHolds, Evidence, WireEvidence, ClientEvidence, Established

\* Every step shows only what stands.
LEMMA EvidenceStep ==
    ASSUME IInv, [Next]_vars
    PROVE  EvidenceHolds'
<1>. USE DEF wireVars, discoveryVars, programVars, serverVars, Say, SendMessage, Incoming
<1>. DEFINE Begun == {"VersionRequest", "BadVersion", "SslHandshake"}
<1>1. /\ fromHeadunit \in Seq(Said) /\ toHeadunit \in Seq(Outgoing) /\ flights \in 0..2
      /\ Types /\ Handshake /\ EvidenceHolds /\ Discovery /\ Questions
      /\ descriptor \in {Empty, Description}
      /\ packet \in [Clients -> {"none", "GetServiceDescriptor", "GetChannelNumber"} \union Channels]
      /\ inbox \in [Clients -> Seq(Answers \union Broadcasts)]
      /\ prog \in [Clients -> {"down", "asking", "running", "leaving"}]
      /\ \A c \in Clients : inbox[c] \in Seq(Answers \union Broadcasts)
  BY DEF IInv, Types, SessionTypeOK, Outgoing
<1>2. /\ \A m \in Said : /\ Append(fromHeadunit, m) \in Seq(Said)
                         /\ Elements(Append(fromHeadunit, m)) = Elements(fromHeadunit) \union {m}
      /\ \A m \in Outgoing : Elements(Append(toHeadunit, m)) = Elements(toHeadunit) \union {m}
      /\ fromHeadunit # <<>> => /\ fromHeadunit[1] \in Elements(fromHeadunit)
                                /\ Elements(Tail(fromHeadunit)) \subseteq Elements(fromHeadunit)
      /\ toHeadunit # <<>> => /\ toHeadunit[1] \in Elements(toHeadunit)
                              /\ Elements(Tail(toHeadunit)) \subseteq Elements(toHeadunit)
  BY <1>1, Appended, Taken
<1>3. \A c \in Clients :
         /\ \A m \in Answers \union Broadcasts : Elements(Append(inbox[c], m)) = Elements(inbox[c]) \union {m}
         /\ inbox[c] # <<>> => /\ inbox[c][1] \in Elements(inbox[c])
                               /\ Elements(Tail(inbox[c])) \subseteq Elements(inbox[c])
  <2>. TAKE c \in Clients
  <2>1. inbox[c] \in Seq(Answers \union Broadcasts)
    BY <1>1
  <2>. QED BY <2>1, Appended, Taken
<1>4. Begin => EvidenceHolds'
  BY <1>1, <1>2, QuietEvidence DEF Begin, WireEvidence, Evidence, Said
<1>5. React => EvidenceHolds'
  <2>. SUFFICES ASSUME React PROVE EvidenceHolds'
    OBVIOUS
  <2>0. /\ toHeadunit # <<>> /\ toHeadunit' = Tail(toHeadunit)
        /\ UNCHANGED <<flights, descriptor, packet, inbox, prog>>
    BY DEF React
  <2>1. CASE toHeadunit[1] \in {"VersionResponse", "SslHandshake"} /\ ~(toHeadunit[1] = "SslHandshake" /\ Established)
    <3>1. fromHeadunit' = Append(fromHeadunit, "SslHandshake") /\ UNCHANGED headunit
      BY <2>1 DEF React
    <3>2. "SslHandshake" \in Said
      BY DEF Said
    <3>. QED BY <1>1, <1>2, <2>0, <3>1, <3>2, QuietEvidence DEF WireEvidence, Evidence
  <2>2. CASE toHeadunit[1] = "SslHandshake" /\ Established
    BY <2>0, <2>2 DEF EvidenceHolds, Established
  <2>3. CASE toHeadunit[1] \notin {"VersionResponse", "SslHandshake"}
    <3>1. toHeadunit[1] \in EncryptedTypes
      BY <1>1, <2>3, <2>0, Taken DEF Outgoing, PlainTypes
    <3>2. Evidence
      BY <1>2, <2>0, <3>1 DEF Evidence
    <3>. QED BY <1>1, <2>0, <3>2 DEF EvidenceHolds, Established
  <2>. QED BY <2>1, <2>2, <2>3
<1>6. Ping => EvidenceHolds'
  BY <1>1 DEF Ping, EvidenceHolds, Evidence, Established
<1>7. PumpFails \/ SetUpChannel \/ HandleChannelOpenResponse \/ UNCHANGED vars => EvidenceHolds'
  BY <1>1, <1>2, QuietEvidence DEF PumpFails, SetUpChannel, HandleChannelOpenResponse, vars, WireEvidence, Evidence
<1>8. HandleVersionRequest => EvidenceHolds'
  <2>1. "VersionResponse" \in Outgoing \ EncryptedTypes
    BY DEF Outgoing, PlainTypes, EncryptedTypes, Empty
  <2>2. HandleVersionRequest => Elements(toHeadunit') \intersect EncryptedTypes
                                   \subseteq Elements(toHeadunit) \intersect EncryptedTypes
    BY <1>2, <2>1 DEF HandleVersionRequest
  <2>3. HandleVersionRequest => /\ UNCHANGED <<headunit, flights, descriptor, packet, inbox, prog>>
                                /\ Elements(fromHeadunit') \subseteq Elements(fromHeadunit)
    BY <1>2 DEF HandleVersionRequest
  <2>. QED BY <1>1, <2>2, <2>3, QuietEvidence DEF WireEvidence, Evidence
<1>9. HandleSslHandshake => EvidenceHolds'
  <2>. SUFFICES ASSUME HandleSslHandshake PROVE EvidenceHolds'
    OBVIOUS
  <2>1. "SslHandshake" \in Outgoing \ EncryptedTypes
    BY DEF Outgoing, PlainTypes, EncryptedTypes, Empty
  <2>2. ~Evidence
    BY <1>1, <1>2 DEF HandleSslHandshake, Handshake, EvidenceHolds, Established
  <2>3. /\ UNCHANGED <<headunit, descriptor, packet, inbox, prog>>
        /\ Elements(fromHeadunit') \subseteq Elements(fromHeadunit)
        /\ Elements(toHeadunit') \intersect EncryptedTypes \subseteq Elements(toHeadunit) \intersect EncryptedTypes
    BY <1>2, <2>1 DEF HandleSslHandshake
  <2>4. ~Evidence'
    BY <2>2, <2>3 DEF Evidence
  <2>. QED BY <2>4 DEF EvidenceHolds
<1>10. ASSUME NEW m, Incoming(m), m \notin {"VersionRequest", "BadVersion", "SslHandshake"}, UNCHANGED flights
       PROVE  EvidenceHolds'
  BY <1>1, <1>2, <1>10 DEF EvidenceHolds, Evidence, Established
<1>11. HandleAuthComplete \/ HandlePingRequest \/ HandleServiceDiscoveryResponse \/ HandleChannelMessage
          => EvidenceHolds'
  BY <1>10 DEF HandleAuthComplete, HandlePingRequest, HandleServiceDiscoveryResponse, HandleChannelMessage, Broadcasts
<1>12. ASSUME NEW c \in Clients, Accept(c) \/ Disconnected(c) \/ SeeDropped(c) \/ Exit(c)
       PROVE  EvidenceHolds'
  <2>1. UNCHANGED <<headunit, flights, descriptor, fromHeadunit, toHeadunit, packet, inbox>>
    BY <1>12 DEF Accept, Disconnected, SeeDropped, Exit
  <2>2. UNCHANGED prog \/ \E place \in {"down", "leaving"} : prog' = [prog EXCEPT ![c] = place]
    BY <1>12 DEF Accept, Disconnected, SeeDropped, Exit
  <2>. QED BY <1>1, <2>1, <2>2, QuietEvidence DEF WireEvidence, Evidence, ClientEvidence
<1>13. ASSUME NEW c \in Clients, GetServiceDescriptor(c)
       PROVE  EvidenceHolds'
  BY <1>1, <1>3, <1>13, QuietEvidence DEF GetServiceDescriptor, ServerReads, WireEvidence, Evidence,
     ClientEvidence, Answers, Channels, Offered, Unknown
<1>14. ASSUME NEW c \in Clients, GetChannelNumberByChannelType(c)
       PROVE  EvidenceHolds'
  <2>1. handler["input"] # "null" => descriptor = Description
    BY <1>1 DEF Discovery, Offered
  <2>2. (IF handler["input"] = "null" THEN Unknown ELSE "input") \in Answers
    BY DEF Answers
  <2>. QED BY <1>1, <1>3, <1>14, <2>1, <2>2, QuietEvidence DEF GetChannelNumberByChannelType, ServerReads,
          WireEvidence, Evidence, ClientEvidence, Answers, Channels, Offered, Unknown
<1>15. ASSUME NEW c \in Clients, RawData(c)
       PROVE  EvidenceHolds'
  <2>1. UNCHANGED <<headunit, flights, descriptor, fromHeadunit, prog, inbox>> /\ packet' = [packet EXCEPT ![c] = "none"]
    BY <1>15 DEF RawData, ServerReads
  <2>2. CASE packet[c] = Unknown
    <3>1. UNCHANGED toHeadunit
      BY <1>1, <1>15, <2>2 DEF RawData, Refused, Discovery
    <3>. QED BY <1>1, <2>1, <3>1, QuietEvidence DEF WireEvidence, Evidence, ClientEvidence, Channels, Offered, Unknown
  <2>3. CASE packet[c] # Unknown
    <3>1. Evidence
      BY <1>15, <2>3 DEF RawData, Evidence
    <3>. QED BY <1>1, <2>1, <3>1 DEF EvidenceHolds, Established
  <2>. QED BY <2>2, <2>3
<1>16. ASSUME NEW c \in Clients, Start(c)
       PROVE  EvidenceHolds'
  <2>1. Elements(<<>>) = {}
    BY DEF Elements
  <2>. QED BY <1>1, <1>16, <2>1, QuietEvidence DEF Start, Question, WireEvidence, Evidence, ClientEvidence,
          Channels, Offered, Unknown
<1>17. ASSUME NEW c \in Clients, TakeAnswer(c)
       PROVE  EvidenceHolds'
  <2>1. /\ UNCHANGED <<headunit, flights, descriptor, fromHeadunit, toHeadunit>>
        /\ inbox[c] # <<>> /\ inbox' = [inbox EXCEPT ![c] = Tail(@)]
    BY <1>17 DEF TakeAnswer
  <2>2. CASE inbox[c][1] \notin {Empty, Unknown}
    <3>1. inbox[c][1] \in Elements(inbox[c]) \ {Empty, Unknown}
      BY <1>3, <2>1, <2>2
    <3>2. Evidence
      BY <3>1 DEF Evidence
    <3>. QED BY <1>1, <2>1, <3>2 DEF EvidenceHolds, Established
  <2>3. CASE inbox[c][1] = Empty
    <3>1. UNCHANGED packet /\ prog' = [prog EXCEPT ![c] = "leaving"]
      BY <1>17, <2>3 DEF TakeAnswer
    <3>. QED BY <1>1, <1>3, <2>1, <3>1, QuietEvidence DEF WireEvidence, Evidence, ClientEvidence, Answers
  <2>4. CASE inbox[c][1] = Unknown
    <3>1. c \notin Proxies
      BY <1>1, <1>3, <2>1, <2>4 DEF Questions, Answers
    <3>2. packet' = [packet EXCEPT ![c] = Unknown] /\ prog' = [prog EXCEPT ![c] = "running"]
      BY <1>17, <2>4, <3>1 DEF TakeAnswer, FirstByte, Unknown, Empty
    <3>. QED BY <1>1, <1>3, <2>1, <3>1, <3>2, QuietEvidence DEF WireEvidence, Evidence, ClientEvidence, Answers
  <2>. QED BY <2>2, <2>3, <2>4
<1>18. ASSUME NEW c \in Clients, Read(c)
       PROVE  EvidenceHolds'
  BY <1>1, <1>3, <1>18, QuietEvidence DEF Read, WireEvidence, Evidence, ClientEvidence, Answers
<1>19. ASSUME NEW c \in Clients, Forward(c)
       PROVE  EvidenceHolds'
  BY <1>1, <1>19 DEF Forward, EvidenceHolds, Evidence, Established
<1>. QED BY <1>4, <1>5, <1>6, <1>7, <1>8, <1>9, <1>11, <1>12, <1>13, <1>14, <1>15, <1>16, <1>17, <1>18, <1>19
         DEF Next, Ep2, ServerThread, Program

-----------------------------------------------------------------------------
(* The handlers, the questions and the sockets.                            *)

\* Every step keeps the order of the discovery; a complete handler stays so.
LEMMA DiscoveryStep ==
    ASSUME IInv, [Next]_vars
    PROVE  Discovery' /\ \A ch \in Channels : handler[ch] = "wired" => handler'[ch] = "wired"
<1>. USE DEF wireVars, discoveryVars, programVars, serverVars, Incoming
<1>1. /\ fromHeadunit \in Seq(Said) /\ todo \subseteq Offered /\ descriptor \in {Empty, Description}
      /\ handler \in [Channels -> {"null", "numbered", "made", "wired"}]
      /\ TakingTurns /\ Discovery
  BY DEF IInv, Types, SessionTypeOK
<1>2. HandleServiceDiscoveryResponse =>
         Discovery' /\ \A ch \in Channels : handler[ch] = "wired" => handler'[ch] = "wired"
  <2>. SUFFICES ASSUME HandleServiceDiscoveryResponse
                PROVE  Discovery' /\ \A ch \in Channels : handler[ch] = "wired" => handler'[ch] = "wired"
    OBVIOUS
  <2>1. "ServiceDiscoveryResponse" \in Elements(fromHeadunit)
    BY <1>1, Taken DEF HandleServiceDiscoveryResponse
  <2>2. descriptor = Empty
    BY <1>1, <2>1 DEF TakingTurns, NobodysTurn, OurTurn
  <2>. QED BY <1>1, <2>2 DEF HandleServiceDiscoveryResponse, Discovery, Empty, Description
<1>3. SetUpChannel => Discovery' /\ \A ch \in Channels : handler[ch] = "wired" => handler'[ch] = "wired"
  BY <1>1 DEF SetUpChannel, Discovery, NextState, Offered, Channels, Unknown
<1>4. ~HandleServiceDiscoveryResponse /\ ~SetUpChannel
         => UNCHANGED discoveryVars /\ (ep2' = ep2 \/ ep2' = "ended")
  <2>1. ASSUME NEW c \in Clients, ServerThread(c) \/ Program(c) \/ Forward(c) \/ Exit(c)
        PROVE  UNCHANGED <<discoveryVars, ep2>>
    BY <2>1 DEF ServerThread, Program, Accept, GetServiceDescriptor, GetChannelNumberByChannelType, RawData,
       ServerReads, Disconnected, Start, TakeAnswer, Read, SeeDropped, Forward, Exit
  <2>2. HandleVersionRequest \/ HandleSslHandshake \/ HandleAuthComplete \/ HandlePingRequest
        \/ HandleChannelMessage \/ HandleChannelOpenResponse
           => UNCHANGED discoveryVars /\ (ep2' = ep2 \/ ep2' = "ended")
    BY DEF HandleVersionRequest, HandleSslHandshake, HandleAuthComplete, HandlePingRequest,
       HandleChannelMessage, HandleChannelOpenResponse
  <2>3. Begin \/ React \/ Ping \/ PumpFails \/ UNCHANGED vars
           => UNCHANGED discoveryVars /\ (ep2' = ep2 \/ ep2' = "ended")
    BY DEF Begin, React, Ping, PumpFails, vars
  <2>. QED BY <2>1, <2>2, <2>3 DEF Next, Ep2
<1>. QED BY <1>1, <1>2, <1>3, <1>4 DEF Discovery

\* Every step keeps question and answer together.
LEMMA QuestionsStep ==
    ASSUME IInv, [Next]_vars
    PROVE  Questions'
<1>. USE DEF wireVars, discoveryVars, programVars, serverVars, Incoming
<1>1. /\ descriptor \in {Empty, Description} /\ Questions
      /\ packet \in [Clients -> {"none", "GetServiceDescriptor", "GetChannelNumber"} \union Channels]
      /\ inbox \in [Clients -> Seq(Answers \union Broadcasts)]
  BY DEF IInv, Types, SessionTypeOK
<1>2. \A c \in Clients :
         /\ \A m \in Answers \union Broadcasts : Elements(Append(inbox[c], m)) = Elements(inbox[c]) \union {m}
         /\ inbox[c] # <<>> => /\ inbox[c][1] \in Elements(inbox[c]) /\ inbox[c][1] \in Answers \union Broadcasts
                               /\ Elements(Tail(inbox[c])) \subseteq Elements(inbox[c])
  <2>. TAKE c \in Clients
  <2>1. inbox[c] \in Seq(Answers \union Broadcasts)
    BY <1>1
  <2>. QED BY <2>1, Appended, Taken
<1>3. Unknown \notin {Empty, Description} \union Broadcasts /\ Description \notin {Unknown, "input"} \union Broadcasts
  BY DEF Unknown, Empty, Description, Broadcasts
<1>4. HandleChannelMessage => Questions'
  <2>. SUFFICES ASSUME HandleChannelMessage PROVE Questions'
    OBVIOUS
  <2>1. \A c \in Clients : inbox'[c] = inbox[c] \/ \E m \in Broadcasts : inbox'[c] = Append(inbox[c], m)
    BY DEF HandleChannelMessage
  <2>2. \A c \in Clients : Elements(inbox'[c]) \subseteq Elements(inbox[c]) \union Broadcasts
    <3>. TAKE c \in Clients
    <3>1. ASSUME NEW m \in Broadcasts, inbox'[c] = Append(inbox[c], m)
          PROVE  Elements(inbox'[c]) \subseteq Elements(inbox[c]) \union Broadcasts
      BY <1>2, <3>1
    <3>. QED BY <2>1, <3>1
  <2>3. UNCHANGED packet
    BY DEF HandleChannelMessage
  <2>. QED BY <1>1, <1>3, <2>2, <2>3 DEF Questions
<1>5. ASSUME NEW c \in Clients, GetServiceDescriptor(c)
      PROVE  Questions'
  <2>1. c \in Proxies /\ descriptor \in Answers
    BY <1>1, <1>5 DEF GetServiceDescriptor, Questions, Question, Channels, Offered, Unknown, Answers
  <2>. QED BY <1>1, <1>2, <1>3, <1>5, <2>1 DEF GetServiceDescriptor, ServerReads, Questions
<1>6. ASSUME NEW c \in Clients, GetChannelNumberByChannelType(c)
      PROVE  Questions'
  <2>1. c \notin Proxies
    BY <1>1, <1>6 DEF GetChannelNumberByChannelType, Questions, Question, Channels, Offered, Unknown
  <2>2. PICK m \in {Unknown, "input"} : inbox' = [inbox EXCEPT ![c] = Append(@, m)]
    BY <1>6 DEF GetChannelNumberByChannelType
  <2>3. Elements(Append(inbox[c], m)) = Elements(inbox[c]) \union {m}
    BY <1>2 DEF Answers
  <2>. QED BY <1>1, <1>3, <1>6, <2>1, <2>2, <2>3 DEF GetChannelNumberByChannelType, ServerReads, Questions
<1>7. ASSUME NEW c \in Clients, RawData(c)
      PROVE  Questions'
  BY <1>1, <1>7 DEF RawData, ServerReads, Questions
<1>8. ASSUME NEW c \in Clients, Start(c)
      PROVE  Questions'
  <2>1. Elements(<<>>) = {}
    BY DEF Elements
  <2>. QED BY <1>1, <1>8, <2>1 DEF Start, Questions
<1>9. ASSUME NEW c \in Clients, TakeAnswer(c)
      PROVE  Questions'
  <2>1. /\ inbox[c] # <<>> /\ inbox' = [inbox EXCEPT ![c] = Tail(@)]
        /\ c \notin Proxies => inbox[c][1] # Description
    BY <1>1, <1>2, <1>9 DEF TakeAnswer, Questions
  <2>2. inbox[c][1] # Empty /\ c \notin Proxies => FirstByte(inbox[c][1]) \in Channels
    BY <1>2, <2>1 DEF FirstByte, Answers, Broadcasts, Channels, Offered, Empty
  <2>3. UNCHANGED packet \/ \E ch \in Channels : packet' = [packet EXCEPT ![c] = ch]
    BY <1>9, <2>2 DEF TakeAnswer
  <2>. QED BY <1>1, <1>2, <2>1, <2>3 DEF Questions
<1>10. ASSUME NEW c \in Clients, Read(c)
       PROVE  Questions'
  BY <1>1, <1>2, <1>10 DEF Read, Questions
<1>11. ASSUME NEW c \in Clients, Forward(c)
       PROVE  Questions'
  BY <1>1, <1>11 DEF Forward, Questions, Channels
<1>12. ASSUME NEW c \in Clients, Accept(c) \/ Disconnected(c) \/ SeeDropped(c) \/ Exit(c)
       PROVE  UNCHANGED <<packet, inbox>>
  BY <1>12 DEF Accept, Disconnected, SeeDropped, Exit
<1>13. HandleVersionRequest \/ HandleSslHandshake \/ HandleAuthComplete \/ HandlePingRequest
       \/ HandleServiceDiscoveryResponse \/ SetUpChannel \/ HandleChannelOpenResponse
          => UNCHANGED <<packet, inbox>>
  BY DEF HandleVersionRequest, HandleSslHandshake, HandleAuthComplete, HandlePingRequest,
     HandleServiceDiscoveryResponse, SetUpChannel, HandleChannelOpenResponse
<1>14. Begin \/ React \/ Ping \/ PumpFails \/ UNCHANGED vars => UNCHANGED <<packet, inbox>>
  BY DEF Begin, React, Ping, PumpFails, vars
<1>15. UNCHANGED <<packet, inbox>> => Questions'
  BY <1>1 DEF Questions
<1>. QED BY <1>4, <1>5, <1>6, <1>7, <1>8, <1>9, <1>10, <1>11, <1>12, <1>13, <1>14, <1>15
         DEF Next, Ep2, ServerThread, Program

\* Every step keeps it that the sensor channel is used complete.
LEMMA SensorStep ==
    ASSUME IInv, [Next]_vars
    PROVE  SensorReady'
<1>. USE DEF wireVars, discoveryVars, programVars, serverVars, Incoming, Say, SendMessage
<1>1. /\ fromHeadunit \in Seq(Said) /\ toHeadunit \in Seq(Outgoing)
      /\ handler \in [Channels -> {"null", "numbered", "made", "wired"}]
      /\ SensorReady /\ Discovery
      /\ handler["sensor"] = "wired" => handler'["sensor"] = "wired"
  BY DiscoveryStep DEF IInv, Types, SessionTypeOK, Outgoing, Channels, Offered
<1>2. /\ \A m \in Said : Elements(Append(fromHeadunit, m)) = Elements(fromHeadunit) \union {m}
      /\ \A m \in Outgoing : Elements(Append(toHeadunit, m)) = Elements(toHeadunit) \union {m}
      /\ fromHeadunit # <<>> => Elements(Tail(fromHeadunit)) \subseteq Elements(fromHeadunit)
      /\ toHeadunit # <<>> => /\ toHeadunit[1] \in Elements(toHeadunit)
                              /\ Elements(Tail(toHeadunit)) \subseteq Elements(toHeadunit)
  BY <1>1, Appended, Taken
\* A step by which neither queue gets a message of the sensor channel.
<1>3. ASSUME \/ UNCHANGED fromHeadunit
             \/ \E m \in Said \ {"SensorData"} : fromHeadunit' = Append(fromHeadunit, m)
             \/ fromHeadunit # <<>> /\ fromHeadunit' = Tail(fromHeadunit),
             \/ UNCHANGED toHeadunit
             \/ \E m \in Outgoing \ {"SensorRequest"} : toHeadunit' = Append(toHeadunit, m)
             \/ toHeadunit # <<>> /\ toHeadunit' = Tail(toHeadunit)
      PROVE  SensorReady'
  <2>1. "SensorData" \in Elements(fromHeadunit') => "SensorData" \in Elements(fromHeadunit)
    <3>1. ASSUME NEW m \in Said \ {"SensorData"}, fromHeadunit' = Append(fromHeadunit, m)
          PROVE  "SensorData" \in Elements(fromHeadunit') => "SensorData" \in Elements(fromHeadunit)
      BY <1>2, <3>1
    <3>2. CASE UNCHANGED fromHeadunit
      BY <3>2
    <3>3. CASE fromHeadunit # <<>> /\ fromHeadunit' = Tail(fromHeadunit)
      BY <1>2, <3>3
    <3>. QED BY <1>3, <3>1, <3>2, <3>3
  <2>2. "SensorRequest" \in Elements(toHeadunit') => "SensorRequest" \in Elements(toHeadunit)
    <3>1. ASSUME NEW m \in Outgoing \ {"SensorRequest"}, toHeadunit' = Append(toHeadunit, m)
          PROVE  "SensorRequest" \in Elements(toHeadunit') => "SensorRequest" \in Elements(toHeadunit)
      BY <1>2, <3>1
    <3>2. CASE UNCHANGED toHeadunit
      BY <3>2
    <3>3. CASE toHeadunit # <<>> /\ toHeadunit' = Tail(toHeadunit)
      BY <1>2, <3>3
    <3>. QED BY <1>3, <3>1, <3>2, <3>3
  <2>. QED BY <1>1, <2>1, <2>2 DEF SensorReady
<1>4. Begin \/ Ping => SensorReady'
  BY <1>3 DEF Begin, Ping, Said
<1>5. React => SensorReady'
  <2>. SUFFICES ASSUME React PROVE SensorReady'
    OBVIOUS
  <2>1. CASE toHeadunit[1] = "SensorRequest"
    <3>1. handler'["sensor"] = "wired"
      BY <1>1, <1>2, <2>1 DEF React, SensorReady
    <3>. QED BY <3>1 DEF SensorReady
  <2>2. CASE toHeadunit[1] # "SensorRequest"
    BY <1>3, <2>2 DEF React, Said, Broadcasts
  <2>. QED BY <2>1, <2>2
<1>6. HandleVersionRequest \/ HandleSslHandshake => SensorReady'
  <2>1. {"VersionResponse", "SslHandshake"} \subseteq Outgoing \ {"SensorRequest"}
    BY DEF Outgoing, PlainTypes
  <2>. QED BY <1>3, <2>1 DEF HandleVersionRequest, HandleSslHandshake
<1>7. HandleAuthComplete \/ HandlePingRequest => SensorReady'
  <2>1. {"ServiceDiscoveryRequest", "PingResponse"} \subseteq Outgoing \ {"SensorRequest"}
    BY DEF Outgoing, EncryptedTypes
  <2>. QED BY <1>3, <2>1 DEF HandleAuthComplete, HandlePingRequest
<1>8. HandleServiceDiscoveryResponse \/ SetUpChannel \/ HandleChannelMessage \/ HandleChannelOpenResponse
         => SensorReady'
  BY <1>3 DEF HandleServiceDiscoveryResponse, SetUpChannel, HandleChannelMessage, HandleChannelOpenResponse
<1>9. PumpFails \/ UNCHANGED vars => SensorReady'
  BY <1>3 DEF PumpFails, vars
<1>10. ASSUME NEW c \in Clients, RawData(c)
       PROVE  SensorReady'
  <2>1. CASE UNCHANGED toHeadunit
    BY <1>3, <1>10, <2>1 DEF RawData, ServerReads
  <2>2. CASE ~UNCHANGED toHeadunit
    <3>1. /\ toHeadunit' = Append(toHeadunit, Request(c, packet[c])) /\ UNCHANGED fromHeadunit
          /\ packet[c] \in Channels /\ handler[packet[c]] = "wired"
      BY <1>1, <1>10, <2>2 DEF RawData, ServerReads, Refused
    <3>2. packet[c] # Unknown
      BY <1>1, <3>1 DEF Discovery
    <3>3. Request(c, packet[c]) \in Outgoing
      BY DEF Request, Outgoing, EncryptedTypes
    <3>4. Request(c, packet[c]) = "SensorRequest" => packet[c] = "sensor"
      BY <3>1, <3>2 DEF Request, Empty, Channels, Offered
    <3>. QED BY <1>1, <1>2, <1>3, <3>1, <3>3, <3>4 DEF SensorReady
  <2>. QED BY <2>1, <2>2
<1>11. ASSUME NEW c \in Clients, ~RawData(c), ServerThread(c) \/ Program(c) \/ Forward(c) \/ Exit(c)
       PROVE  SensorReady'
  <2>1. UNCHANGED wireVars
    BY <1>11 DEF ServerThread, Program, Accept, GetServiceDescriptor, GetChannelNumberByChannelType,
       ServerReads, Disconnected, Start, TakeAnswer, Read, SeeDropped, Forward, Exit
  <2>. QED BY <1>3, <2>1
<1>. QED BY <1>4, <1>5, <1>6, <1>7, <1>8, <1>9, <1>10, <1>11 DEF Next, Ep2

\* Every step keeps the sockets within what the process may have.
LEMMA SocketsStep ==
    ASSUME IInv, [Next]_vars
    PROVE  Sockets'
<1>. USE DEF wireVars, discoveryVars, programVars, serverVars
<1>1. /\ thread \in [Clients -> {"none", "serving", "opening", "dropped"}] /\ leaked \in Nat /\ Descriptors \in Nat
      /\ IsFiniteSet(Open) /\ Cardinality(Open) + leaked <= Descriptors /\ Cardinality(Open) \in Nat
  BY SessionBounds, FS_CardinalityType DEF IInv, Types, SessionTypeOK, Sockets
<1>2. \A c : /\ IsFiniteSet(Open \union {c}) /\ Cardinality(Open \union {c}) \in Nat
             /\ Cardinality(Open \union {c}) <= Cardinality(Open) + 1
  <2>. TAKE c
  <2>1. /\ IsFiniteSet(Open \union {c})
        /\ Cardinality(Open \union {c}) = IF c \in Open THEN Cardinality(Open) ELSE Cardinality(Open) + 1
    BY <1>1, FS_AddElement
  <2>. QED BY <1>1, <2>1
<1>3. \A c : /\ IsFiniteSet(Open \ {c}) /\ Cardinality(Open \ {c}) \in Nat
             /\ Cardinality(Open \ {c}) <= Cardinality(Open)
             /\ c \in Open => Cardinality(Open \ {c}) = Cardinality(Open) - 1
  <2>. TAKE c
  <2>1. /\ IsFiniteSet(Open \ {c})
        /\ Cardinality(Open \ {c}) = IF c \in Open THEN Cardinality(Open) - 1 ELSE Cardinality(Open)
    BY <1>1, FS_RemoveElement
  <2>2. Cardinality(Open \ {c}) \in Nat
    BY <2>1, FS_CardinalityType
  <2>. QED BY <1>1, <2>1, <2>2
<1>4. Open' = Open /\ UNCHANGED leaked => Sockets'
  BY <1>1 DEF Sockets
<1>5. ASSUME NEW c \in Clients, Accept(c)
      PROVE  Sockets'
  <2>1. Open' = Open \union {c}
    BY <1>1, <1>5 DEF Accept, Open
  <2>2. UNCHANGED leaked /\ Cardinality(Open) + leaked < Descriptors
    BY <1>1, <1>5 DEF Accept, Exhausted
  <2>3. /\ IsFiniteSet(Open \union {c}) /\ Cardinality(Open \union {c}) \in Nat
        /\ Cardinality(Open \union {c}) <= Cardinality(Open) + 1
    BY <1>2
  <2>4. Cardinality(Open \union {c}) + leaked <= Descriptors
    BY <1>1, <2>2, <2>3
  <2>. QED BY <2>1, <2>2, <2>3, <2>4 DEF Sockets
<1>6. ASSUME NEW c \in Clients, RawData(c)
      PROVE  Sockets'
  <2>1. UNCHANGED leaked /\ (Open' = Open \/ Open' = Open \ {c})
    <3>1. thread[c] = "serving" /\ UNCHANGED leaked
      BY <1>6 DEF RawData, ServerReads
    <3>2. PICK place \in {"dropped", "opening", "serving"} : thread' = [thread EXCEPT ![c] = place]
      BY <1>6, <3>1 DEF RawData
    <3>3. place = "dropped" => Open' = Open \ {c}
      BY <1>1, <3>2 DEF Open
    <3>4. place # "dropped" => Open' = Open
      BY <1>1, <3>1, <3>2 DEF Open
    <3>. QED BY <3>1, <3>3, <3>4
  <2>2. /\ IsFiniteSet(Open \ {c}) /\ Cardinality(Open \ {c}) \in Nat
        /\ Cardinality(Open \ {c}) <= Cardinality(Open)
    BY <1>3
  <2>3. Cardinality(Open \ {c}) + leaked <= Descriptors
    BY <1>1, <2>2
  <2>4. Open' = Open \ {c} => Sockets'
    BY <2>1, <2>2, <2>3 DEF Sockets
  <2>. QED BY <1>4, <2>1, <2>4
<1>7. ASSUME NEW c \in Clients, Disconnected(c)
      PROVE  Sockets'
  <2>1. c \in Open /\ Open' = Open \ {c}
    BY <1>1, <1>7 DEF Disconnected, Open
  <2>. QED BY <1>1, <1>3, <1>7, <2>1 DEF Disconnected, Sockets
<1>8. ASSUME NEW c \in Clients, SeeDropped(c)
      PROVE  Sockets'
  BY <1>1, <1>4, <1>8 DEF SeeDropped, Open
<1>9. ASSUME NEW c \in Clients, GetServiceDescriptor(c) \/ GetChannelNumberByChannelType(c) \/ Start(c)
                                 \/ TakeAnswer(c) \/ Read(c) \/ Forward(c) \/ Exit(c)
      PROVE  UNCHANGED <<thread, leaked>>
  BY <1>9 DEF GetServiceDescriptor, GetChannelNumberByChannelType, Start, TakeAnswer, Read, Forward, Exit
<1>10. HandleChannelOpenResponse => Sockets'
  BY <1>1, <1>4 DEF HandleChannelOpenResponse, Incoming, Open
<1>11. HandleVersionRequest \/ HandleSslHandshake \/ HandleAuthComplete \/ HandlePingRequest
       \/ HandleServiceDiscoveryResponse \/ SetUpChannel \/ HandleChannelMessage
          => UNCHANGED <<thread, leaked>>
  BY DEF HandleVersionRequest, HandleSslHandshake, HandleAuthComplete, HandlePingRequest,
     HandleServiceDiscoveryResponse, SetUpChannel, HandleChannelMessage, Incoming
<1>12. Begin \/ React \/ Ping \/ PumpFails \/ UNCHANGED vars => UNCHANGED <<thread, leaked>>
  BY DEF Begin, React, Ping, PumpFails, vars
<1>13. UNCHANGED <<thread, leaked>> => Sockets'
  BY <1>4 DEF Open
<1>. QED BY <1>5, <1>6, <1>7, <1>8, <1>9, <1>10, <1>11, <1>12, <1>13 DEF Next, Ep2, ServerThread, Program

-----------------------------------------------------------------------------
(* The theorems.                                                           *)

\* The inductive invariant.
THEOREM SessionInvariant == Spec => []IInv
<1>1. Init => IInv
  <2>. SUFFICES ASSUME Init PROVE IInv
    OBVIOUS
  <2>1. Elements(<<>>) = {} /\ AtMostOne(<<>>, OurTurn) /\ AtMostOne(<<>>, ItsTurn)
    BY DEF Elements, AtMostOne
  <2>2. Types
    BY SessionBounds DEF Init, Types, SessionTypeOK, Clients, Offered, Unknown, Channels, Empty, Description,
       Answers
  <2>3. TakingTurns /\ Handshake /\ SensorReady
    BY <2>1 DEF Init, TakingTurns, NobodysTurn, Handshake, SensorReady
  <2>4. EvidenceHolds
    BY <2>1 DEF Init, EvidenceHolds, Evidence, Empty, Description, Channels, Offered, Unknown
  <2>5. Discovery
    BY DEF Init, Discovery, Channels, Offered, Unknown
  <2>6. Questions
    BY <2>1 DEF Init, Questions
  <2>7. Open = {} /\ leaked = 0
    BY DEF Init, Open
  <2>8. Sockets
    BY <2>7, FS_EmptySet, SessionBounds DEF Sockets
  <2>. QED BY <2>2, <2>3, <2>4, <2>5, <2>6, <2>8 DEF IInv
<1>2. IInv /\ [Next]_vars => IInv'
  BY TypeStep, TurnsStep, EvidenceStep, DiscoveryStep, QuestionsStep, SensorStep, SocketsStep DEF IInv
<1>. QED BY <1>1, <1>2, PTL DEF Spec

\* The types of all variables: the TLS session is made of two flights and no
\* more, and no more sockets are leaked than the process may have.
THEOREM SessionTypeCorrect == Spec => []SessionTypeOK
<1>1. IInv => SessionTypeOK
  BY DEF IInv, Types
<1>. QED BY <1>1, SessionInvariant, PTL

\* Nothing is queued for encryption before the TLS session stands, whatever the
\* clients do and however many they are.
THEOREM NothingEarly == Spec => []NothingEncryptedEarly
<1>1. IInv => NothingEncryptedEarly
  BY DEF IInv, EvidenceHolds, Evidence, Elements, NothingEncryptedEarly
<1>. QED BY <1>1, SessionInvariant, PTL

\* The head unit's data for a channel meet the channel's handler complete.
THEOREM HandlerThere == Spec => []HandlerWaits
<1>1. IInv => HandlerWaits
  BY DEF IInv, SensorReady, Elements, HandlerWaits
<1>. QED BY <1>1, SessionInvariant, PTL
=============================================================================
