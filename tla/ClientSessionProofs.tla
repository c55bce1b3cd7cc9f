------------------------- MODULE ClientSessionProofs -------------------------
(***************************************************************************)
(* Proofs about ClientSession, for any order in which the phone opens its  *)
(* channels and any bounds: its types, that the server's messages pass in  *)
(* order, and that a handler or a session is missed only by a message that *)
(* came early.                                                             *)
(***************************************************************************)
EXTENDS ClientSession, Integers, FiniteSetTheorems, FunctionTheorems, SequenceTheorems, TLAPS

-----------------------------------------------------------------------------
(* The inductive invariant.                                                *)

Elements(q) == {q[i] : i \in 1..Len(q)}

\* The messages AAClient sends, and those of the phone.
ClientTypes == PlainTypes \union {"ServiceDiscoveryResponse", "ChannelOpenResponse", "SetupResponse",
    "VideoFocusIndication", "MediaAckIndication", "HandshakeResponse", "Relayed", "ToServer"}
PhoneTypes == ForwardedTypes \union Packets \union {"VersionResponse", "SslHandshake",
    "ServiceDiscoveryRequest", "ChannelOpenRequest", "SetupRequest", "StartIndication", "HandshakeRequest"}
ClientMsg ==
    {m \in [ch : Channels, type : ClientTypes, nr : Nat] :
        /\ m.type # "Relayed" => m.nr = 0
        /\ m.type \in PlainTypes \union {"ServiceDiscoveryResponse"} => m.ch = "control"}
PhoneMsg ==
    {m \in [ch : Channels, type : PhoneTypes, nr : {0}] :
        /\ m.type = "ServiceDiscoveryRequest" => m.ch = "control"
        /\ m.type \in Packets => m.ch = "video"}
Opened == {m \in ClientMsg : m.type \in {"ChannelOpenResponse", "SetupResponse", "VideoFocusIndication",
    "MediaAckIndication", "HandshakeResponse"}}
Replies == {m \in ClientMsg : m \in Opened \/ m.type = "ToServer"}
ServerMsg == {m \in ClientMsg : m.type = "Relayed"}
Arrival == [msg : ClientMsg, again : BOOLEAN]

Types ==
    /\ phone \in {"up", "failed"} /\ took \subseteq ClientMsg
    /\ opened \in 0..Len(Opening) /\ media \in Nat /\ acks \in Nat
    /\ stage \in {"start", "version", "handshake", "auth", "serve", "discover"}
    /\ flights \in 0..2 /\ todo \subseteq Offered /\ source \in BOOLEAN
    /\ handlers \in [Channels -> {"none", "made", "answers", "wired"}] /\ handlers["control"] = "wired"
    /\ sendQueue \in Seq(ClientMsg) /\ inHand \in Seq(ClientMsg) /\ Len(inHand) <= 1
    /\ wire \in Seq(Arrival) /\ sends \in Seq(Replies)
    /\ fromPhone \in Seq(PhoneMsg) /\ toServer \in Seq(ClientMsg)
    /\ fromServer \in Seq(ServerMsg) /\ answered \in 0..Len(toServer)
    /\ faults \in 0..MaxFaults /\ arrived \in BOOLEAN /\ repeated \in BOOLEAN
    /\ passed \in Seq(Nat) /\ lost \subseteq Nat /\ said \in Nat
    /\ ended \in {"no", "refused", "silent", "protocol", "pipeline", "null", "server", "tls", "write"}

\* Without a TLS session there are only plain messages, but for the server's.
Plain == {m \in ClientMsg : m.type \in PlainTypes}
BeforeTLS ==
    ~Established => /\ stage \in {"start", "version", "handshake"}
                    /\ ~early => Elements(sendQueue) \subseteq Plain
Prelude == {"start", "version", "handshake", "auth"}
BeforeServing ==
    stage \in Prelude => sends = <<>> /\ (stage # "auth" => flights < 2)

\* What is under way to the phone.
Msgs(w) == {w[i].msg : i \in 1..Len(w)}
OnWire == Msgs(wire)
Pending == OnWire \union Elements(inHand) \union Elements(sendQueue)

\* Authentication, the phone's question for it, and the answer.
Auth == Control("AuthComplete")
Question == Control("ServiceDiscoveryRequest")
Answer == Control("ServiceDiscoveryResponse")

\* The phone opens channels only when it has the answer, and what AAClient says of
\* them, or the phone, comes behind it; so all handlers have been made by then.
OfChannels == {m \in PhoneMsg : m.ch # "control" \/ m.type \in ForwardedTypes}
Discovered ==
    \/ (Pending \union took) \intersect Opened # {}
    \/ Elements(fromPhone) \intersect OfChannels # {}
    \/ sends # <<>> \/ source \/ media > 0
AllMade == \A ch \in Channels : handlers[ch] # "none"
Discovery ==
    /\ Discovered => Answer \in took
    /\ Answer \in Pending \union took => AllMade
    /\ stage = "discover" => \A ch \in Channels \ todo : handlers[ch] # "none"

\* Authentication is said once, though a retry may repeat it, and behind it comes
\* the answer to each question.
AuthOnce ==
    /\ \A i, j \in 1..Len(sendQueue) : sendQueue[i] = Auth /\ sendQueue[j] = Auth => i = j
    /\ stage \in Prelude \/ Auth \in Elements(sendQueue) =>
          /\ stage # "discover"
          /\ Auth \notin OnWire \union Elements(inHand) \union took
          /\ Answer \notin Pending \union took
          /\ Question \notin Elements(fromPhone)
    /\ stage \in Prelude => Auth \notin Elements(sendQueue)
InTurn(w) == \A i, j \in 1..Len(w) : i < j /\ w[i].msg = Answer => w[j].msg # Auth
AuthFirst ==
    /\ Auth \in Elements(inHand) => Answer \notin OnWire \union took
    /\ Auth \in OnWire => Answer \notin took
    /\ InTurn(wire)

\* The video pipeline is made by the first packet, and no question comes behind it.
First == Msg("video", "MediaIndication")
Later == Msg("video", "MediaWithTimestamp")
NoQuestionBehind(q) == \A i, j \in 1..Len(q) : i < j /\ q[i] = First => q[j] # Question
Timed(q, made) == \A j \in 1..Len(q) : q[j] = Later => made \/ \E i \in 1..Len(q) : i < j /\ q[i] = First
Streaming ==
    /\ source => stage = "serve" /\ Question \notin Elements(fromPhone)
    /\ media > 0 /\ ~source => First \in Elements(fromPhone)
    /\ NoQuestionBehind(fromPhone)
    /\ Timed(fromPhone, source)

\* The server's messages, from those that have reached the phone to those that
\* the relay has not read: those in between, in order, none left out.
Relayed == said - Len(fromServer)
Numbered(q, base) == \A i \in 1..Len(q) : q[i].nr = base + i
Rising(q) == \A i, j \in 1..Len(q) : i < j /\ q[i].nr > 0 /\ q[j].nr > 0 => q[i].nr < q[j].nr
Increasing(p) == \A i, j \in 1..Len(p) : i < j => p[i] < p[j]
Placed(r, queued, held, done, twice, dropped) ==
    /\ \A m \in queued \union held : m.nr <= r
    /\ \A m \in queued : m.nr > 0 => (\A n \in done : n < m.nr) /\ (\A h \in held : h.nr < m.nr)
    /\ \A m \in held : m.nr > 0 => IF twice THEN m.nr \in done ELSE \A n \in done : n < m.nr
    /\ \A n \in done \union dropped : n \in 1..r
    /\ \A n \in 1..r : n \in done \union dropped \/ \E m \in queued \union held : m.nr = n
InOrder ==
    /\ Len(fromServer) <= said /\ Numbered(fromServer, Relayed)
    /\ Rising(sendQueue) /\ Increasing(passed)
    /\ Placed(Relayed, Elements(sendQueue), Elements(inHand), Elements(passed), arrived, lost)
    /\ lost # {} => early

\* Every acknowledgement under way, and every packet, is of a packet of its own.
Count(q, T) == Cardinality({i \in 1..Len(q) : q[i] \in T})
Ack == {m \in ClientMsg : m.type = "MediaAckIndication"}
Packet == {m \in PhoneMsg : m.type \in Packets}
NewAck == {a \in Arrival : a.msg \in Ack /\ ~a.again}
InHand == IF arrived THEN 0 ELSE Count(inHand, Ack)
Counted ==
    acks + Count(wire, NewAck) + InHand + Count(sendQueue, Ack) + Count(sends, Ack) + Count(fromPhone, Packet)
        <= media

\* As long as the program runs; and what is still true when it has ended.
Alive == BeforeTLS /\ BeforeServing /\ Discovery /\ AuthOnce /\ AuthFirst /\ Streaming
         /\ (inHand = <<>> => ~arrived) /\ InOrder /\ Counted
Bounds == acks <= media /\ \A n \in Elements(passed) \union lost : n \in 1..said
Promises == Bounds /\ CrashesOnlyEarly /\ RelayedInOrder
IInv == Types /\ IF Running THEN Alive ELSE Promises

-----------------------------------------------------------------------------
(* Queues.                                                                 *)

\* A message more.
LEMMA Appended ==
    ASSUME NEW S, NEW q \in Seq(S), NEW e \in S
    PROVE  /\ Append(q, e) \in Seq(S) /\ Len(q) \in Nat /\ Len(Append(q, e)) = Len(q) + 1
           /\ Elements(Append(q, e)) = Elements(q) \union {e}
           /\ \A i \in 1..Len(q) : Append(q, e)[i] = q[i] /\ i \in 1..Len(q) + 1
           /\ Append(q, e)[Len(q) + 1] = e
           /\ \A i \in 1..Len(q) + 1 : i \in 1..Len(q) \/ i = Len(q) + 1
<1>1. /\ Append(q, e) \in Seq(S) /\ Len(Append(q, e)) = Len(q) + 1
      /\ \A i \in 1..Len(q) : Append(q, e)[i] = q[i]
      /\ Append(q, e)[Len(q) + 1] = e /\ Len(q) \in Nat
  OBVIOUS
<1>2. \A i \in 1..Len(q) + 1 : i \in 1..Len(q) \/ i = Len(q) + 1
  BY <1>1
<1>3. 1..Len(q) \subseteq 1..Len(q) + 1 /\ Len(q) + 1 \in 1..Len(q) + 1
  BY <1>1
<1>. QED BY <1>1, <1>2, <1>3 DEF Elements

\* The first message taken.
LEMMA Taken ==
    ASSUME NEW S, NEW q \in Seq(S), q # <<>>
    PROVE  /\ Tail(q) \in Seq(S) /\ q[1] \in S /\ 1 \in 1..Len(q)
           /\ Len(q) \in Nat /\ Len(Tail(q)) \in Nat /\ Len(Tail(q)) = Len(q) - 1
           /\ Elements(q) = {q[1]} \union Elements(Tail(q))
           /\ \A i \in 1..Len(Tail(q)) : Tail(q)[i] = q[i + 1] /\ i + 1 \in 1..Len(q) /\ 1 < i + 1
           /\ \A i, j \in 1..Len(Tail(q)) : i < j => i + 1 < j + 1
<1>1. /\ Tail(q) \in Seq(S) /\ Len(Tail(q)) = Len(q) - 1 /\ Len(q) \in Nat /\ Len(q) > 0
      /\ \A i \in 1..(Len(q) - 1) : Tail(q)[i] = q[i + 1]
  OBVIOUS
<1>2. \A i \in 1..Len(q) : i = 1 \/ (i - 1 \in 1..(Len(q) - 1) /\ (i - 1) + 1 = i)
  BY <1>1
<1>3. 1 \in 1..Len(q) /\ q[1] \in S
  BY <1>1
<1>4. \A i \in 1..(Len(q) - 1) : i + 1 \in 1..Len(q) /\ 1 < i + 1
  BY <1>1
<1>5. \A i, j \in 1..(Len(q) - 1) : i < j => i + 1 < j + 1
  BY <1>1
<1>6. Elements(q) = {q[1]} \union Elements(Tail(q))
  <2>1. Elements(q) \subseteq {q[1]} \union Elements(Tail(q))
    BY <1>1, <1>2 DEF Elements
  <2>2. {q[1]} \union Elements(Tail(q)) \subseteq Elements(q)
    BY <1>1, <1>3, <1>4 DEF Elements
  <2>. QED BY <2>1, <2>2
<1>. QED BY <1>1, <1>3, <1>4, <1>5, <1>6

\* What is in a queue.
LEMMA ElementsOf ==
    /\ Elements(<<>>) = {}
    /\ \A S : \A q \in Seq(S) : /\ Elements(q) \subseteq S
                                /\ q = <<>> <=> Elements(q) = {}
                                /\ \A i \in 1..Len(q) : q[i] \in Elements(q)
  BY DEF Elements

\* Counting what is in a queue.
LEMMA Counting ==
    ASSUME NEW S, NEW q \in Seq(S), NEW T
    PROVE  /\ IsFiniteSet({i \in 1..Len(q) : q[i] \in T}) /\ Count(q, T) \in Nat
           /\ Elements(q) \intersect T = {} => Count(q, T) = 0
<1>1. IsFiniteSet({i \in 1..Len(q) : q[i] \in T})
  <2>1. IsFiniteSet(1..Len(q))
    BY FS_Interval
  <2>. QED BY <2>1, FS_Subset
<1>2. Elements(q) \intersect T = {} => {i \in 1..Len(q) : q[i] \in T} = {}
  BY DEF Elements
<1>. QED BY <1>1, <1>2, FS_CardinalityType, FS_EmptySet DEF Count

\* A message more, counted.
LEMMA CountAppended ==
    ASSUME NEW S, NEW q \in Seq(S), NEW e \in S, NEW T
    PROVE  Count(Append(q, e), T) = Count(q, T) + (IF e \in T THEN 1 ELSE 0)
<1>. DEFINE P == {i \in 1..Len(q) : q[i] \in T}
            R == {i \in 1..Len(Append(q, e)) : Append(q, e)[i] \in T}
<1>1. IsFiniteSet(P) /\ Cardinality(P) \in Nat
  BY Counting DEF Count
<1>2. R = IF e \in T THEN P \union {Len(q) + 1} ELSE P
  BY Appended
<1>3. Len(q) + 1 \notin P
  BY Appended
<1>. HIDE DEF P, R
<1>4. Cardinality(R) = Cardinality(P) + (IF e \in T THEN 1 ELSE 0)
  <2>1. CASE e \in T
    BY <1>1, <1>2, <1>3, <2>1, FS_AddElement
  <2>2. CASE e \notin T
    BY <1>1, <1>2, <2>2
  <2>. QED BY <2>1, <2>2
<1>. QED BY <1>4 DEF P, R, Count

\* The first message taken, counted.
LEMMA CountTaken ==
    ASSUME NEW S, NEW q \in Seq(S), q # <<>>, NEW T
    PROVE  Count(q, T) = Count(Tail(q), T) + (IF q[1] \in T THEN 1 ELSE 0)
<1>. DEFINE P == {i \in 1..Len(q) : q[i] \in T}
            Q == P \ {1}
            R == {i \in 1..Len(Tail(q)) : Tail(q)[i] \in T}
            f == [i \in R |-> i + 1]
<1>1. IsFiniteSet(P) /\ Cardinality(P) \in Nat /\ IsFiniteSet(R) /\ Cardinality(R) \in Nat
  <2>1. Tail(q) \in Seq(S)
    BY Taken
  <2>2. IsFiniteSet(P) /\ IsFiniteSet(R)
    BY <2>1, Counting
  <2>. QED BY <2>2, FS_CardinalityType
<1>2. ExistsBijection(R, Q)
  <2>1. \A i \in R : i \in Int /\ i + 1 \in Q
    BY Taken
  <2>2. \A j \in Q : j - 1 \in R /\ (j - 1) + 1 = j
    <3>1. \A j \in 1..Len(q) : j # 1 => j - 1 \in 1..Len(Tail(q)) /\ (j - 1) + 1 = j
      BY Taken
    <3>. QED BY <3>1, Taken
  <2>3. \A i, j \in Int : i + 1 = j + 1 => i = j
    OBVIOUS
  <2>4. f \in [R -> Q]
    BY <2>1
  <2>5. \A i, j \in R : f[i] = f[j] => i = j
    BY <2>1, <2>3
  <2>6. \A j \in Q : \E i \in R : f[i] = j
    BY <2>2
  <2>. HIDE DEF P, Q, R, f
  <2>7. f \in Injection(R, Q)
    BY <2>4, <2>5, Fun_IsInj
  <2>8. f \in Surjection(R, Q)
    BY <2>4, <2>6, Fun_IsSurj
  <2>. QED BY <2>7, <2>8 DEF ExistsBijection, Bijection
<1>3. Cardinality(Q) = Cardinality(R)
  BY <1>1, <1>2, FS_Bijection
<1>4. Cardinality(Q) = IF 1 \in P THEN Cardinality(P) - 1 ELSE Cardinality(P)
  BY <1>1, FS_RemoveElement
<1>5. 1 \in P <=> q[1] \in T
  BY Taken
<1>. HIDE DEF P, Q, R
<1>6. Cardinality(P) = Cardinality(R) + (IF q[1] \in T THEN 1 ELSE 0)
  BY <1>1, <1>3, <1>4, <1>5
<1>. QED BY <1>6 DEF P, R, Count

-----------------------------------------------------------------------------
(* Messages.                                                               *)

\* What the named messages are, and are not.
LEMMA Messages ==
    /\ Auth \in ClientMsg /\ Answer \in ClientMsg /\ Question \in PhoneMsg
    /\ First \in PhoneMsg /\ Later \in PhoneMsg
    /\ Auth # Answer /\ Auth \notin Replies /\ Answer \notin Replies /\ Opened \subseteq Replies
    /\ Replies \subseteq ClientMsg
    /\ Question \notin OfChannels /\ First \in OfChannels /\ First # Question /\ First # Later
    /\ Auth \in Plain /\ Plain \subseteq ClientMsg
    /\ Ack \subseteq Opened /\ Auth \notin Ack /\ Answer \notin Ack
    /\ Answer \notin Opened /\ Auth \notin Opened /\ Question \notin Packet
    /\ Auth.nr = 0 /\ Answer.nr = 0
    /\ \A m \in Replies : m.nr = 0
    /\ \A m \in ClientMsg : /\ m.type = "AuthComplete" => m = Auth
                            /\ m.type = "ServiceDiscoveryResponse" => m = Answer
    /\ \A m \in PhoneMsg : /\ m.type = "ServiceDiscoveryRequest" <=> m = Question
                           /\ m.type = "MediaIndication" <=> m = First
                           /\ m.type = "MediaWithTimestamp" <=> m = Later
                           /\ m \in Packet <=> m = First \/ m = Later
  BY DEF Auth, Answer, Question, First, Later, ClientMsg, PhoneMsg, Replies, Opened, OfChannels, Plain, Ack, Packet,
         Packets, ClientTypes, PhoneTypes, PlainTypes, ForwardedTypes, Channels, Offered, Control, Msg

\* The message that asks for the video stream; and what the server says.
LEMMA Focus == Msg("video", "VideoFocusIndication") \in Opened
  BY DEF Opened, ClientMsg, Msg, Channels, Offered, ClientTypes, PlainTypes

LEMMA VersionAsked ==
    LET v == Control("VersionRequest")
    IN  v \in ClientMsg /\ v \in Plain /\ v # Auth /\ v # Answer /\ v \notin Opened /\ v.nr = 0 /\ v \notin Ack
  BY DEF Control, Msg, Plain, ClientMsg, Channels, Offered, ClientTypes, PlainTypes, Auth, Answer, Opened, Ack

\* What the server says is none of the others.
LEMMA FromServer ==
    ASSUME NEW m \in ServerMsg
    PROVE  /\ m \in ClientMsg /\ m \notin Opened /\ m \notin Ack /\ m # Auth /\ m # Answer /\ m.nr \in Nat
  BY DEF ServerMsg, ClientMsg, Opened, Ack, Auth, Answer, Control, Msg

\* The phone's reactions.
LEMMA Reactions ==
    ASSUME NEW m \in ClientMsg
    PROVE  \/ Reaction(m) = <<>>
           \/ \E x \in PhoneMsg : /\ Reaction(m) = <<x>> /\ x # First /\ x # Later /\ x \notin Packet
                                  /\ x \in OfChannels => m \in Opened
                                  /\ x = Question => m = Auth
<1>. USE DEF ClientMsg, PhoneMsg, Msg, Control, PhoneTypes, PlainTypes, Channels, Offered, Packets, ForwardedTypes,
             First, Later, Question, OfChannels, Packet
<1>1. CASE m.type = "VersionRequest"
  <2>1. Reaction(m) = <<Control("VersionResponse")>> /\ Control("VersionResponse") \in PhoneMsg
    BY <1>1 DEF Reaction
  <2>. QED BY <2>1
<1>2. CASE m.type = "SslHandshake"
  <2>1. Reaction(m) = <<Control("SslHandshake")>> /\ Control("SslHandshake") \in PhoneMsg
    BY <1>2 DEF Reaction
  <2>. QED BY <2>1
<1>3. CASE m.type = "AuthComplete"
  <2>1. Reaction(m) = <<Question>> /\ Question \in PhoneMsg /\ m = Auth
    BY <1>3, Messages DEF Reaction
  <2>. QED BY <2>1
<1>4. CASE m.type = "ChannelOpenResponse" /\ m.ch = "video"
  <2>1. Reaction(m) = <<Msg("video", "SetupRequest")>> /\ Msg("video", "SetupRequest") \in PhoneMsg /\ m \in Opened
    BY <1>4 DEF Reaction, Opened
  <2>. QED BY <2>1
<1>5. CASE m.type = "VideoFocusIndication"
  <2>1. Reaction(m) = <<Msg("video", "StartIndication")>> /\ Msg("video", "StartIndication") \in PhoneMsg
        /\ m \in Opened
    BY <1>5 DEF Reaction, Opened
  <2>. QED BY <2>1
<1>6. CASE m.type = "ChannelOpenResponse" /\ m.ch = "input"
  <2>1. Reaction(m) = <<Msg("input", "HandshakeRequest")>> /\ Msg("input", "HandshakeRequest") \in PhoneMsg
        /\ m \in Opened
    BY <1>6 DEF Reaction, Opened
  <2>. QED BY <2>1
<1>7. CASE /\ m.type \notin {"VersionRequest", "SslHandshake", "AuthComplete", "VideoFocusIndication"}
           /\ ~(m.type = "ChannelOpenResponse" /\ m.ch \in {"video", "input"})
  BY <1>7 DEF Reaction
<1>. QED BY <1>1, <1>2, <1>3, <1>4, <1>5, <1>6, <1>7

\* The phone's queue after it has reacted: as it was, or with a message more.
LEMMA Reacted ==
    ASSUME NEW m \in ClientMsg, NEW q \in Seq(PhoneMsg)
    PROVE  /\ q \o Reaction(m) \in Seq(PhoneMsg)
           /\ \/ q \o Reaction(m) = q
              \/ \E x \in PhoneMsg : /\ q \o Reaction(m) = Append(q, x) /\ x # First /\ x # Later /\ x \notin Packet
                                     /\ x \in OfChannels => m \in Opened
                                     /\ x = Question => m = Auth
<1>1. \A x \in PhoneMsg : q \o <<x>> = Append(q, x) /\ Append(q, x) \in Seq(PhoneMsg)
  OBVIOUS
<1>2. q \o <<>> = q
  OBVIOUS
<1>. QED BY <1>1, <1>2, Reactions

\* What a handler of AAClient sends on a message: an acknowledgement on a packet only.
LEMMA AnswersAre ==
    ASSUME NEW m \in PhoneMsg
    PROVE  Answers(m) \in Seq(Replies) /\ Count(Answers(m), Ack) <= (IF m \in Packet THEN 1 ELSE 0)
<1>. USE DEF ClientMsg, PhoneMsg, Msg, Control, ClientTypes, PhoneTypes, PlainTypes, Channels, Offered, Packets,
             ForwardedTypes, Packet, Replies, Opened, Ack
<1>1. CASE m \in Packet
  <2>. DEFINE a == Msg("video", "MediaAckIndication")
              empty == <<>>
  <2>1. Answers(m) = Append(empty, a) /\ a \in Replies
    BY <1>1 DEF Answers
  <2>2. empty \in Seq(Replies) /\ Append(empty, a) \in Seq(Replies)
    BY <2>1
  <2>3. Count(empty, Ack) = 0
    <3>1. Elements(empty) \intersect Ack = {}
      BY ElementsOf
    <3>. QED BY <2>2, <3>1, Counting
  <2>. HIDE DEF a, empty, Replies, Ack
  <2>4. Count(Append(empty, a), Ack) = Count(empty, Ack) + (IF a \in Ack THEN 1 ELSE 0)
    BY <2>1, <2>2, CountAppended
  <2>5. IF a \in Ack THEN 1 = 1 ELSE 0 <= 1
    OBVIOUS
  <2>. QED BY <1>1, <2>1, <2>2, <2>3, <2>4, <2>5
<1>2. CASE m \notin Packet
  <2>1. \/ Answers(m) = <<>>
        \/ \E x \in Replies \ Ack : Answers(m) = <<x>>
        \/ \E x, y \in Replies \ Ack : Answers(m) = <<x, y>>
    <3>1. CASE m.ch = "video" /\ m.type = "ChannelOpenRequest"
      <4>1. Answers(m) = <<Msg("video", "ChannelOpenResponse")>> /\ Msg("video", "ChannelOpenResponse") \in Replies \ Ack
        BY <3>1 DEF Answers
      <4>. QED BY <4>1
    <3>2. CASE m.ch = "video" /\ m.type = "SetupRequest"
      <4>1. /\ Answers(m) = <<Msg("video", "SetupResponse"), Msg("video", "VideoFocusIndication")>>
            /\ Msg("video", "SetupResponse") \in Replies \ Ack /\ Msg("video", "VideoFocusIndication") \in Replies \ Ack
        BY <3>2 DEF Answers
      <4>. QED BY <4>1
    <3>3. CASE m.ch = "input" /\ m.type = "ChannelOpenRequest"
      <4>1. /\ Answers(m) = <<Msg("input", "ChannelOpenResponse"), Msg("input", "ToServer")>>
            /\ Msg("input", "ChannelOpenResponse") \in Replies \ Ack /\ Msg("input", "ToServer") \in Replies \ Ack
        BY <3>3 DEF Answers
      <4>. QED BY <4>1
    <3>4. CASE m.ch = "input" /\ m.type = "HandshakeRequest"
      <4>1. Answers(m) = <<Msg("input", "HandshakeResponse")>> /\ Msg("input", "HandshakeResponse") \in Replies \ Ack
        BY <3>4 DEF Answers
      <4>. QED BY <4>1
    <3>5. CASE m.ch \in {"sensor", "control"}
      <4>1. Answers(m) = <<Msg(m.ch, "ToServer")>> /\ Msg(m.ch, "ToServer") \in Replies \ Ack
        BY <1>2, <3>5 DEF Answers
      <4>. QED BY <4>1
    <3>6. CASE /\ m.ch \notin {"sensor", "control"}
               /\ ~(m.ch = "video" /\ m.type \in {"ChannelOpenRequest", "SetupRequest"})
               /\ ~(m.ch = "input" /\ m.type \in {"ChannelOpenRequest", "HandshakeRequest"})
      BY <1>2, <3>6 DEF Answers
    <3>. QED BY <3>1, <3>2, <3>3, <3>4, <3>5, <3>6
  <2>. HIDE DEF Replies, Ack
  <2>2. Answers(m) \in Seq(Replies)
    <3>1. ASSUME NEW x \in Replies \ Ack, NEW y \in Replies \ Ack
          PROVE  /\ Answers(m) = <<x, y>> => Answers(m) \in Seq(Replies)
                 /\ Answers(m) = <<x>> => Answers(m) \in Seq(Replies)
      <4>1. <<x, y>> \in Seq(Replies) /\ <<x>> \in Seq(Replies)
        OBVIOUS
      <4>. QED BY ONLY <4>1, Zenon
    <3>2. Answers(m) = <<>> => Answers(m) \in Seq(Replies)
      OBVIOUS
    <3>. QED BY ONLY <2>1, <3>1, <3>2, Zenon
  <2>3. \A i \in 1..Len(Answers(m)) : Answers(m)[i] \notin Ack
    <3>1. ASSUME NEW x \in Replies \ Ack, Answers(m) = <<x>>
          PROVE  \A i \in 1..Len(Answers(m)) : Answers(m)[i] \notin Ack
      BY <3>1
    <3>2. ASSUME NEW x \in Replies \ Ack, NEW y \in Replies \ Ack, Answers(m) = <<x, y>>
          PROVE  \A i \in 1..Len(Answers(m)) : Answers(m)[i] \notin Ack
      <4>1. Answers(m)[1] = x /\ Answers(m)[2] = y /\ Len(Answers(m)) = 2
        BY <3>2
      <4>2. \A i \in 1..2 : i = 1 \/ i = 2
        OBVIOUS
      <4>. QED BY <4>1, <4>2
    <3>3. Answers(m) = <<>> => \A i \in 1..Len(Answers(m)) : Answers(m)[i] \notin Ack
      OBVIOUS
    <3>. QED BY <2>1, <3>1, <3>2, <3>3
  <2>4. Elements(Answers(m)) \intersect Ack = {}
    BY <2>3 DEF Elements
  <2>5. Count(Answers(m), Ack) = 0
    BY <2>2, <2>4, Counting
  <2>. QED BY <1>2, <2>2, <2>5
<1>. QED BY <1>1, <1>2

-----------------------------------------------------------------------------
(* Types.                                                                  *)

\* What the phone keeps of a message.
LEMMA Kept ==
    ASSUME NEW m \in ClientMsg
    PROVE  LET t == Msg(m.ch, m.type) IN
           /\ t \in ClientMsg /\ (t \in Opened => m \in Opened)
           /\ t = Auth => m = Auth
           /\ t = Answer => m = Answer
  BY Messages DEF ClientMsg, Opened, Msg, Auth, Answer, Control, Channels, Offered, ClientTypes, PlainTypes

\* The initial state has its types.
LEMMA InitTypes == Init => Types
<1>. SUFFICES ASSUME Init PROVE Types
  OBVIOUS
<1>1. Control("VersionRequest") \in ClientMsg
  BY DEF Control, Msg, ClientMsg, Channels, Offered, ClientTypes, PlainTypes
<1>2. /\ sendQueue \in Seq(ClientMsg) /\ inHand \in Seq(ClientMsg) /\ Len(inHand) <= 1
      /\ wire \in Seq(Arrival) /\ sends \in Seq(Replies)
      /\ fromPhone \in Seq(PhoneMsg) /\ toServer \in Seq(ClientMsg)
      /\ fromServer \in Seq(ServerMsg) /\ answered \in 0..Len(toServer)
      /\ passed \in Seq(Nat)
  BY <1>1 DEF Init
<1>3. handlers \in [Channels -> {"none", "made", "answers", "wired"}] /\ handlers["control"] = "wired"
  BY DEF Init, Channels, Offered
<1>4. 0 \in 0..Len(Opening) /\ 0 \in 0..MaxFaults
  BY OpeningAssumption, ClientBounds
<1>5. /\ phone \in {"up", "failed"} /\ took \subseteq ClientMsg
      /\ opened \in 0..Len(Opening) /\ media \in Nat /\ acks \in Nat
  BY <1>4 DEF Init
<1>6. /\ stage \in {"start", "version", "handshake", "auth", "serve", "discover"}
      /\ flights \in 0..2 /\ todo \subseteq Offered /\ source \in BOOLEAN
      /\ faults \in 0..MaxFaults /\ arrived \in BOOLEAN /\ repeated \in BOOLEAN
      /\ lost \subseteq Nat /\ said \in Nat
  <2>1. /\ stage = "start" /\ flights = 0 /\ todo = {} /\ source = FALSE /\ faults = 0
        /\ arrived = FALSE /\ repeated = FALSE /\ lost = {} /\ said = 0
    BY DEF Init
  <2>2. source \in BOOLEAN /\ arrived \in BOOLEAN /\ repeated \in BOOLEAN
    BY <2>1, Zenon
  <2>. QED BY <1>4, <2>1, <2>2
<1>7. ended \in {"no", "refused", "silent", "protocol", "pipeline", "null", "server", "tls", "write"}
  BY DEF Init
<1>. QED BY ONLY <1>2, <1>3, <1>5, <1>6, <1>7, Zenon DEF Types

\* The phone's steps keep the types.
LEMMA TypesPhone == Types /\ Phone => Types'
<1>. SUFFICES ASSUME Types, Phone PROVE Types'
  OBVIOUS
<1>. USE DEF Types
<1>1. CASE PhoneTakes
  <2>1. wire' = Tail(wire) /\ wire # <<>> /\ wire' \in Seq(Arrival) /\ wire[1] \in Arrival
    BY <1>1, Taken DEF PhoneTakes
  <2>. DEFINE m == wire[1].msg
  <2>2. m \in ClientMsg /\ Msg(m.ch, m.type) \in ClientMsg
    BY <2>1, Kept DEF Arrival
  <2>3. fromPhone \o Reaction(m) \in Seq(PhoneMsg)
    <3>. HIDE DEF m
    <3>. QED BY <2>2, Reacted
  <2>4. \/ phone' = "failed" /\ took' = took /\ acks' = acks /\ fromPhone' = fromPhone
        \/ /\ phone' = phone /\ took' = took \union {Msg(m.ch, m.type)} /\ acks' \in {acks, acks + 1}
           /\ fromPhone' = fromPhone \o Reaction(m)
    BY <1>1 DEF PhoneTakes
  <2>5. fromPhone' \in Seq(PhoneMsg) /\ took' \subseteq ClientMsg /\ acks' \in Nat /\ phone' \in {"up", "failed"}
    <3>. HIDE DEF m, Types
    <3>1. /\ fromPhone \in Seq(PhoneMsg) /\ took \subseteq ClientMsg /\ acks \in Nat
          /\ phone \in {"up", "failed"}
      BY DEF Types
    <3>2. acks' \in Nat
      BY <2>4, <3>1
    <3>. QED BY <2>2, <2>3, <2>4, <3>1, <3>2
  <2>. QED BY <1>1, <2>1, <2>5 DEF PhoneTakes, Environment, serverVars, mainVars, relayVars
<1>2. CASE PhoneOpens
  <2>. DEFINE ch == Opening[opened + 1]
              m == Msg(ch, IF ch = "control" THEN "AudioFocusRequest" ELSE "ChannelOpenRequest")
  <2>1. Opening \in Seq(Channels) /\ opened + 1 \in 1..Len(Opening) /\ opened + 1 \in 0..Len(Opening)
    BY <1>2, OpeningAssumption DEF PhoneOpens
  <2>2. m \in PhoneMsg
    BY <2>1 DEF Msg, PhoneMsg, PhoneTypes, Packets, ForwardedTypes
  <2>3. fromPhone' \in Seq(PhoneMsg) /\ opened' \in 0..Len(Opening)
    BY <1>2, <2>1, <2>2, Appended DEF PhoneOpens, PhoneSays
  <2>. QED BY <1>2, <2>3 DEF PhoneOpens, Environment, serverVars, mainVars, relayVars
<1>3. CASE PhoneStreams
  <2>1. fromPhone' = Append(fromPhone, IF media = 0 THEN First ELSE Later)
    BY <1>3 DEF PhoneStreams, PhoneSays, First, Later
  <2>2. fromPhone' \in Seq(PhoneMsg) /\ media' \in Nat
    BY <1>3, <2>1, Messages DEF PhoneStreams
  <2>. QED BY <1>3, <2>2 DEF PhoneStreams, Environment, serverVars, mainVars, relayVars
<1>. QED BY <1>1, <1>2, <1>3 DEF Phone

\* The server's steps keep the types.
LEMMA TypesServer == Types /\ Server => Types'
<1>. SUFFICES ASSUME Types, Server PROVE Types'
  OBVIOUS
<1>. USE DEF Types
<1>1. ASSUME NEW ch \in Channels, ServerSays(ch) PROVE fromServer' \in Seq(ServerMsg) /\ said' \in Nat
  <2>1. [ch |-> ch, type |-> "Relayed", nr |-> said + 1] \in ServerMsg
    BY DEF ServerMsg, ClientMsg, ClientTypes, PlainTypes
  <2>. QED BY <1>1, <2>1, Appended DEF ServerSays
<1>2. CASE ServerAnswers
  <2>1. answered + 1 \in 1..Len(toServer) /\ answered' \in 0..Len(toServer)
    BY <1>2 DEF ServerAnswers
  <2>2. toServer[answered + 1].ch \in Channels
    <3>1. toServer \in Seq(ClientMsg)
      OBVIOUS
    <3>2. toServer[answered + 1] \in ClientMsg
      BY <2>1, <3>1, ElementOfSeq
    <3>. QED BY <3>2 DEF ClientMsg
  <2>3. fromServer' \in Seq(ServerMsg) /\ said' \in Nat
    BY <1>1, <1>2, <2>2 DEF ServerAnswers
  <2>. QED BY <1>2, <2>1, <2>3 DEF ServerAnswers, Environment, phoneVars, mainVars, relayVars
<1>3. CASE ServerSpeaks
  <2>1. fromServer' \in Seq(ServerMsg) /\ said' \in Nat
    BY <1>1, <1>3 DEF ServerSpeaks
  <2>. QED BY <1>3, <2>1 DEF ServerSpeaks, Environment, phoneVars, mainVars, relayVars
<1>4. CASE ServerLeaves
  BY <1>4 DEF ServerLeaves, Environment, phoneVars, mainVars, relayVars
<1>. QED BY <1>2, <1>3, <1>4 DEF Server

\* main reads a message of the phone.
LEMMA Reads ==
    ASSUME Types, NEW at, GetMessage(at)
    PROVE  /\ Running /\ stage = at /\ sends = <<>> /\ fromPhone # <<>>
           /\ fromPhone[1] \in PhoneMsg /\ fromPhone' = Tail(fromPhone) /\ fromPhone' \in Seq(PhoneMsg)
           /\ Elements(fromPhone) = {fromPhone[1]} \union Elements(fromPhone')
  BY Taken DEF GetMessage, Types

\* What main sends on its own.
LEMMA Handshakes ==
    /\ Control("SslHandshake") \in ClientMsg /\ Control("SslHandshake") \notin Opened
    /\ Control("SslHandshake") \in Plain
    /\ Control("SslHandshake") # Auth /\ Control("SslHandshake") # Answer
    /\ Control("SslHandshake").nr = 0
  BY DEF Control, Msg, ClientMsg, Opened, Plain, Channels, Offered, ClientTypes, PlainTypes, Auth, Answer

\* A message in sendQueue.
LEMMA Sends ==
    ASSUME Types, NEW m \in ClientMsg, SendMessage(m) \/ UNCHANGED sendQueue
    PROVE  /\ sendQueue' \in Seq(ClientMsg)
           /\ SendMessage(m) => Elements(sendQueue') = Elements(sendQueue) \union {m}
<1>1. sendQueue \in Seq(ClientMsg)
  BY DEF Types
<1>2. /\ Append(sendQueue, m) \in Seq(ClientMsg)
      /\ Elements(Append(sendQueue, m)) = Elements(sendQueue) \union {m}
  BY <1>1, Appended
<1>. QED BY <1>1, <1>2 DEF SendMessage

\* An end is one of those there are.
LEMMA Ends ==
    ASSUME Types,
           ended' = ended \/ ended' \in {"refused", "silent", "protocol", "pipeline", "null", "server", "tls", "write"}
    PROVE  ended' \in {"no", "refused", "silent", "protocol", "pipeline", "null", "server", "tls", "write"}
  BY DEF Types

\* main's steps keep the types.
LEMMA TypesMain == IInv /\ Main => Types'
<1>. SUFFICES ASSUME Types, Running => Alive, Main PROVE Types'
  BY DEF IInv
<1>. USE DEF Types
<1>1. CASE ExpectVersionResponse
  <2>1. fromPhone' \in Seq(PhoneMsg)
    BY <1>1, Reads DEF ExpectVersionResponse
  <2>2. sendQueue' \in Seq(ClientMsg)
    BY <1>1, Handshakes, Sends DEF ExpectVersionResponse
  <2>3. stage' \in {"version", "handshake"}
    BY <1>1 DEF ExpectVersionResponse, GetMessage
  <2>4. ended' \in {"no", "refused", "silent", "protocol", "pipeline", "null", "server", "tls", "write"}
    BY <1>1, Ends DEF ExpectVersionResponse, End
  <2>. QED BY <1>1, <2>1, <2>2, <2>3, <2>4 DEF ExpectVersionResponse, MainElse, phoneVars, writerVars, serverVars, relayVars
<1>2. CASE DoSslHandshake
  <2>1. fromPhone' \in Seq(PhoneMsg) /\ stage = "handshake" /\ Running
    BY <1>2, Reads DEF DoSslHandshake
  <2>2. flights < 2
    BY <2>1 DEF Alive, BeforeServing, Prelude
  <2>3. sendQueue' \in Seq(ClientMsg)
    BY <1>2, Handshakes, Sends DEF DoSslHandshake
  <2>5. stage' \in {"handshake", "auth"}
    BY <1>2, <2>1 DEF DoSslHandshake
  <2>6. ended' \in {"no", "refused", "silent", "protocol", "pipeline", "null", "server", "tls", "write"}
    BY <1>2, Ends DEF DoSslHandshake, End
  <2>4. flights' \in 0..2
    BY <1>2, <2>2 DEF DoSslHandshake
  <2>. QED BY <1>2, <2>1, <2>3, <2>4, <2>5, <2>6 DEF DoSslHandshake, MainElse, phoneVars, writerVars, serverVars, relayVars
<1>3. CASE SendVersionRequest \/ SendAuthComplete
  <2>1. sendQueue' \in Seq(ClientMsg)
    BY <1>3, Messages, VersionAsked, Sends DEF SendVersionRequest, SendAuthComplete, Auth
  <2>. QED BY <1>3, <2>1 DEF SendVersionRequest, SendAuthComplete, MainElse, phoneVars, writerVars, serverVars, relayVars
<1>4. CASE HandleMessage
  <2>1. fromPhone' \in Seq(PhoneMsg) /\ fromPhone[1] \in PhoneMsg
    BY <1>4, Reads DEF HandleMessage
  <2>2. sends' \in Seq(Replies)
    BY <1>4, <2>1, AnswersAre DEF HandleMessage, HandleChannelMessage, PushFails
  <2>3. /\ stage' \in {stage, "discover"} /\ todo' \subseteq Offered
    BY <1>4 DEF HandleMessage
  <2>5. ended' \in {"no", "refused", "silent", "protocol", "pipeline", "null", "server", "tls", "write"}
    BY <1>4, Ends DEF HandleMessage, HandleChannelMessage, PushFails, End
  <2>4. source' \in BOOLEAN
    BY <1>4 DEF HandleMessage, HandleChannelMessage, PushFails
  <2>. QED BY <1>4, <2>1, <2>2, <2>3, <2>4, <2>5 DEF HandleMessage, MainElse, phoneVars, writerVars, serverVars, relayVars
<1>5. CASE Send
  <2>1. sends[1] \in Replies /\ sends' \in Seq(Replies) /\ sends[1] \in ClientMsg
    BY <1>5, Taken, Messages DEF Send
  <2>2. sendQueue' \in Seq(ClientMsg)
    BY <1>5, <2>1, Sends DEF Send
  <2>4. ended' \in {"no", "refused", "silent", "protocol", "pipeline", "null", "server", "tls", "write"}
    BY <1>5, Ends DEF Send, End
  <2>3. toServer' \in Seq(ClientMsg) /\ answered \in 0..Len(toServer')
    <3>1. toServer' = toServer \/ toServer' = Append(toServer, sends[1])
      BY <1>5 DEF Send
    <3>2. ASSUME toServer' = Append(toServer, sends[1])
          PROVE  toServer' \in Seq(ClientMsg) /\ Len(toServer') = Len(toServer) + 1 /\ Len(toServer) \in Nat
      BY <2>1, <3>2
    <3>. QED BY <3>1, <3>2
  <2>. QED BY <1>5, <2>1, <2>2, <2>3, <2>4 DEF Send, MainElse, phoneVars, writerVars, serverVars, relayVars
<1>6. CASE SetUpChannel
  <2>1. sendQueue' \in Seq(ClientMsg)
    BY <1>6, Messages, Sends DEF SetUpChannel, Answer
  <2>4. stage' \in {"discover", "serve"} /\ todo' \subseteq Offered
    BY <1>6 DEF SetUpChannel
  <2>2. source' \in BOOLEAN
    BY <1>6 DEF SetUpChannel
  <2>3. handlers' \in [Channels -> {"none", "made", "answers", "wired"}] /\ handlers'["control"] = "wired"
    <3>1. \A s : NextState(s) \in {"made", "answers", "wired"}
      BY DEF NextState
    <3>2. \/ handlers' = handlers
          \/ \E ch \in Offered : handlers' = [handlers EXCEPT ![ch] = NextState(@)]
      BY <1>6 DEF SetUpChannel
    <3>3. "control" \notin Offered /\ Offered \subseteq Channels
      BY DEF Channels, Offered
    <3>4. ASSUME NEW ch \in Offered, NEW new \in {"made", "answers", "wired"},
                 handlers' = [handlers EXCEPT ![ch] = new]
          PROVE  /\ handlers' \in [Channels -> {"none", "made", "answers", "wired"}]
                 /\ handlers'["control"] = "wired"
      BY <3>3, <3>4
    <3>. QED BY <3>1, <3>2, <3>4
  <2>. QED BY <1>6, <2>1, <2>2, <2>3, <2>4 DEF SetUpChannel, MainElse, phoneVars, writerVars, serverVars, relayVars
<1>. QED BY <1>1, <1>2, <1>3, <1>4, <1>5, <1>6 DEF Main

\* The steps of the relay and the writer keep the types.
LEMMA TypesRest == Types /\ (PhoneSilent \/ Relay \/ WriteThread \/ Faults) => Types'
<1>. SUFFICES ASSUME Types, PhoneSilent \/ Relay \/ WriteThread \/ Faults PROVE Types'
  OBVIOUS
<1>. USE DEF Types
<1>1. CASE PhoneSilent
  <2>1. ended' \in {"no", "refused", "silent", "protocol", "pipeline", "null", "server", "tls", "write"}
    BY <1>1, Ends DEF PhoneSilent, End
  <2>. QED BY <1>1, <2>1 DEF PhoneSilent, MainElse, mainVars, phoneVars, writerVars, serverVars, relayVars
<1>2. CASE Relay
  <2>1. fromServer[1] \in ServerMsg /\ fromServer' \in Seq(ServerMsg)
    BY <1>2, Taken DEF Relay
  <2>2. fromServer[1] \in ClientMsg /\ fromServer[1].nr \in Nat
    BY <2>1 DEF ServerMsg, ClientMsg
  <2>3. sendQueue' \in Seq(ClientMsg)
    BY <1>2, <2>2, Sends DEF Relay
  <2>4. lost' \subseteq Nat
    BY <1>2, <2>2 DEF Relay
  <2>5. ended' \in {"no", "refused", "silent", "protocol", "pipeline", "null", "server", "tls", "write"}
    BY <1>2, Ends DEF Relay, End
  <2>. QED BY <1>2, <2>1, <2>3, <2>4, <2>5 DEF Relay, mainVars, phoneVars, writerVars, serverVars
<1>3. CASE PrepareFails \/ RetryFails
  <2>1. ended' \in {"no", "refused", "silent", "protocol", "pipeline", "null", "server", "tls", "write"}
    BY <1>3, Ends DEF PrepareFails, RetryFails, End
  <2>. QED BY <1>3, <2>1 DEF PrepareFails, RetryFails, WriterElse, mainVars, phoneVars, writerVars, serverVars, relayVars
<1>4. ASSUME NEW m \in ClientMsg, NEW again \in BOOLEAN, Arrive(m, again)
      PROVE  wire' \in Seq(Arrival) /\ passed' \in Seq(Nat) /\ repeated' \in BOOLEAN
  <2>1. [msg |-> m, again |-> again] \in Arrival /\ m.nr \in Nat
    BY DEF Arrival, ClientMsg
  <2>2. repeated' \in BOOLEAN
    BY <1>4 DEF Arrive
  <2>. QED BY <1>4, <2>1, <2>2 DEF Arrive
<1>5. CASE WriteToUsb
  <2>1. sendQueue[1] \in ClientMsg /\ sendQueue' \in Seq(ClientMsg)
    BY <1>5, Taken DEF WriteToUsb, PrepareMessage
  <2>2. wire' \in Seq(Arrival) /\ passed' \in Seq(Nat) /\ repeated' \in BOOLEAN
    BY <1>4, <1>5, <2>1 DEF WriteToUsb
  <2>. QED BY <1>5, <2>1, <2>2 DEF WriteToUsb, WriterElse, mainVars, phoneVars, serverVars, relayVars
<1>6. CASE WriteFails
  <2>1. sendQueue[1] \in ClientMsg /\ sendQueue' \in Seq(ClientMsg)
    BY <1>6, Taken DEF WriteFails, PrepareMessage
  <2>2. /\ wire' \in Seq(Arrival) /\ passed' \in Seq(Nat) /\ repeated' \in BOOLEAN /\ arrived' \in BOOLEAN
    BY <1>4, <1>6, <2>1 DEF WriteFails
  <2>3. inHand' \in Seq(ClientMsg) /\ Len(inHand') <= 1
    BY <1>6, <2>1 DEF WriteFails
  <2>4. faults' \in 0..MaxFaults
    BY <1>6, ClientBounds DEF WriteFails
  <2>. QED BY <1>6, <2>1, <2>2, <2>3, <2>4 DEF WriteFails, WriterElse, mainVars, phoneVars, serverVars, relayVars
<1>7. CASE Retry
  <2>1. inHand[1] \in ClientMsg
    BY <1>7, Taken DEF Retry
  <2>2. wire' \in Seq(Arrival) /\ passed' \in Seq(Nat) /\ repeated' \in BOOLEAN
    BY <1>4, <1>7, <2>1 DEF Retry
  <2>3. inHand' = <<>> /\ arrived' = FALSE
    BY <1>7 DEF Retry
  <2>4. inHand' \in Seq(ClientMsg) /\ Len(inHand') <= 1
    BY <2>3
  <2>5. arrived' \in BOOLEAN
    BY <2>3, Zenon
  <2>. QED BY <1>7, <2>2, <2>4, <2>5 DEF Retry, WriterElse, mainVars, phoneVars, serverVars, relayVars
<1>. QED BY <1>1, <1>2, <1>3, <1>5, <1>6, <1>7 DEF WriteThread, Faults

-----------------------------------------------------------------------------
(* What the steps do, in terms of the queues' elements.                    *)

\* A message more on the wire.
LEMMA WireGrows ==
    ASSUME NEW w \in Seq(Arrival), NEW a \in Arrival
    PROVE  Msgs(Append(w, a)) = Msgs(w) \union {a.msg}
  BY Appended DEF Msgs

\* The first message off the wire.
LEMMA WireShrinks ==
    ASSUME NEW w \in Seq(Arrival), w # <<>>
    PROVE  w[1].msg \in ClientMsg /\ Msgs(w) = {w[1].msg} \union Msgs(Tail(w))
<1>1. /\ w[1] \in Arrival /\ 1 \in 1..Len(w) /\ Len(w) \in Nat /\ Len(Tail(w)) = Len(w) - 1
      /\ \A i \in 1..Len(Tail(w)) : Tail(w)[i] = w[i + 1] /\ i + 1 \in 1..Len(w)
  BY Taken
<1>2. \A i \in 1..Len(w) : i = 1 \/ (i - 1 \in 1..Len(Tail(w)) /\ (i - 1) + 1 = i)
  BY <1>1
<1>3. Msgs(w) \subseteq {w[1].msg} \union Msgs(Tail(w))
  BY <1>1, <1>2 DEF Msgs
<1>4. {w[1].msg} \union Msgs(Tail(w)) \subseteq Msgs(w)
  BY <1>1 DEF Msgs
<1>. QED BY <1>1, <1>3, <1>4 DEF Arrival

\* A message more of the phone.
LEMMA PhoneQueue ==
    ASSUME Types
    PROVE  \A x \in PhoneMsg : Elements(Append(fromPhone, x)) = Elements(fromPhone) \union {x}
<1>1. fromPhone \in Seq(PhoneMsg)
  BY DEF Types
<1>. QED BY <1>1, Appended

\* The phone takes m.
TakenByPhone(m) ==
    /\ m = wire[1].msg /\ wire # <<>> /\ wire' = Tail(wire) /\ OnWire = {m} \union OnWire'
    /\ took \subseteq took' /\ took' \subseteq took \union {Msg(m.ch, m.type)}
    /\ \/ fromPhone' = fromPhone
       \/ \E x \in PhoneMsg : /\ fromPhone' = Append(fromPhone, x)
                              /\ x # First /\ x # Later /\ x \notin Packet
                              /\ x \in OfChannels => m \in Opened
                              /\ x = Question => m = Auth
    /\ UNCHANGED <<opened, media, stage, flights, sends, todo, source, handlers, sendQueue,
                   inHand, arrived, passed, fromServer, said, lost, early>>

\* PhoneTakes is such a step.
LEMMA PhoneTaking ==
    ASSUME Types, PhoneTakes
    PROVE  \E m \in ClientMsg : TakenByPhone(m)
<1>. DEFINE m == wire[1].msg
<1>1. wire # <<>> /\ wire' = Tail(wire) /\ wire \in Seq(Arrival) /\ fromPhone \in Seq(PhoneMsg)
  BY DEF PhoneTakes, Types
<1>2. m \in ClientMsg /\ OnWire = {m} \union OnWire'
  BY <1>1, WireShrinks DEF OnWire
<1>3. took \subseteq took' /\ took' \subseteq took \union {Msg(m.ch, m.type)}
  BY DEF PhoneTakes
<1>4. fromPhone' = fromPhone \/ fromPhone' = fromPhone \o Reaction(m)
  BY DEF PhoneTakes
<1>5. UNCHANGED <<opened, media, stage, flights, sends, todo, source, handlers, sendQueue,
                  inHand, arrived, passed, fromServer, said, lost, early>>
  BY DEF PhoneTakes, Environment, serverVars, mainVars, relayVars
<1>. HIDE DEF m
<1>6. \/ fromPhone' = fromPhone
      \/ \E x \in PhoneMsg : /\ fromPhone' = Append(fromPhone, x)
                             /\ x # First /\ x # Later /\ x \notin Packet
                             /\ x \in OfChannels => m \in Opened
                             /\ x = Question => m = Auth
  BY <1>1, <1>2, <1>4, Reacted
<1>7. m = wire[1].msg
  BY DEF m
<1>. QED BY <1>1, <1>2, <1>3, <1>5, <1>6, <1>7 DEF TakenByPhone

\* It opens a channel or streams: x is its message.
SaidByPhone(x) ==
    /\ fromPhone' = Append(fromPhone, x) /\ x # Question /\ x \in OfChannels
    /\ \/ PhoneOpens /\ x \notin Packet /\ Answer \in took /\ media' = media
       \/ /\ PhoneStreams /\ Msg("video", "VideoFocusIndication") \in took
          /\ x = (IF media = 0 THEN First ELSE Later) /\ media' = media + 1
    /\ UNCHANGED <<acks, took, stage, flights, sends, todo, source, handlers, sendQueue, wire,
                   inHand, arrived, passed, fromServer, said, lost, early>>

\* PhoneOpens and PhoneStreams are such steps.
LEMMA PhoneSaying ==
    ASSUME Types, PhoneOpens \/ PhoneStreams
    PROVE  \E x \in PhoneMsg : SaidByPhone(x)
<1>1. CASE PhoneOpens
  <2>. DEFINE ch == Opening[opened + 1]
              m == Msg(ch, IF ch = "control" THEN "AudioFocusRequest" ELSE "ChannelOpenRequest")
  <2>1. Opening \in Seq(Channels) /\ opened + 1 \in 1..Len(Opening)
    BY <1>1, OpeningAssumption DEF PhoneOpens, Types
  <2>2. m \in PhoneMsg /\ m # Question /\ m \in OfChannels /\ m \notin Packet
    BY <2>1 DEF Msg, PhoneMsg, PhoneTypes, Packets, ForwardedTypes, OfChannels, Packet, Question, Control
  <2>3. fromPhone' = Append(fromPhone, m) /\ Answer \in took /\ media' = media
    BY <1>1 DEF PhoneOpens, PhoneSays, Answer
  <2>4. UNCHANGED <<acks, took, stage, flights, sends, todo, source, handlers, sendQueue, wire,
                    inHand, arrived, passed, fromServer, said, lost, early>>
    BY <1>1 DEF PhoneOpens, Environment, serverVars, mainVars, relayVars
  <2>. QED BY <1>1, <2>2, <2>3, <2>4 DEF SaidByPhone
<1>2. CASE PhoneStreams
  <2>. DEFINE m == IF media = 0 THEN First ELSE Later
  <2>1. m \in PhoneMsg /\ m # Question /\ m \in OfChannels
    BY Messages DEF OfChannels, Later, Question, Msg, Control
  <2>2. fromPhone' = Append(fromPhone, m) /\ media' = media + 1 /\ Msg("video", "VideoFocusIndication") \in took
    BY <1>2 DEF PhoneStreams, PhoneSays, First, Later
  <2>3. UNCHANGED <<acks, took, stage, flights, sends, todo, source, handlers, sendQueue, wire,
                    inHand, arrived, passed, fromServer, said, lost, early>>
    BY <1>2 DEF PhoneStreams, Environment, serverVars, mainVars, relayVars
  <2>. QED BY <1>2, <2>1, <2>2, <2>3 DEF SaidByPhone
<1>. QED BY <1>1, <1>2

\* The server says something, or nothing.
LEMMA ServerSaying ==
    ASSUME Types, Server
    PROVE  /\ \/ UNCHANGED <<said, fromServer>>
              \/ \E m \in ServerMsg : /\ said' = said + 1 /\ m.nr = said + 1
                                      /\ fromServer' = Append(fromServer, m)
           /\ UNCHANGED <<acks, media, took, fromPhone, stage, flights, sends, todo, source, handlers,
                          sendQueue, wire, inHand, arrived, passed, lost, early>>
<1>1. ASSUME NEW ch \in Channels, ServerSays(ch)
      PROVE  \E m \in ServerMsg : said' = said + 1 /\ m.nr = said + 1 /\ fromServer' = Append(fromServer, m)
  <2>. DEFINE m == [ch |-> ch, type |-> "Relayed", nr |-> said + 1]
  <2>1. m \in ServerMsg /\ m.nr = said + 1
    BY DEF ServerMsg, ClientMsg, ClientTypes, PlainTypes, Types
  <2>. QED BY <1>1, <2>1 DEF ServerSays
<1>2. CASE ServerAnswers
  <2>1. answered + 1 \in 1..Len(toServer)
    BY <1>2 DEF ServerAnswers, Types
  <2>2. toServer[answered + 1].ch \in Channels
    BY <2>1 DEF ClientMsg, Types
  <2>. QED BY <1>1, <1>2, <2>2 DEF ServerAnswers, Environment, phoneVars, mainVars, relayVars
<1>3. CASE ServerSpeaks
  BY <1>1, <1>3 DEF ServerSpeaks, Environment, phoneVars, mainVars, relayVars
<1>4. CASE ServerLeaves
  BY <1>4 DEF ServerLeaves, Environment, phoneVars, mainVars, relayVars
<1>. QED BY <1>2, <1>3, <1>4 DEF Server

\* What main never changes.
LEMMA MainLeaves ==
    ASSUME Main
    PROVE  UNCHANGED <<acks, media, opened, took, wire, inHand, arrived, passed, said, fromServer, lost, early>>
  BY DEF Main, SendVersionRequest, ExpectVersionResponse, DoSslHandshake, SendAuthComplete, HandleMessage, Send, SetUpChannel,
         MainElse, phoneVars, writerVars, serverVars, relayVars

\* A step of the handshake that the program survives.
LEMMA Handshaking ==
    ASSUME Types, ExpectVersionResponse \/ DoSslHandshake, ended' = "no"
    PROVE  /\ fromPhone' = Tail(fromPhone) /\ fromPhone # <<>>
           /\ Elements(fromPhone') \subseteq Elements(fromPhone) /\ sends = <<>>
           /\ \/ /\ stage = "version" /\ stage' = "handshake" /\ flights' = flights
                 /\ SendMessage(Control("SslHandshake"))
              \/ /\ stage = "handshake" /\ flights = 0 /\ flights' = 1 /\ stage' = stage
                 /\ SendMessage(Control("SslHandshake"))
              \/ /\ stage = "handshake" /\ flights # 0 /\ flights' = flights + 1 /\ stage' = "auth"
                 /\ sendQueue' = sendQueue
           /\ UNCHANGED <<sends, todo, source, handlers>>
<1>1. CASE ExpectVersionResponse
  <2>1. /\ fromPhone' = Tail(fromPhone) /\ fromPhone # <<>>
        /\ Elements(fromPhone') \subseteq Elements(fromPhone) /\ sends = <<>> /\ stage = "version" /\ Running
    BY <1>1, Reads DEF ExpectVersionResponse
  <2>. QED BY <1>1, <2>1 DEF ExpectVersionResponse, End
<1>2. CASE DoSslHandshake
  <2>1. /\ fromPhone' = Tail(fromPhone) /\ fromPhone # <<>>
        /\ Elements(fromPhone') \subseteq Elements(fromPhone) /\ sends = <<>> /\ stage = "handshake" /\ Running
    BY <1>2, Reads DEF DoSslHandshake
  <2>2. fromPhone[1].type = "SslHandshake" /\ flights' = flights + 1
        /\ IF flights = 0 THEN SendMessage(Control("SslHandshake")) /\ UNCHANGED stage
                          ELSE stage' = "auth" /\ UNCHANGED sendQueue
    BY <1>2 DEF DoSslHandshake, End
  <2>. QED BY <1>2, <2>1, <2>2 DEF DoSslHandshake, Types
<1>. QED BY <1>1, <1>2

\* main handles the phone's message m and survives.
Handled(m) ==
    /\ m = fromPhone[1] /\ fromPhone # <<>> /\ fromPhone' = Tail(fromPhone)
    /\ Elements(fromPhone) = {m} \union Elements(fromPhone')
    /\ stage = "serve" /\ sends = <<>>
    /\ \/ m = Question /\ stage' = "discover" /\ todo' = Offered /\ UNCHANGED <<sends, source>>
       \/ /\ m \in OfChannels /\ sends' = Answers(m) /\ source' = (source \/ m = First)
          /\ UNCHANGED <<stage, todo>>
    /\ UNCHANGED <<flights, handlers, sendQueue>>

\* HandleMessage is such a step, when the program survives it.
LEMMA Handling ==
    ASSUME Types, HandleMessage, ended' = "no"
    PROVE  \E m \in PhoneMsg : Handled(m)
<1>. DEFINE m == fromPhone[1]
<1>1. /\ m \in PhoneMsg /\ fromPhone # <<>> /\ fromPhone' = Tail(fromPhone)
      /\ Elements(fromPhone) = {m} \union Elements(fromPhone') /\ stage = "serve" /\ sends = <<>> /\ Running
  BY Reads DEF HandleMessage
<1>2. UNCHANGED <<flights, handlers, sendQueue>>
  BY DEF HandleMessage
<1>3. CASE m.type = "ServiceDiscoveryRequest"
  <2>1. m = Question /\ m.ch = "control" /\ m.type \notin ForwardedTypes
    BY <1>1, <1>3, Messages DEF Question, Control, Msg, ForwardedTypes
  <2>2. stage' = "discover" /\ todo' = Offered /\ UNCHANGED <<sends, source>>
    BY <2>1 DEF HandleMessage, End
  <2>. QED BY <1>1, <1>2, <2>1, <2>2 DEF Handled
<1>4. CASE m.ch # "control"
  <2>1. m \in OfChannels /\ m # Question /\ m.type # "ServiceDiscoveryRequest"
    BY <1>1, <1>4, Messages DEF OfChannels
  <2>2. HandleChannelMessage(m) /\ UNCHANGED <<stage, todo>>
    BY <1>4, <2>1 DEF HandleMessage
  <2>3. sends' = Answers(m) /\ source' = (source \/ m.type = "MediaIndication")
    BY <2>2 DEF HandleChannelMessage, PushFails, End
  <2>4. m.type = "MediaIndication" <=> m = First
    BY <1>1, Messages
  <2>. QED BY <1>1, <1>2, <2>1, <2>2, <2>3, <2>4 DEF Handled
<1>5. CASE m.ch = "control" /\ m.type # "ServiceDiscoveryRequest"
  <2>1. m.type \in ForwardedTypes /\ sends' = Answers(m) /\ UNCHANGED <<stage, todo, source>>
    BY <1>5 DEF HandleMessage, End
  <2>2. m \in OfChannels /\ m # First
    BY <1>1, <1>5, <2>1 DEF OfChannels, First, Msg
  <2>3. source' = (source \/ m = First)
    BY <2>1, <2>2 DEF Types
  <2>. QED BY <1>1, <1>2, <2>1, <2>2, <2>3 DEF Handled
<1>. QED BY <1>3, <1>4, <1>5

\* main sends a handler's message m.
SentOn(m) ==
    /\ m = sends[1] /\ sends # <<>> /\ sends' = Tail(sends)
    /\ SendMessage(m) \/ (sendQueue' = sendQueue /\ m \notin Ack)
    /\ UNCHANGED <<fromPhone, stage, flights, todo, source, handlers>>

\* Send is such a step, when the program survives it.
LEMMA Sending ==
    ASSUME Types, Send, ended' = "no"
    PROVE  \E m \in Replies : SentOn(m)
<1>. DEFINE m == sends[1]
<1>1. m \in Replies /\ sends # <<>> /\ sends' = Tail(sends)
  BY Taken DEF Send, Types
<1>2. SendMessage(m) \/ (sendQueue' = sendQueue /\ m.type = "ToServer")
  BY DEF Send
<1>3. m.type = "ToServer" => m \notin Ack
  BY DEF Ack
<1>4. UNCHANGED <<fromPhone, stage, flights, todo, source, handlers>>
  BY DEF Send
<1>. QED BY <1>1, <1>2, <1>3, <1>4 DEF SentOn

\* main sets up a handler, or answers when they are all there.
LEMMA SettingUp ==
    ASSUME Types, SetUpChannel
    PROVE  /\ stage = "discover"
           /\ \/ \E ch \in todo : /\ \E new \in {"made", "answers", "wired"} :
                                        handlers' = [handlers EXCEPT ![ch] = new]
                                  /\ todo' \in {todo, todo \ {ch}} /\ (source' => source)
                                  /\ UNCHANGED <<stage, sendQueue>>
              \/ /\ todo = {} /\ SendMessage(Answer) /\ stage' = "serve"
                 /\ UNCHANGED <<todo, source, handlers>>
           /\ UNCHANGED <<fromPhone, flights, sends>>
<1>1. \A s : NextState(s) \in {"made", "answers", "wired"}
  BY DEF NextState
<1>2. \A ch \in todo : handlers[ch] \in {"none", "made", "answers", "wired"}
  BY DEF Types, Channels
<1>. QED BY <1>1, <1>2 DEF SetUpChannel, Answer

\* The relay reads the server's message m and the program survives.
PassedOn(m) ==
    /\ m = fromServer[1] /\ fromServer # <<>> /\ fromServer' = Tail(fromServer)
    /\ early => early'
    /\ ~Established => early'
    /\ \/ SendMessage(m) /\ lost' = lost
       \/ sendQueue' = sendQueue /\ lost' = lost \union {m.nr} /\ early'
    /\ UNCHANGED <<acks, media, opened, took, fromPhone, stage, flights, sends, todo, source, handlers,
                   wire, inHand, arrived, passed, said>>

\* Relay is such a step, when the program survives it.
LEMMA Relaying ==
    ASSUME Types, Relay, ended' = "no"
    PROVE  \E m \in ServerMsg : PassedOn(m)
<1>. DEFINE m == fromServer[1]
<1>1. m \in ServerMsg /\ fromServer # <<>> /\ fromServer' = Tail(fromServer)
  BY Taken DEF Relay, Types
<1>2. (early => early') /\ (~Established => early')
  BY DEF Relay
<1>3. \/ SendMessage(m) /\ lost' = lost
      \/ sendQueue' = sendQueue /\ lost' = lost \union {m.nr} /\ early'
  BY DEF Relay, End
<1>4. UNCHANGED <<acks, media, opened, took, fromPhone, stage, flights, sends, todo, source, handlers,
                  wire, inHand, arrived, passed, said>>
  BY DEF Relay, phoneVars, mainVars, writerVars, serverVars
<1>. QED BY <1>1, <1>2, <1>3, <1>4 DEF PassedOn

\* A message reaches the phone.
LEMMA Arriving ==
    ASSUME Types, NEW m \in ClientMsg, NEW again \in BOOLEAN, Arrive(m, again)
    PROVE  /\ wire' = Append(wire, [msg |-> m, again |-> again]) /\ OnWire' = OnWire \union {m}
           /\ [msg |-> m, again |-> again] \in Arrival
           /\ passed' = IF m.nr = 0 \/ again THEN passed ELSE Append(passed, m.nr)
<1>1. [msg |-> m, again |-> again] \in Arrival
  BY DEF Arrival
<1>. QED BY <1>1, WireGrows DEF Arrive, OnWire, Types

\* The writer takes m from the queue: it reaches the phone, or it is in hand, or both.
Written(m) ==
    /\ m = sendQueue[1] /\ sendQueue # <<>> /\ sendQueue' = Tail(sendQueue)
    /\ Elements(sendQueue) = {m} \union Elements(sendQueue')
    /\ inHand = <<>> /\ Elements(inHand) = {}
    /\ \/ Arrive(m, FALSE) /\ inHand' = <<>> /\ Elements(inHand') = {} /\ arrived' = arrived
       \/ Arrive(m, FALSE) /\ inHand' = <<m>> /\ Elements(inHand') = {m} /\ arrived' = TRUE
       \/ /\ inHand' = <<m>> /\ Elements(inHand') = {m} /\ arrived' = arrived
          /\ wire' = wire /\ passed' = passed
    /\ UNCHANGED <<acks, media, opened, took, fromPhone, stage, flights, sends, todo, source, handlers,
                   fromServer, said, lost, early>>

\* WriteToUsb and WriteFails are such steps.
LEMMA Writing ==
    ASSUME Types, WriteToUsb \/ WriteFails
    PROVE  \E m \in ClientMsg : Written(m)
<1>. DEFINE m == sendQueue[1]
<1>1. /\ m \in ClientMsg /\ sendQueue # <<>> /\ sendQueue' = Tail(sendQueue) /\ inHand = <<>>
      /\ Elements(sendQueue) = {m} \union Elements(sendQueue')
  BY Taken DEF WriteToUsb, WriteFails, PrepareMessage, Types
<1>2. UNCHANGED <<acks, media, opened, took, fromPhone, stage, flights, sends, todo, source, handlers,
                  fromServer, said, lost, early>>
  BY DEF WriteToUsb, WriteFails, WriterElse, phoneVars, mainVars, serverVars, relayVars
<1>3. Elements(<<>>) = {} /\ Elements(<<m>>) = {m}
  <2>1. \A i \in 1..1 : i = 1
    OBVIOUS
  <2>. QED BY <2>1 DEF Elements
<1>4. \/ Arrive(m, FALSE) /\ inHand' = <<>> /\ arrived' = arrived
      \/ Arrive(m, FALSE) /\ inHand' = <<m>> /\ arrived' = TRUE
      \/ inHand' = <<m>> /\ arrived' = arrived /\ wire' = wire /\ passed' = passed
  BY <1>1 DEF WriteToUsb, WriteFails
<1>. HIDE DEF m
<1>5. \/ Arrive(m, FALSE) /\ inHand' = <<>> /\ Elements(inHand') = {} /\ arrived' = arrived
      \/ Arrive(m, FALSE) /\ inHand' = <<m>> /\ Elements(inHand') = {m} /\ arrived' = TRUE
      \/ /\ inHand' = <<m>> /\ Elements(inHand') = {m} /\ arrived' = arrived
         /\ wire' = wire /\ passed' = passed
  BY <1>3, <1>4
<1>6. m = sendQueue[1]
  BY DEF m
<1>7. Elements(inHand) = {}
  BY <1>1, <1>3
<1>. QED BY <1>1, <1>2, <1>5, <1>6, <1>7 DEF Written

\* It tries m again.
Tried(m) ==
    /\ m = inHand[1] /\ inHand # <<>> /\ Len(inHand) = 1 /\ Elements(inHand) = {m}
    /\ Arrive(m, arrived) /\ arrived \in BOOLEAN
    /\ inHand' = <<>> /\ Elements(inHand') = {} /\ arrived' = FALSE
    /\ UNCHANGED <<acks, media, opened, took, fromPhone, stage, flights, sends, todo, source, handlers,
                   sendQueue, fromServer, said, lost, early>>

\* Retry is such a step.
LEMMA Retrying ==
    ASSUME Types, Retry
    PROVE  \E m \in ClientMsg : Tried(m)
<1>. DEFINE m == inHand[1]
<1>1. m \in ClientMsg /\ inHand # <<>> /\ inHand' = <<>> /\ arrived' = FALSE /\ Arrive(m, arrived)
  BY Taken DEF Retry, Types
<1>2. UNCHANGED <<acks, media, opened, took, fromPhone, stage, flights, sends, todo, source, handlers,
                  sendQueue, fromServer, said, lost, early>>
  BY DEF Retry, WriterElse, phoneVars, mainVars, serverVars, relayVars
<1>3. Elements(inHand) = {m} /\ Len(inHand) = 1
  <2>1. Len(inHand) = 1
    <3>1. Len(inHand) <= 1 /\ Len(inHand) \in Nat /\ 1 \in 1..Len(inHand)
      BY <1>1, Taken DEF Types
    <3>. QED BY <3>1
  <2>2. \A i \in 1..1 : i = 1
    OBVIOUS
  <2>. QED BY <2>1, <2>2 DEF Elements
<1>4. arrived \in BOOLEAN
  BY DEF Types
<1>5. Elements(inHand') = {}
  BY <1>1, ElementsOf
<1>. QED BY <1>1, <1>2, <1>3, <1>4, <1>5 DEF Tried

\* The steps that the program survives.
LEMMA Survived ==
    ASSUME Next, ended' = "no"
    PROVE  \/ PhoneTakes \/ PhoneOpens \/ PhoneStreams \/ Server
           \/ SendVersionRequest \/ ExpectVersionResponse \/ DoSslHandshake \/ SendAuthComplete
           \/ HandleMessage \/ Send \/ SetUpChannel \/ Relay
           \/ WriteToUsb \/ WriteFails \/ Retry
  BY DEF Next, Phone, Main, WriteThread, Faults, PhoneSilent, PrepareFails, RetryFails, End

-----------------------------------------------------------------------------
(* The session: TLS before anything else, and the authentication.          *)

\* Every step keeps what holds before TLS and before serving.
LEMMA TLSKept ==
    ASSUME Types, Alive, Next, ended' = "no"
    PROVE  BeforeTLS' /\ BeforeServing'
<1>. USE DEF Established
<1>1. stage \in Prelude <=> stage \in {"start", "version", "handshake", "auth"}
  BY DEF Prelude
<1>2. flights \in 0..2
  BY DEF Types
<1>3. CASE PhoneTakes \/ PhoneOpens \/ PhoneStreams \/ Server \/ Retry
  <2>1. UNCHANGED <<stage, flights, sends, early, sendQueue>>
    BY <1>3, PhoneTaking, PhoneSaying, ServerSaying, Retrying DEF TakenByPhone, SaidByPhone, Tried
  <2>. QED BY <2>1 DEF Alive, BeforeTLS, BeforeServing, Prelude
<1>4. CASE ExpectVersionResponse \/ DoSslHandshake
  <2>1. early' = early /\ sends' = sends /\ sends = <<>> /\ stage \in Prelude
    BY <1>4, Handshaking, MainLeaves, <1>1 DEF Main
  <2>2. \/ /\ stage \in {"version", "handshake"} /\ stage' = "handshake" /\ flights' \in {flights, 1} /\ flights' < 2
           /\ SendMessage(Control("SslHandshake"))
        \/ flights' = 2 /\ stage' = "auth" /\ sendQueue' = sendQueue
    BY <1>2, <1>4, <2>1, Handshaking DEF Alive, BeforeServing
  <2>3. flights < 2
    BY <1>2, <1>4, <2>1, Handshaking DEF Alive, BeforeServing
  <2>4. ~early' /\ flights' # 2 => Elements(sendQueue') \subseteq Plain
    BY <1>2, <2>1, <2>2, <2>3, Sends, Handshakes DEF Alive, BeforeTLS
  <2>. QED BY <2>1, <2>2, <2>4 DEF BeforeTLS, BeforeServing, Prelude
<1>11. CASE SendVersionRequest
  <2>1. stage = "start" /\ stage' = "version" /\ UNCHANGED <<flights, sends, early>>
        /\ SendMessage(Control("VersionRequest"))
    BY <1>11, MainLeaves DEF Main, SendVersionRequest
  <2>2. ~early' /\ flights # 2 => Elements(sendQueue') \subseteq Plain
    BY <2>1, Sends, VersionAsked DEF Alive, BeforeTLS
  <2>. QED BY <2>1, <2>2 DEF Alive, BeforeTLS, BeforeServing, Prelude
<1>5. CASE SendAuthComplete
  <2>1. stage = "auth" /\ stage' = "serve" /\ flights' = flights
    BY <1>5 DEF SendAuthComplete
  <2>. QED BY <2>1 DEF Alive, BeforeTLS, BeforeServing, Prelude
<1>6. CASE HandleMessage
  <2>1. stage = "serve" /\ stage' \in {"serve", "discover"} /\ flights' = flights
    BY <1>6, Handling DEF Handled
  <2>. QED BY <2>1 DEF Alive, BeforeTLS, BeforeServing, Prelude
<1>7. CASE Send
  <2>1. sends # <<>> /\ stage' = stage /\ flights' = flights
    BY <1>7, Sending DEF SentOn
  <2>2. stage \notin Prelude
    BY <2>1 DEF Alive, BeforeServing
  <2>. QED BY <2>1, <2>2 DEF Alive, BeforeTLS, BeforeServing, Prelude
<1>8. CASE SetUpChannel
  <2>1. stage = "discover" /\ stage' \in {"serve", "discover"} /\ flights' = flights
    BY <1>8, SettingUp
  <2>. QED BY <2>1 DEF Alive, BeforeTLS, BeforeServing, Prelude
<1>9. CASE Relay
  <2>1. stage' = stage /\ flights' = flights /\ sends' = sends /\ (~Established => early')
    BY <1>9, Relaying DEF PassedOn
  <2>. QED BY <2>1 DEF Alive, BeforeTLS, BeforeServing, Prelude
<1>10. CASE WriteToUsb \/ WriteFails
  <2>1. stage' = stage /\ flights' = flights /\ sends' = sends /\ early' = early
        /\ Elements(sendQueue') \subseteq Elements(sendQueue)
    BY <1>10, Writing DEF Written
  <2>. QED BY <2>1 DEF Alive, BeforeTLS, BeforeServing, Prelude
<1>. QED BY <1>3, <1>4, <1>5, <1>6, <1>7, <1>8, <1>9, <1>10, <1>11, Survived

-----------------------------------------------------------------------------
(* Discovery: the channels' handlers, and what comes of them.              *)

\* Every step keeps discovery before the channels.
LEMMA DiscoveryKept ==
    ASSUME Types, Alive, Next, ended' = "no"
    PROVE  Discovery'
<1>1. Discovery
  BY DEF Alive
<1>2. ASSUME Discovered' => Discovered \/ Answer \in took, took \subseteq took',
             Answer \in (Pending \union took)' => Answer \in Pending \union took,
             handlers' = handlers, stage' = "discover" => stage = "discover", todo' = todo
      PROVE  Discovery'
  BY <1>1, <1>2 DEF Discovery, AllMade
<1>3. CASE PhoneTakes
  <2>1. PICK m \in ClientMsg : TakenByPhone(m)
    BY <1>3, PhoneTaking
  <2>2. m \in Pending /\ OnWire' \subseteq OnWire /\ Pending' \subseteq Pending
    BY <2>1 DEF Pending, TakenByPhone
  <2>3. Answer \in took' \/ Answer \in Pending' => Answer \in Pending \union took
    BY <2>1, <2>2, Kept DEF TakenByPhone
  <2>4. (Pending \union took)' \intersect Opened # {} => (Pending \union took) \intersect Opened # {}
    BY <2>1, <2>2, Kept DEF TakenByPhone
  <2>5. Elements(fromPhone') \intersect OfChannels # {} =>
            Elements(fromPhone) \intersect OfChannels # {} \/ m \in Opened
    <3>1. ASSUME NEW x \in PhoneMsg, fromPhone' = Append(fromPhone, x), x \in OfChannels => m \in Opened
          PROVE  Elements(fromPhone') \intersect OfChannels # {} =>
                    Elements(fromPhone) \intersect OfChannels # {} \/ m \in Opened
      <4>1. Elements(fromPhone') = Elements(fromPhone) \union {x}
        BY <3>1, PhoneQueue
      <4>. QED BY <3>1, <4>1
    <3>. QED BY <2>1, <3>1 DEF TakenByPhone
  <2>6. Discovered' => Discovered
    BY <2>1, <2>2, <2>4, <2>5 DEF Discovered, TakenByPhone
  <2>. QED BY <1>2, <2>1, <2>3, <2>6 DEF TakenByPhone
<1>4. CASE PhoneOpens \/ PhoneStreams
  <2>1. PICK x \in PhoneMsg : SaidByPhone(x)
    BY <1>4, PhoneSaying
  <2>2. Answer \in took
    <3>1. Msg("video", "VideoFocusIndication") \in took => Discovered
      BY Focus DEF Discovered
    <3>. QED BY <1>1, <2>1, <3>1 DEF SaidByPhone, Discovery
  <2>3. took' = took /\ Pending' = Pending
    BY <2>1 DEF SaidByPhone, Pending, OnWire
  <2>. QED BY <1>2, <2>1, <2>2, <2>3 DEF SaidByPhone
<1>5. CASE Server
  <2>1. /\ UNCHANGED <<took, Pending, handlers, stage, todo>>
        /\ UNCHANGED <<fromPhone, sends, source, media>>
    BY <1>5, ServerSaying DEF Pending, OnWire
  <2>. QED BY <1>2, <2>1 DEF Discovered
<1>6. CASE SendVersionRequest \/ ExpectVersionResponse \/ DoSslHandshake \/ SendAuthComplete
  <2>1. UNCHANGED <<took, OnWire, inHand, media, sends, source, handlers, todo>>
    BY <1>6, Handshaking, MainLeaves DEF Main, OnWire, SendVersionRequest, SendAuthComplete
  <2>2. Elements(fromPhone') \subseteq Elements(fromPhone) /\ stage' \in {"version", "handshake", "auth", "serve"}
    BY <1>6, Handshaking DEF SendVersionRequest, SendAuthComplete
  <2>3. \/ sendQueue' = sendQueue
        \/ SendMessage(Control("VersionRequest"))
        \/ SendMessage(Control("SslHandshake"))
        \/ SendMessage(Auth)
    BY <1>6, Handshaking DEF SendVersionRequest, SendAuthComplete, Auth
  <2>4. Pending' = Pending \/ \E m \in ClientMsg : Pending' = Pending \union {m} /\ m \notin Opened /\ m # Answer
    BY <2>1, <2>3, Sends, Handshakes, Messages, VersionAsked DEF Pending
  <2>. QED BY <1>2, <2>1, <2>2, <2>4 DEF Discovered
<1>7. CASE HandleMessage
  <2>1. PICK m \in PhoneMsg : Handled(m)
    BY <1>7, Handling
  <2>2. UNCHANGED <<took, OnWire, inHand, media, Pending>>
    BY <1>7, <2>1, MainLeaves DEF Main, OnWire, Pending, Handled
  <2>3. CASE m \in OfChannels
    <3>1. Discovered /\ stage' = stage /\ todo' = todo /\ stage = "serve"
      BY <2>1, <2>3, Messages DEF Handled, Discovered
    <3>. QED BY <1>1, <1>2, <2>1, <2>2, <3>1 DEF Handled, Discovery
  <2>4. CASE m \notin OfChannels
    <3>1. todo' = Offered /\ UNCHANGED <<sends, source, handlers>>
          /\ Elements(fromPhone') \subseteq Elements(fromPhone)
      BY <2>1, <2>4 DEF Handled
    <3>2. Discovered' => Discovered
      BY <2>2, <3>1 DEF Discovered
    <3>3. \A ch \in Channels \ Offered : handlers'[ch] # "none"
      BY <3>1 DEF Types, Channels
    <3>. QED BY <1>1, <2>2, <3>1, <3>2, <3>3 DEF Discovery, AllMade
  <2>. QED BY <2>3, <2>4
<1>8. CASE Send
  <2>1. PICK m \in Replies : SentOn(m)
    BY <1>8, Sending
  <2>2. UNCHANGED <<took, OnWire, inHand, media>>
    BY <1>8, MainLeaves DEF Main, OnWire
  <2>3. Pending' = Pending \/ Pending' = Pending \union {m}
    BY <2>1, <2>2, Sends, Messages DEF Pending, SentOn
  <2>4. Discovered /\ m # Answer
    BY <2>1, Messages DEF SentOn, Discovered
  <2>. QED BY <1>1, <1>2, <2>1, <2>2, <2>3, <2>4 DEF SentOn, Discovery
<1>9. CASE SetUpChannel
  <2>1. UNCHANGED <<took, OnWire, inHand, media, fromPhone, sends>> /\ stage = "discover"
    BY <1>9, MainLeaves, SettingUp DEF Main, OnWire
  <2>2. CASE todo = {} /\ SendMessage(Answer) /\ stage' = "serve" /\ UNCHANGED <<todo, source, handlers>>
    <3>1. Pending' = Pending \union {Answer}
      BY <2>1, <2>2, Sends, Messages DEF Pending
    <3>2. Discovered' => Discovered
      BY <2>1, <2>2, <3>1, Messages DEF Discovered
    <3>3. AllMade'
      BY <1>1, <2>1, <2>2 DEF Discovery, AllMade
    <3>. QED BY <1>1, <2>1, <2>2, <3>2, <3>3 DEF Discovery
  <2>3. ASSUME NEW ch \in todo, NEW new \in {"made", "answers", "wired"},
               handlers' = [handlers EXCEPT ![ch] = new], todo' \in {todo, todo \ {ch}}, source' => source,
               UNCHANGED <<stage, sendQueue>>
        PROVE  Discovery'
    <3>1. UNCHANGED Pending
      BY <2>1, <2>3 DEF Pending
    <3>2. Discovered' => Discovered
      BY <2>1, <2>3, <3>1 DEF Discovered
    <3>3. \A c \in Channels : handlers'[c] = IF c = ch THEN new ELSE handlers[c]
      BY <2>3 DEF Types
    <3>. QED BY <1>1, <2>1, <2>3, <3>1, <3>2, <3>3 DEF Discovery, AllMade
  <2>. QED BY <1>9, <2>2, <2>3, SettingUp
<1>10. CASE Relay
  <2>1. PICK m \in ServerMsg : PassedOn(m)
    BY <1>10, Relaying
  <2>2. m \in ClientMsg /\ m \notin Opened /\ m # Answer
    BY FromServer
  <2>3. UNCHANGED <<took, OnWire, inHand, media, fromPhone, sends, source, stage, todo, handlers>>
    BY <2>1 DEF PassedOn, OnWire
  <2>4. Pending' = Pending \/ Pending' = Pending \union {m}
    BY <2>1, <2>2, <2>3, Sends DEF Pending, PassedOn
  <2>. QED BY <1>2, <2>2, <2>3, <2>4 DEF Discovered
<1>11. CASE WriteToUsb \/ WriteFails
  <2>1. PICK m \in ClientMsg : Written(m)
    BY <1>11, Writing
  <2>2. OnWire' = OnWire \/ OnWire' = OnWire \union {m}
    BY <2>1, Arriving DEF Written, OnWire
  <2>3. Pending' \subseteq Pending
    BY <2>1, <2>2 DEF Written, Pending
  <2>. QED BY <1>2, <2>1, <2>3 DEF Written, Discovered
<1>12. CASE Retry
  <2>1. PICK m \in ClientMsg : Tried(m)
    BY <1>12, Retrying
  <2>2. OnWire' = OnWire \union {m}
    BY <2>1, Arriving DEF Tried
  <2>3. Pending' \subseteq Pending
    BY <2>1, <2>2 DEF Tried, Pending
  <2>. QED BY <1>2, <2>1, <2>3 DEF Tried, Discovered
<1>. QED BY <1>3, <1>4, <1>5, <1>6, <1>7, <1>8, <1>9, <1>10, <1>11, <1>12, Survived

-----------------------------------------------------------------------------
(* Authentication comes once, and before the answer.                       *)

\* As AuthOnce says, of the queue q and the other places.
Fresh(q) ==
    /\ Auth \notin OnWire \union Elements(inHand) \union took
    /\ Answer \notin OnWire \union Elements(inHand) \union Elements(q) \union took
    /\ Question \notin Elements(fromPhone)
Once(q) == \A i, j \in 1..Len(q) : q[i] = Auth /\ q[j] = Auth => i = j

\* A message more, and authentication is still there at most once.
LEMMA OnceAppended ==
    ASSUME NEW q \in Seq(ClientMsg), NEW m \in ClientMsg, Once(q), m = Auth => Auth \notin Elements(q)
    PROVE  Once(Append(q, m))
<1>. DEFINE r == Append(q, m)
<1>1. /\ \A i \in 1..Len(q) : r[i] = q[i] /\ q[i] \in Elements(q)
      /\ r[Len(q) + 1] = m /\ Len(r) = Len(q) + 1
      /\ \A i \in 1..Len(q) + 1 : i \in 1..Len(q) \/ i = Len(q) + 1
  BY Appended, ElementsOf
<1>. HIDE DEF r
<1>2. Once(r)
  BY <1>1 DEF Once
<1>. QED BY <1>2 DEF r

\* The same, of sendQueue.
LEMMA OnceSent ==
    ASSUME Types, Once(sendQueue), NEW m \in ClientMsg, m # Auth, sendQueue' = sendQueue \/ SendMessage(m)
    PROVE  Once(sendQueue') /\ Elements(sendQueue') \subseteq Elements(sendQueue) \union {m}
<1>1. CASE sendQueue' = sendQueue
  BY <1>1
<1>2. CASE SendMessage(m)
  <2>1. sendQueue \in Seq(ClientMsg)
    BY DEF Types
  <2>2. Once(Append(sendQueue, m))
    BY <2>1, OnceAppended
  <2>3. Elements(Append(sendQueue, m)) = Elements(sendQueue) \union {m}
    BY <2>1, Appended
  <2>. QED BY <1>2, <2>2, <2>3 DEF SendMessage
<1>. QED BY <1>1, <1>2

\* The first message taken: were it the authentication, there is none left.
LEMMA OnceTaken ==
    ASSUME NEW q \in Seq(ClientMsg), q # <<>>, Once(q)
    PROVE  Once(Tail(q)) /\ (q[1] = Auth => Auth \notin Elements(Tail(q)))
<1>1. /\ \A i \in 1..Len(Tail(q)) : Tail(q)[i] = q[i + 1] /\ i + 1 \in 1..Len(q) /\ 1 < i + 1
      /\ 1 \in 1..Len(q)
  BY Taken
<1>2. \A i, j \in 1..Len(Tail(q)) : i + 1 = j + 1 => i = j
  OBVIOUS
<1>3. Once(Tail(q))
  BY <1>1, <1>2 DEF Once
<1>4. q[1] = Auth => Auth \notin Elements(Tail(q))
  BY <1>1 DEF Once, Elements
<1>. QED BY <1>3, <1>4

\* Every step keeps authentication single, and fresh until it leaves the queue.
LEMMA AuthOnceKept ==
    ASSUME Types, Alive, Next, ended' = "no"
    PROVE  AuthOnce'
<1>1. /\ Once(sendQueue)
      /\ stage \in Prelude \/ Auth \in Elements(sendQueue) => stage # "discover" /\ Fresh(sendQueue)
      /\ stage \in Prelude => Auth \notin Elements(sendQueue)
  BY DEF Alive, AuthOnce, Once, Fresh, Pending
<1>2. ASSUME Once(sendQueue)',
             (stage \in Prelude \/ Auth \in Elements(sendQueue) => stage # "discover" /\ Fresh(sendQueue))',
             (stage \in Prelude => Auth \notin Elements(sendQueue))'
      PROVE  AuthOnce'
  BY <1>2 DEF AuthOnce, Once, Fresh, Pending
<1>3. sendQueue \in Seq(ClientMsg)
  BY DEF Types
<1>4. CASE PhoneTakes
  <2>1. PICK m \in ClientMsg : TakenByPhone(m)
    BY <1>4, PhoneTaking
  <2>2. UNCHANGED <<sendQueue, stage, inHand>>
    BY <2>1 DEF TakenByPhone
  <2>3. ASSUME Fresh(sendQueue) PROVE Fresh(sendQueue)'
    <3>1. m # Auth /\ m # Answer /\ OnWire' \subseteq OnWire
      BY <2>1, <2>3 DEF Fresh, TakenByPhone
    <3>2. Auth \notin took' /\ Answer \notin took'
      BY <2>1, <2>3, <3>1, Kept DEF Fresh, TakenByPhone
    <3>3. ASSUME NEW x \in PhoneMsg, fromPhone' = Append(fromPhone, x), x = Question => m = Auth
          PROVE  Question \notin Elements(fromPhone')
      <4>1. Elements(fromPhone') = Elements(fromPhone) \union {x}
        BY <3>3, PhoneQueue
      <4>. QED BY <2>3, <3>1, <3>3, <4>1 DEF Fresh
    <3>4. Question \notin Elements(fromPhone')
      BY <2>1, <2>3, <3>3 DEF Fresh, TakenByPhone
    <3>. QED BY <2>2, <2>3, <3>1, <3>2, <3>4 DEF Fresh
  <2>. QED BY <1>1, <1>2, <2>2, <2>3
<1>5. CASE PhoneOpens \/ PhoneStreams
  <2>1. PICK x \in PhoneMsg : SaidByPhone(x)
    BY <1>5, PhoneSaying
  <2>2. Elements(fromPhone') = Elements(fromPhone) \union {x} /\ x # Question
    BY <2>1, PhoneQueue DEF SaidByPhone
  <2>3. UNCHANGED <<sendQueue, stage, OnWire, inHand, took>>
    BY <2>1 DEF SaidByPhone, OnWire
  <2>. QED BY <1>1, <1>2, <2>2, <2>3 DEF Fresh
<1>6. CASE Server
  <2>1. UNCHANGED <<sendQueue, stage, OnWire, inHand, took, fromPhone>>
    BY <1>6, ServerSaying DEF OnWire
  <2>. QED BY <1>1, <1>2, <2>1 DEF Fresh
<1>7. CASE SendVersionRequest \/ ExpectVersionResponse \/ DoSslHandshake
  <2>1. UNCHANGED <<OnWire, inHand, took>> /\ Elements(fromPhone') \subseteq Elements(fromPhone)
        /\ stage \in Prelude /\ stage' # "discover"
    BY <1>7, Handshaking, MainLeaves DEF Main, SendVersionRequest, OnWire, Prelude
  <2>0. Control("SslHandshake") \in ClientMsg /\ Control("VersionRequest") \in ClientMsg
        /\ Control("SslHandshake") \notin {Auth, Answer} /\ Control("VersionRequest") \notin {Auth, Answer}
    BY Handshakes, VersionAsked
  <2>2. sendQueue' = sendQueue \/ SendMessage(Control("SslHandshake")) \/ SendMessage(Control("VersionRequest"))
    BY <1>7, Handshaking DEF SendVersionRequest
  <2>3. PICK m \in ClientMsg : m # Auth /\ m # Answer /\ (sendQueue' = sendQueue \/ sendQueue' = Append(sendQueue, m))
    BY <2>0, <2>2 DEF SendMessage
  <2>4. Once(sendQueue') /\ Elements(sendQueue') \subseteq Elements(sendQueue) \union {m}
    BY <1>1, <2>3, OnceSent DEF SendMessage
  <2>. QED BY <1>1, <1>2, <2>1, <2>3, <2>4 DEF Fresh, Once
<1>8. CASE SendAuthComplete
  <2>1. UNCHANGED <<OnWire, inHand, took, fromPhone>> /\ stage = "auth" /\ stage' = "serve"
        /\ sendQueue' = Append(sendQueue, Auth)
    BY <1>8, MainLeaves DEF Main, OnWire, SendAuthComplete, SendMessage, Auth
  <2>2. Fresh(sendQueue) /\ Auth \notin Elements(sendQueue)
    BY <1>1, <2>1 DEF Prelude
  <2>3. Once(sendQueue') /\ Elements(sendQueue') = Elements(sendQueue) \union {Auth}
    BY <1>1, <1>3, <2>1, <2>2, Messages, OnceAppended, Appended
  <2>. QED BY <1>1, <1>2, <2>1, <2>2, <2>3, Messages DEF Fresh, Once, Prelude
<1>9. CASE HandleMessage
  <2>1. PICK m \in PhoneMsg : Handled(m)
    BY <1>9, Handling
  <2>2. UNCHANGED <<sendQueue, OnWire, inHand, took>> /\ stage' \notin Prelude
        /\ Elements(fromPhone') \subseteq Elements(fromPhone)
    BY <1>9, <2>1, MainLeaves DEF Main, OnWire, Handled, Prelude
  <2>3. Auth \in Elements(sendQueue) => stage' # "discover"
    BY <1>1, <2>1 DEF Fresh, Handled
  <2>. QED BY <1>1, <1>2, <2>2, <2>3 DEF Fresh
<1>10. CASE Send
  <2>1. PICK m \in Replies : SentOn(m)
    BY <1>10, Sending
  <2>2. UNCHANGED <<OnWire, inHand, took, fromPhone, stage>>
    BY <1>10, <2>1, MainLeaves DEF Main, OnWire, SentOn
  <2>3. m \in ClientMsg /\ m # Auth /\ m # Answer
    BY Messages
  <2>4. Once(sendQueue') /\ Elements(sendQueue') \subseteq Elements(sendQueue) \union {m}
    BY <1>1, <2>1, <2>3, OnceSent DEF SentOn
  <2>. QED BY <1>1, <1>2, <2>2, <2>3, <2>4 DEF Fresh
<1>11. CASE SetUpChannel
  <2>1. UNCHANGED <<OnWire, inHand, took, fromPhone>> /\ stage = "discover" /\ stage' \in {"serve", "discover"}
    BY <1>11, MainLeaves, SettingUp DEF Main, OnWire
  <2>2. sendQueue' = sendQueue \/ sendQueue' = Append(sendQueue, Answer)
    BY <1>11, SettingUp DEF SendMessage
  <2>3. Once(sendQueue') /\ Elements(sendQueue') \subseteq Elements(sendQueue) \union {Answer}
    BY <1>1, <2>2, Messages, OnceSent DEF SendMessage
  <2>4. Auth \notin Elements(sendQueue')
    BY <1>1, <2>1, <2>3, Messages
  <2>. QED BY <1>2, <2>1, <2>3, <2>4 DEF Prelude
<1>12. CASE Relay
  <2>1. PICK m \in ServerMsg : PassedOn(m)
    BY <1>12, Relaying
  <2>2. UNCHANGED <<OnWire, inHand, took, fromPhone, stage>>
    BY <2>1 DEF OnWire, PassedOn
  <2>3. m \in ClientMsg /\ m # Auth /\ m # Answer
    BY FromServer
  <2>4. Once(sendQueue') /\ Elements(sendQueue') \subseteq Elements(sendQueue) \union {m}
    BY <1>1, <2>1, <2>3, OnceSent DEF PassedOn
  <2>. QED BY <1>1, <1>2, <2>2, <2>3, <2>4 DEF Fresh
<1>13. CASE WriteToUsb \/ WriteFails
  <2>1. PICK m \in ClientMsg : Written(m)
    BY <1>13, Writing
  <2>2. Once(sendQueue') /\ (m = Auth => Auth \notin Elements(sendQueue'))
    BY <1>1, <1>3, <2>1, OnceTaken DEF Written
  <2>3. OnWire' = OnWire \/ OnWire' = OnWire \union {m}
    BY <2>1, Arriving DEF Written, OnWire
  <2>4. Elements(sendQueue) = {m} \union Elements(sendQueue') /\ Elements(inHand') \subseteq {m}
        /\ UNCHANGED <<took, fromPhone, stage>>
    BY <2>1 DEF Written
  <2>5. ASSUME Fresh(sendQueue), m # Auth PROVE Fresh(sendQueue)'
    <3>1. m # Answer
      BY <2>4, <2>5 DEF Fresh
    <3>. QED BY <2>3, <2>4, <2>5, <3>1 DEF Fresh
  <2>. QED BY <1>1, <1>2, <2>2, <2>4, <2>5
<1>14. CASE Retry
  <2>1. PICK m \in ClientMsg : Tried(m)
    BY <1>14, Retrying
  <2>2. OnWire' = OnWire \union {m} /\ Elements(inHand) = {m} /\ Elements(inHand') = {}
        /\ UNCHANGED <<took, fromPhone, stage, sendQueue>>
    BY <2>1, Arriving DEF Tried
  <2>3. Fresh(sendQueue) => Fresh(sendQueue)'
    BY <2>2 DEF Fresh
  <2>. QED BY <1>1, <1>2, <2>2, <2>3
<1>. QED BY <1>4, <1>5, <1>6, <1>7, <1>8, <1>9, <1>10, <1>11, <1>12, <1>13, <1>14, Survived

\* A message more behind those on the wire.
LEMMA TurnAppended ==
    ASSUME NEW w \in Seq(Arrival), NEW a \in Arrival, InTurn(w), a.msg = Auth => Answer \notin Msgs(w)
    PROVE  InTurn(Append(w, a))
<1>. DEFINE r == Append(w, a)
<1>1. /\ \A i \in 1..Len(w) : r[i] = w[i]
      /\ r[Len(w) + 1] = a /\ Len(r) = Len(w) + 1 /\ Len(w) \in Nat
  BY Appended
<1>2. \A i, j \in 1..Len(w) + 1 : i < j => i \in 1..Len(w) /\ (j \in 1..Len(w) \/ j = Len(w) + 1)
  BY <1>1
<1>3. \A i \in 1..Len(w) : w[i].msg \in Msgs(w)
  BY DEF Msgs
<1>. HIDE DEF r
<1>4. InTurn(r)
  BY <1>1, <1>2, <1>3 DEF InTurn
<1>. QED BY <1>4 DEF r

\* The first message off the wire: were it the answer, authentication is through.
LEMMA TurnTaken ==
    ASSUME NEW w \in Seq(Arrival), w # <<>>, InTurn(w)
    PROVE  InTurn(Tail(w)) /\ (w[1].msg = Answer => Auth \notin Msgs(Tail(w)))
<1>1. /\ \A i \in 1..Len(Tail(w)) : Tail(w)[i] = w[i + 1] /\ i + 1 \in 1..Len(w) /\ 1 < i + 1
      /\ \A i, j \in 1..Len(Tail(w)) : i < j => i + 1 < j + 1
      /\ 1 \in 1..Len(w)
  BY Taken
<1>2. InTurn(Tail(w))
  BY <1>1 DEF InTurn
<1>3. w[1].msg = Answer => Auth \notin Msgs(Tail(w))
  BY <1>1 DEF InTurn, Msgs
<1>. QED BY <1>2, <1>3

\* Every step keeps authentication before the answer.
LEMMA AuthFirstKept ==
    ASSUME Types, Alive, Next, ended' = "no"
    PROVE  AuthFirst'
<1>1. AuthFirst /\ wire \in Seq(Arrival)
  BY DEF Alive, Types
<1>2. Auth \in Elements(sendQueue) => Answer \notin OnWire \union Elements(sendQueue) \union took
  BY DEF Alive, AuthOnce, Pending
<1>3. CASE PhoneTakes
  <2>1. PICK m \in ClientMsg : TakenByPhone(m)
    BY <1>3, PhoneTaking
  <2>2. OnWire = {m} \union OnWire' /\ took' \subseteq took \union {Msg(m.ch, m.type)} /\ inHand' = inHand
    BY <2>1 DEF TakenByPhone
  <2>3. InTurn(wire') /\ (m = Answer => Auth \notin OnWire')
    BY <1>1, <2>1, TurnTaken DEF TakenByPhone, OnWire, AuthFirst
  <2>4. Answer \in took' => Answer \in took \/ m = Answer
    BY <2>2, Kept
  <2>. QED BY <1>1, <2>2, <2>3, <2>4 DEF AuthFirst
<1>4. CASE WriteToUsb \/ WriteFails
  <2>1. PICK m \in ClientMsg : Written(m)
    BY <1>4, Writing
  <2>2. /\ UNCHANGED took /\ Elements(inHand') \subseteq {m} /\ Elements(inHand) = {}
        /\ m = Auth => Answer \notin OnWire \union took
    BY <1>2, <2>1 DEF Written
  <2>3. CASE Arrive(m, FALSE)
    <3>1. wire' = Append(wire, [msg |-> m, again |-> FALSE]) /\ OnWire' = OnWire \union {m}
          /\ [msg |-> m, again |-> FALSE] \in Arrival
      BY <2>3, Arriving
    <3>2. [msg |-> m, again |-> FALSE].msg = m
      OBVIOUS
    <3>3. InTurn(wire')
      BY <1>1, <2>2, <3>1, <3>2, TurnAppended DEF AuthFirst, OnWire
    <3>. QED BY <1>1, <2>2, <3>1, <3>3, Messages DEF AuthFirst
  <2>4. CASE wire' = wire
    BY <1>1, <2>2, <2>4 DEF AuthFirst, OnWire
  <2>. QED BY <2>1, <2>3, <2>4 DEF Written
<1>5. CASE Retry
  <2>1. PICK m \in ClientMsg : Tried(m)
    BY <1>5, Retrying
  <2>2. /\ UNCHANGED took /\ Elements(inHand') = {} /\ Elements(inHand) = {m} /\ arrived \in BOOLEAN
        /\ Arrive(m, arrived)
    BY <2>1 DEF Tried
  <2>3. wire' = Append(wire, [msg |-> m, again |-> arrived]) /\ OnWire' = OnWire \union {m}
        /\ [msg |-> m, again |-> arrived] \in Arrival
    BY <2>2, Arriving
  <2>4. [msg |-> m, again |-> arrived].msg = m
    OBVIOUS
  <2>5. InTurn(wire')
    BY <1>1, <2>2, <2>3, <2>4, TurnAppended DEF AuthFirst, OnWire
  <2>. QED BY <1>1, <2>2, <2>3, <2>5 DEF AuthFirst
<1>6. CASE UNCHANGED <<wire, inHand, took>>
  BY <1>1, <1>6 DEF AuthFirst, OnWire
<1>7. CASE Server \/ PhoneOpens \/ PhoneStreams \/ Main \/ Relay
  <2>1. UNCHANGED <<wire, inHand, took>>
    BY <1>7, ServerSaying, PhoneSaying, MainLeaves, Relaying DEF SaidByPhone, PassedOn
  <2>. QED BY <1>6, <2>1
<1>. QED BY <1>3, <1>4, <1>5, <1>7, Survived DEF Main

-----------------------------------------------------------------------------
(* Streaming: the pipeline is there when a packet with a time comes.       *)

\* A message more of the phone.
LEMMA StreamAppended ==
    ASSUME NEW q \in Seq(PhoneMsg), NEW x \in PhoneMsg, NEW made \in BOOLEAN,
           NoQuestionBehind(q), x = Question => First \notin Elements(q),
           Timed(q, made), x = Later => made \/ First \in Elements(q)
    PROVE  NoQuestionBehind(Append(q, x)) /\ Timed(Append(q, x), made)
<1>. DEFINE r == Append(q, x)
<1>1. /\ \A i \in 1..Len(q) : r[i] = q[i] /\ q[i] \in Elements(q) /\ i \in 1..Len(q) + 1
      /\ r[Len(q) + 1] = x /\ Len(r) = Len(q) + 1 /\ Len(q) \in Nat
  BY Appended, ElementsOf
<1>2. \A i, j \in 1..Len(q) + 1 : i < j => i \in 1..Len(q) /\ (j \in 1..Len(q) \/ j = Len(q) + 1)
  BY <1>1
<1>3. \A j \in 1..Len(q) + 1 : j \in 1..Len(q) \/ j = Len(q) + 1
  BY <1>1
<1>4. \A i \in 1..Len(q) : i < Len(q) + 1
  BY <1>1
<1>5. First \in Elements(q) => \E i \in 1..Len(q) : q[i] = First
  BY DEF Elements
<1>. HIDE DEF r
<1>6. NoQuestionBehind(r)
  BY <1>1, <1>2 DEF NoQuestionBehind
<1>7. Timed(r, made)
  BY <1>1, <1>3, <1>4, <1>5 DEF Timed
<1>. QED BY <1>6, <1>7 DEF r

\* The phone's first message read: a packet with a time finds the pipeline made.
LEMMA StreamTaken ==
    ASSUME NEW q \in Seq(PhoneMsg), q # <<>>, NEW made \in BOOLEAN, NoQuestionBehind(q), Timed(q, made)
    PROVE  /\ NoQuestionBehind(Tail(q)) /\ Timed(Tail(q), made \/ q[1] = First)
           /\ q[1] = First => Question \notin Elements(Tail(q))
           /\ q[1] = Later => made
<1>1. /\ \A i \in 1..Len(Tail(q)) : Tail(q)[i] = q[i + 1] /\ i + 1 \in 1..Len(q) /\ 1 < i + 1
      /\ \A i, j \in 1..Len(Tail(q)) : i < j => i + 1 < j + 1
      /\ 1 \in 1..Len(q)
  BY Taken
<1>2. NoQuestionBehind(Tail(q))
  BY <1>1 DEF NoQuestionBehind
<1>3. q[1] = First => Question \notin Elements(Tail(q))
  BY <1>1 DEF NoQuestionBehind, Elements
<1>4. q[1] = Later => made
  <2>1. \A i \in 1..Len(q) : ~(i < 1)
    OBVIOUS
  <2>. QED BY <1>1, <2>1 DEF Timed
<1>5. Timed(Tail(q), made \/ q[1] = First)
  <2>1. SUFFICES ASSUME NEW j \in 1..Len(Tail(q)), Tail(q)[j] = Later, ~made, q[1] # First
                 PROVE  \E i \in 1..Len(Tail(q)) : i < j /\ Tail(q)[i] = First
    BY DEF Timed
  <2>2. PICK k \in 1..Len(q) : k < j + 1 /\ q[k] = First
    BY <1>1, <2>1 DEF Timed
  <2>3. k - 1 \in 1..Len(Tail(q)) /\ (k - 1) + 1 = k /\ k - 1 < j
    <3>1. Len(Tail(q)) = Len(q) - 1 /\ Len(q) \in Nat /\ k # 1
      BY <2>1, <2>2, Taken
    <3>. QED BY <2>2, <3>1
  <2>. QED BY <1>1, <2>2, <2>3
<1>. QED BY <1>2, <1>3, <1>4, <1>5

\* Every step keeps the pipeline there for the packets that need it.
LEMMA StreamingKept ==
    ASSUME Types, Alive, Next, ended' = "no"
    PROVE  Streaming'
<1>1. /\ source => stage = "serve" /\ Question \notin Elements(fromPhone)
      /\ media > 0 /\ ~source => First \in Elements(fromPhone)
      /\ NoQuestionBehind(fromPhone) /\ Timed(fromPhone, source)
  BY DEF Alive, Streaming
<1>2. fromPhone \in Seq(PhoneMsg) /\ source \in BOOLEAN /\ media \in Nat
  BY DEF Types
<1>3. Discovered => Answer \in took
  BY DEF Alive, Discovery
<1>4. CASE PhoneTakes
  <2>1. PICK m \in ClientMsg : TakenByPhone(m)
    BY <1>4, PhoneTaking
  <2>2. UNCHANGED <<source, stage, media>> /\ m \in OnWire
    BY <2>1 DEF TakenByPhone
  <2>3. m = Auth => ~source /\ First \notin Elements(fromPhone)
    <3>1. m = Auth => Answer \notin took
      BY <2>2 DEF Alive, AuthFirst
    <3>2. First \in Elements(fromPhone) => Discovered
      BY Messages DEF Discovered
    <3>. QED BY <1>3, <3>1, <3>2 DEF Discovered
  <2>4. ASSUME NEW x \in PhoneMsg, fromPhone' = Append(fromPhone, x),
               x # First, x # Later, x = Question => m = Auth
        PROVE  Streaming'
    <3>1. Elements(fromPhone') = Elements(fromPhone) \union {x}
      BY <2>4, PhoneQueue
    <3>2. NoQuestionBehind(fromPhone') /\ Timed(fromPhone', source)
      BY <1>1, <1>2, <2>3, <2>4, StreamAppended
    <3>. QED BY <1>1, <2>2, <2>3, <2>4, <3>1, <3>2 DEF Streaming
  <2>5. CASE fromPhone' = fromPhone
    BY <1>1, <2>2, <2>5 DEF Streaming
  <2>. QED BY <2>1, <2>4, <2>5 DEF TakenByPhone
<1>5. CASE PhoneOpens \/ PhoneStreams
  <2>1. PICK x \in PhoneMsg : SaidByPhone(x)
    BY <1>5, PhoneSaying
  <2>2. /\ UNCHANGED <<source, stage>> /\ fromPhone' = Append(fromPhone, x) /\ x # Question
        /\ \/ x \notin Packet /\ media' = media
           \/ x = (IF media = 0 THEN First ELSE Later) /\ media' = media + 1
    BY <2>1 DEF SaidByPhone
  <2>3. Elements(fromPhone') = Elements(fromPhone) \union {x}
    BY <2>2, PhoneQueue
  <2>4. media # 0 => media > 0
    BY <1>2
  <2>5. x = Later => source \/ First \in Elements(fromPhone)
    BY <1>1, <2>2, <2>4, Messages
  <2>6. NoQuestionBehind(fromPhone') /\ Timed(fromPhone', source)
    BY <1>1, <1>2, <2>2, <2>5, StreamAppended
  <2>7. media' > 0 /\ ~source => First \in Elements(fromPhone')
    BY <1>1, <2>2, <2>3, <2>4
  <2>. QED BY <1>1, <2>2, <2>3, <2>6, <2>7 DEF Streaming
<1>6. CASE ExpectVersionResponse \/ DoSslHandshake
  <2>1. /\ stage \in Prelude /\ UNCHANGED <<source, media>> /\ fromPhone' = Tail(fromPhone) /\ fromPhone # <<>>
        /\ Elements(fromPhone') \subseteq Elements(fromPhone)
    BY <1>6, Handshaking, MainLeaves DEF Main, Prelude
  <2>2. ~source /\ ~(media > 0)
    <3>1. Answer \notin took
      BY <2>1 DEF Alive, AuthOnce
    <3>. QED BY <1>3, <3>1 DEF Discovered
  <2>3. NoQuestionBehind(fromPhone') /\ Timed(fromPhone', source)
    <3>1. First \notin Elements(fromPhone)
      <4>1. Answer \notin took
        BY <2>1 DEF Alive, AuthOnce
      <4>. QED BY <1>3, <4>1, Messages DEF Discovered
    <3>2. 1 \in 1..Len(fromPhone) /\ fromPhone[1] \in Elements(fromPhone)
      BY <1>2, <2>1, Taken, ElementsOf
    <3>. QED BY <1>1, <1>2, <2>1, <3>1, <3>2, StreamTaken
  <2>. QED BY <2>1, <2>2, <2>3 DEF Streaming
<1>7. CASE SendVersionRequest \/ SendAuthComplete
  <2>1. stage \in {"start", "auth"} /\ UNCHANGED <<source, media, fromPhone>>
    BY <1>7, MainLeaves DEF Main, SendVersionRequest, SendAuthComplete
  <2>. QED BY <1>1, <2>1 DEF Streaming
<1>8. CASE HandleMessage
  <2>1. PICK m \in PhoneMsg : Handled(m)
    BY <1>8, Handling
  <2>2. /\ m = fromPhone[1] /\ fromPhone # <<>> /\ fromPhone' = Tail(fromPhone) /\ media' = media
        /\ Elements(fromPhone) = {m} \union Elements(fromPhone') /\ stage = "serve"
    BY <1>8, <2>1, MainLeaves DEF Main, Handled
  <2>3. /\ NoQuestionBehind(fromPhone') /\ Timed(fromPhone', source \/ m = First)
        /\ m = First => Question \notin Elements(fromPhone')
    BY <1>1, <1>2, <2>2, StreamTaken
  <2>4. CASE m = Question /\ source' = source
    <3>1. ~source /\ m # First
      BY <1>1, <2>2, <2>4, Messages
    <3>2. Timed(fromPhone', source)
      BY <2>3, <3>1 DEF Timed
    <3>. QED BY <1>1, <2>2, <2>3, <2>4, <3>1, <3>2 DEF Streaming
  <2>5. CASE source' = (source \/ m = First) /\ stage' = stage
    BY <1>1, <2>2, <2>3, <2>5 DEF Streaming
  <2>. QED BY <2>1, <2>4, <2>5 DEF Handled
<1>9. CASE SetUpChannel
  <2>1. stage = "discover" /\ UNCHANGED <<fromPhone, media>> /\ (source' => source)
    BY <1>9, SettingUp, MainLeaves DEF Main
  <2>2. ~source /\ ~source'
    BY <1>1, <2>1
  <2>3. Timed(fromPhone', source')
    BY <1>1, <2>1, <2>2 DEF Timed
  <2>. QED BY <1>1, <2>1, <2>2, <2>3 DEF Streaming
<1>10. CASE Server \/ Send \/ Relay \/ WriteToUsb \/ WriteFails \/ Retry
  <2>1. UNCHANGED <<source, stage, media, fromPhone>>
    BY <1>10, ServerSaying, Sending, MainLeaves, Relaying, Writing, Retrying
    DEF Main, SentOn, PassedOn, Written, Tried
  <2>. QED BY <1>1, <2>1 DEF Streaming
<1>. QED BY <1>4, <1>5, <1>6, <1>7, <1>8, <1>9, <1>10, Survived

-----------------------------------------------------------------------------
(* The server's messages stay in order.                                    *)

\* A reply of main's own, which has no number, comes into the queue.
LEMMA PlacedReply ==
    ASSUME NEW r \in Nat, NEW Q \in SUBSET ClientMsg, NEW H \in SUBSET ClientMsg, NEW P \in SUBSET Nat,
           NEW L \in SUBSET Nat, NEW twice \in BOOLEAN, NEW m \in ClientMsg, m.nr = 0,
           Placed(r, Q, H, P, twice, L)
    PROVE  Placed(r, Q \union {m}, H, P, twice, L)
  BY DEF Placed, ClientMsg

\* The next message of the server comes into the queue.
LEMMA PlacedNext ==
    ASSUME NEW r \in Nat, NEW Q \in SUBSET ClientMsg, NEW H \in SUBSET ClientMsg, NEW P \in SUBSET Nat,
           NEW L \in SUBSET Nat, NEW twice \in BOOLEAN, NEW m \in ClientMsg, m.nr = r + 1,
           Placed(r, Q, H, P, twice, L)
    PROVE  Placed(r + 1, Q \union {m}, H, P, twice, L)
<1>1. \A x \in Q \union H : x.nr \in Nat
  BY DEF ClientMsg
<1>2. \A n \in 1..(r + 1) : n \in 1..r \/ n = r + 1
  OBVIOUS
<1>3. \A x \in (Q \union {m}) \union H : x.nr <= r + 1
  BY <1>1 DEF Placed
<1>4. \A x \in Q \union {m} : x.nr > 0 => (\A n \in P : n < x.nr) /\ (\A h \in H : h.nr < x.nr)
  BY <1>1 DEF Placed
<1>5. \A n \in P \union L : n \in 1..(r + 1)
  BY DEF Placed
<1>6. \A n \in 1..(r + 1) : n \in P \union L \/ \E x \in (Q \union {m}) \union H : x.nr = n
  BY <1>2 DEF Placed
<1>. QED BY <1>3, <1>4, <1>5, <1>6 DEF Placed

\* Or it is dropped.
LEMMA PlacedLost ==
    ASSUME NEW r \in Nat, NEW Q \in SUBSET ClientMsg, NEW H \in SUBSET ClientMsg, NEW P \in SUBSET Nat,
           NEW L \in SUBSET Nat, NEW twice \in BOOLEAN, Placed(r, Q, H, P, twice, L)
    PROVE  Placed(r + 1, Q, H, P, twice, L \union {r + 1})
<1>1. \A x \in Q \union H : x.nr \in Nat
  BY DEF ClientMsg
<1>2. \A n \in 1..(r + 1) : n \in 1..r \/ n = r + 1
  OBVIOUS
<1>3. \A x \in Q \union H : x.nr <= r + 1
  BY <1>1 DEF Placed
<1>4. \A n \in P \union (L \union {r + 1}) : n \in 1..(r + 1)
  BY DEF Placed
<1>5. \A n \in 1..(r + 1) : n \in P \union (L \union {r + 1}) \/ \E x \in Q \union H : x.nr = n
  BY <1>2 DEF Placed
<1>. QED BY <1>3, <1>4, <1>5 DEF Placed

\* What has passed when m has reached the phone.
Passed(P, m) == IF m.nr = 0 THEN P ELSE P \union {m.nr}

\* m leaves the queue: for the phone, for the hand, or for both.
LEMMA PlacedWritten ==
    ASSUME NEW r \in Nat, NEW Q \in SUBSET ClientMsg, NEW P \in SUBSET Nat, NEW L \in SUBSET Nat,
           NEW m \in ClientMsg, Placed(r, {m} \union Q, {}, P, FALSE, L),
           \A k \in Q : k.nr > 0 => m.nr < k.nr
    PROVE  /\ Placed(r, Q, {}, Passed(P, m), FALSE, L)
           /\ Placed(r, Q, {m}, Passed(P, m), TRUE, L)
           /\ Placed(r, Q, {m}, P, FALSE, L)
<1>1. m.nr \in Nat /\ \A x \in Q : x.nr \in Nat
  BY DEF ClientMsg
<1>2. Placed(r, Q, {m}, P, FALSE, L)
  BY DEF Placed
<1>3. CASE m.nr = 0
  BY <1>1, <1>3 DEF Placed, Passed
<1>4. CASE m.nr # 0
  <2>1. m.nr > 0 /\ Passed(P, m) = P \union {m.nr}
    BY <1>1, <1>4 DEF Passed
  <2>2. Placed(r, Q, {}, P \union {m.nr}, FALSE, L)
    BY <1>1, <2>1 DEF Placed
  <2>3. Placed(r, Q, {m}, P \union {m.nr}, TRUE, L)
    BY <1>1, <2>1 DEF Placed
  <2>. QED BY <1>2, <2>1, <2>2, <2>3
<1>. QED BY <1>2, <1>3, <1>4

\* m leaves the hand.
LEMMA PlacedTried ==
    ASSUME NEW r \in Nat, NEW Q \in SUBSET ClientMsg, NEW P \in SUBSET Nat, NEW L \in SUBSET Nat,
           NEW twice \in BOOLEAN, NEW m \in ClientMsg, Placed(r, Q, {m}, P, twice, L)
    PROVE  Placed(r, Q, {}, IF twice THEN P ELSE Passed(P, m), FALSE, L)
<1>1. m.nr \in Nat /\ \A x \in Q : x.nr \in Nat
  BY DEF ClientMsg
<1>2. CASE m.nr = 0
  BY <1>1, <1>2 DEF Placed, Passed
<1>3. CASE m.nr # 0 /\ twice
  BY <1>1, <1>3 DEF Placed
<1>4. CASE m.nr # 0 /\ ~twice
  <2>1. m.nr > 0 /\ Passed(P, m) = P \union {m.nr}
    BY <1>1, <1>4 DEF Passed
  <2>2. Placed(r, Q, {}, P \union {m.nr}, FALSE, L)
    BY <1>1, <1>4, <2>1 DEF Placed
  <2>. QED BY <1>4, <2>1, <2>2
<1>. QED BY <1>2, <1>3, <1>4

\* A message more, with the highest number if it has one.
LEMMA RisingAppended ==
    ASSUME NEW q \in Seq(ClientMsg), NEW m \in ClientMsg, Rising(q),
           m.nr > 0 => \A x \in Elements(q) : x.nr < m.nr
    PROVE  Rising(Append(q, m))
<1>. DEFINE s == Append(q, m)
<1>1. /\ \A i \in 1..Len(q) : s[i] = q[i] /\ q[i] \in Elements(q)
      /\ s[Len(q) + 1] = m /\ Len(s) = Len(q) + 1 /\ Len(q) \in Nat
  BY Appended, ElementsOf
<1>2. \A i, j \in 1..Len(q) + 1 : i < j => i \in 1..Len(q) /\ (j \in 1..Len(q) \/ j = Len(q) + 1)
  BY <1>1
<1>. HIDE DEF s
<1>3. Rising(s)
  BY <1>1, <1>2 DEF Rising
<1>. QED BY <1>3 DEF s

\* The first message taken: its number is below the others'.
LEMMA RisingTaken ==
    ASSUME NEW q \in Seq(ClientMsg), q # <<>>, Rising(q)
    PROVE  Rising(Tail(q)) /\ \A k \in Elements(Tail(q)) : k.nr > 0 => q[1].nr < k.nr
<1>1. /\ \A i \in 1..Len(Tail(q)) : Tail(q)[i] = q[i + 1] /\ i + 1 \in 1..Len(q) /\ 1 < i + 1
      /\ \A i, j \in 1..Len(Tail(q)) : i < j => i + 1 < j + 1
      /\ 1 \in 1..Len(q) /\ q[1] \in ClientMsg
  BY Taken
<1>2. Rising(Tail(q))
  BY <1>1 DEF Rising
<1>3. q[1].nr = 0 \/ q[1].nr > 0
  BY <1>1 DEF ClientMsg
<1>4. \A k \in Elements(Tail(q)) : k.nr > 0 => q[1].nr < k.nr
  BY <1>1, <1>3 DEF Rising, Elements
<1>. QED BY <1>2, <1>4

\* A number more, above the others.
LEMMA IncreasingAppended ==
    ASSUME NEW p \in Seq(Nat), NEW n \in Nat, Increasing(p), \A x \in Elements(p) : x < n
    PROVE  Increasing(Append(p, n))
<1>. DEFINE s == Append(p, n)
<1>1. /\ \A i \in 1..Len(p) : s[i] = p[i] /\ p[i] \in Elements(p)
      /\ s[Len(p) + 1] = n /\ Len(s) = Len(p) + 1 /\ Len(p) \in Nat
  BY Appended, ElementsOf
<1>2. \A i, j \in 1..Len(p) + 1 : i < j => i \in 1..Len(p) /\ (j \in 1..Len(p) \/ j = Len(p) + 1)
  BY <1>1
<1>. HIDE DEF s
<1>3. Increasing(s)
  BY <1>1, <1>2 DEF Increasing
<1>. QED BY <1>3 DEF s

\* m has reached the phone, again or not.
LEMMA PassedGrows ==
    ASSUME Types, NEW m \in ClientMsg, NEW again \in BOOLEAN, Arrive(m, again),
           Increasing(passed), ~again /\ m.nr > 0 => \A n \in Elements(passed) : n < m.nr
    PROVE  /\ Increasing(passed')
           /\ Elements(passed') = IF again THEN Elements(passed) ELSE Passed(Elements(passed), m)
<1>1. passed \in Seq(Nat) /\ m.nr \in Nat
  BY DEF Types, ClientMsg
<1>2. CASE m.nr = 0 \/ again
  <2>1. passed' = passed
    BY <1>2 DEF Arrive
  <2>. QED BY <1>2, <2>1 DEF Passed
<1>3. CASE m.nr # 0 /\ ~again
  <2>1. passed' = Append(passed, m.nr) /\ m.nr > 0
    BY <1>1, <1>3 DEF Arrive
  <2>2. Increasing(passed') /\ Elements(passed') = Elements(passed) \union {m.nr}
    BY <1>1, <1>3, <2>1, IncreasingAppended, Appended
  <2>. QED BY <1>3, <2>2 DEF Passed
<1>. QED BY <1>2, <1>3

\* Every step keeps the server's messages in order.
LEMMA InOrderKept ==
    ASSUME Types, Alive, Next, ended' = "no"
    PROVE  InOrder'
<1>. DEFINE Q == Elements(sendQueue)
            H == Elements(inHand)
            P == Elements(passed)
<1>1. /\ Len(fromServer) <= said /\ Numbered(fromServer, Relayed)
      /\ Rising(sendQueue) /\ Increasing(passed)
      /\ Placed(Relayed, Q, H, P, arrived, lost)
      /\ (lost # {} => early) /\ (inHand = <<>> => ~arrived)
  BY DEF Alive, InOrder
<1>2. /\ sendQueue \in Seq(ClientMsg) /\ inHand \in Seq(ClientMsg) /\ fromServer \in Seq(ServerMsg)
      /\ passed \in Seq(Nat) /\ lost \in SUBSET Nat /\ said \in Nat /\ arrived \in BOOLEAN
  BY DEF Types
<1>3. Len(fromServer) \in Nat /\ Relayed \in Nat
  BY <1>1, <1>2 DEF Relayed
<1>4. Q \in SUBSET ClientMsg /\ H \in SUBSET ClientMsg /\ P \in SUBSET Nat
  BY <1>2, ElementsOf
<1>. HIDE DEF Q, H, P
<1>5. /\ Relayed \in Nat /\ Q \in SUBSET ClientMsg /\ H \in SUBSET ClientMsg /\ P \in SUBSET Nat
       /\ lost \in SUBSET Nat /\ arrived \in BOOLEAN /\ Placed(Relayed, Q, H, P, arrived, lost)
  BY <1>1, <1>2, <1>3, <1>4
<1>6. \A m \in ClientMsg : m.nr = 0 => Placed(Relayed, Q \union {m}, H, P, arrived, lost)
  BY ONLY <1>5, PlacedReply
<1>7. \A m \in ClientMsg : m.nr = Relayed + 1 => Placed(Relayed + 1, Q \union {m}, H, P, arrived, lost)
  BY ONLY <1>5, PlacedNext
<1>8. Placed(Relayed + 1, Q, H, P, arrived, lost \union {Relayed + 1})
  BY ONLY <1>5, PlacedLost
<1>9. ASSUME NEW m \in ClientMsg, m.nr = 0, SendMessage(m) \/ sendQueue' = sendQueue,
             UNCHANGED <<inHand, arrived, passed, fromServer, said, lost, early>>
      PROVE  InOrder'
  <2>1. Relayed' = Relayed
    BY <1>9 DEF Relayed
  <2>2. CASE sendQueue' = sendQueue
    BY <1>1, <1>9, <2>1, <2>2 DEF InOrder, Q, H, P
  <2>3. CASE SendMessage(m)
    <3>1. Rising(sendQueue') /\ Elements(sendQueue') = Q \union {m}
      BY <1>1, <1>2, <1>9, <2>3, RisingAppended, Appended DEF SendMessage, Q
    <3>2. Placed(Relayed, Q \union {m}, H, P, arrived, lost)
      BY <1>9, <1>6
    <3>. QED BY <1>1, <1>9, <2>1, <3>1, <3>2 DEF InOrder, H, P
  <2>. QED BY <1>9, <2>2, <2>3
<1>10. CASE PhoneTakes \/ PhoneOpens \/ PhoneStreams \/ HandleMessage
  <2>1. UNCHANGED <<sendQueue, inHand, arrived, passed, fromServer, said, lost, early>>
    BY <1>10, PhoneTaking, PhoneSaying, Handling, MainLeaves DEF Main, TakenByPhone, SaidByPhone, Handled
  <2>. QED BY <1>9, <2>1, Handshakes
<1>11. CASE Server
  <2>1. UNCHANGED <<sendQueue, inHand, arrived, passed, lost, early>>
    BY <1>11, ServerSaying
  <2>2. CASE UNCHANGED <<said, fromServer>>
    BY <1>1, <2>1, <2>2 DEF InOrder, Q, H, P, Relayed
  <2>3. ASSUME NEW m \in ServerMsg, said' = said + 1, m.nr = said + 1, fromServer' = Append(fromServer, m)
        PROVE  InOrder'
    <3>1. /\ Len(fromServer') = Len(fromServer) + 1
          /\ fromServer'[Len(fromServer) + 1] = m
          /\ \A i \in 1..Len(fromServer) : fromServer'[i] = fromServer[i]
          /\ \A i \in 1..Len(fromServer) + 1 : i \in 1..Len(fromServer) \/ i = Len(fromServer) + 1
      BY <1>2, <2>3, Appended
    <3>2. Relayed' = Relayed /\ Len(fromServer') <= said' /\ said + 1 = Relayed + (Len(fromServer) + 1)
      BY <1>1, <1>2, <1>3, <2>3, <3>1 DEF Relayed
    <3>3. Numbered(fromServer', Relayed)
      BY <1>1, <2>3, <3>1, <3>2 DEF Numbered
    <3>. QED BY <1>1, <2>1, <3>2, <3>3 DEF InOrder, Q, H, P
  <2>. QED BY <1>11, <2>2, <2>3, ServerSaying
<1>12. CASE SendVersionRequest \/ ExpectVersionResponse \/ DoSslHandshake \/ SendAuthComplete
  <2>1. UNCHANGED <<inHand, arrived, passed, fromServer, said, lost, early>>
    BY <1>12, MainLeaves DEF Main
  <2>2. \/ sendQueue' = sendQueue
        \/ SendMessage(Control("VersionRequest"))
        \/ SendMessage(Control("SslHandshake"))
        \/ SendMessage(Auth)
    BY <1>12, Handshaking DEF SendVersionRequest, SendAuthComplete, Auth
  <2>. QED BY <1>9, <2>1, <2>2, Handshakes, Messages, VersionAsked
<1>13. CASE Send
  <2>1. PICK m \in Replies : SentOn(m)
    BY <1>13, Sending
  <2>2. UNCHANGED <<inHand, arrived, passed, fromServer, said, lost, early>>
    BY <1>13, MainLeaves DEF Main
  <2>3. m \in ClientMsg /\ m.nr = 0
    BY Messages
  <2>. QED BY <1>9, <2>1, <2>2, <2>3 DEF SentOn
<1>14. CASE SetUpChannel
  <2>1. UNCHANGED <<inHand, arrived, passed, fromServer, said, lost, early>>
    BY <1>14, MainLeaves DEF Main
  <2>2. sendQueue' = sendQueue \/ SendMessage(Answer)
    BY <1>14, SettingUp
  <2>. QED BY <1>9, <2>1, <2>2, Messages
<1>15. CASE Relay
  <2>1. PICK m \in ServerMsg : PassedOn(m)
    BY <1>15, Relaying
  <2>2. /\ m = fromServer[1] /\ fromServer # <<>> /\ fromServer' = Tail(fromServer) /\ (early => early')
        /\ UNCHANGED <<inHand, arrived, passed, said>>
    BY <2>1 DEF PassedOn
  <2>3. /\ Len(fromServer') = Len(fromServer) - 1 /\ 1 \in 1..Len(fromServer)
        /\ \A i \in 1..Len(fromServer') : fromServer'[i] = fromServer[i + 1] /\ i + 1 \in 1..Len(fromServer)
    BY <1>2, <2>2, Taken
  <2>4. Relayed' = Relayed + 1 /\ Len(fromServer') <= said'
    BY <1>1, <1>2, <1>3, <2>2, <2>3 DEF Relayed
  <2>5. m.nr = Relayed + 1 /\ m \in ClientMsg
    BY <1>1, <2>2, <2>3, FromServer DEF Numbered
  <2>6. Numbered(fromServer', Relayed + 1)
    <3>1. \A i \in 1..Len(fromServer') : Relayed + (i + 1) = (Relayed + 1) + i
      BY <1>3
    <3>. QED BY <1>1, <2>3, <3>1 DEF Numbered
  <2>7. CASE SendMessage(m) /\ lost' = lost
    <3>1. \A x \in Q : x.nr < m.nr
      <4>1. \A x \in Q : x.nr \in Nat /\ x.nr <= Relayed
        BY <1>1, <1>4 DEF Placed, ClientMsg
      <4>. QED BY <1>3, <2>5, <4>1
    <3>2. Rising(sendQueue') /\ Elements(sendQueue') = Q \union {m}
      BY <1>1, <1>2, <2>5, <2>7, <3>1, RisingAppended, Appended DEF SendMessage, Q
    <3>3. Placed(Relayed + 1, Q \union {m}, H, P, arrived, lost)
      BY <1>7, <2>5
    <3>. QED BY <1>1, <2>2, <2>4, <2>6, <2>7, <3>2, <3>3 DEF InOrder, H, P
  <2>8. CASE sendQueue' = sendQueue /\ lost' = lost \union {m.nr} /\ early'
    <3>1. Placed(Relayed + 1, Q, H, P, arrived, lost \union {Relayed + 1})
      BY <1>8
    <3>. QED BY <1>1, <2>2, <2>4, <2>5, <2>6, <2>8, <3>1 DEF InOrder, Q, H, P
  <2>. QED BY <2>1, <2>7, <2>8 DEF PassedOn
<1>16. CASE WriteToUsb \/ WriteFails
  <2>1. PICK m \in ClientMsg : Written(m)
    BY <1>16, Writing
  <2>. DEFINE R == Elements(sendQueue')
  <2>2. /\ m = sendQueue[1] /\ sendQueue # <<>> /\ sendQueue' = Tail(sendQueue) /\ Q = {m} \union R
        /\ inHand = <<>> /\ H = {}
        /\ UNCHANGED <<fromServer, said, lost, early>>
    BY <2>1 DEF Written, Q, H
  <2>3. Rising(sendQueue') /\ \A k \in R : k.nr > 0 => m.nr < k.nr
    BY <1>1, <1>2, <2>2, RisingTaken
  <2>4. Placed(Relayed, {m} \union R, {}, P, FALSE, lost) /\ R \in SUBSET ClientMsg /\ Relayed' = Relayed
    BY <1>1, <1>2, <1>4, <2>2 DEF Relayed
  <2>. HIDE DEF R
  <2>5. /\ Placed(Relayed, R, {}, Passed(P, m), FALSE, lost)
        /\ Placed(Relayed, R, {m}, Passed(P, m), TRUE, lost)
        /\ Placed(Relayed, R, {m}, P, FALSE, lost)
    BY <1>2, <1>3, <1>4, <2>3, <2>4, PlacedWritten
  <2>6. m.nr > 0 => \A n \in P : n < m.nr
    BY <2>4 DEF Placed
  <2>7. Arrive(m, FALSE) => Increasing(passed') /\ Elements(passed') = Passed(P, m)
    BY <1>1, <2>6, PassedGrows DEF P
  <2>8. arrived = FALSE
    BY <1>1, <1>2, <2>2
  <2>9. Placed(Relayed, R, Elements(inHand'), Elements(passed'), arrived', lost) /\ Increasing(passed')
    BY <1>1, <2>1, <2>5, <2>7, <2>8 DEF Written, P
  <2>. QED BY <1>1, <2>2, <2>3, <2>4, <2>9 DEF InOrder, R
<1>17. CASE Retry
  <2>1. PICK m \in ClientMsg : Tried(m)
    BY <1>17, Retrying
  <2>2. /\ H = {m} /\ Arrive(m, arrived) /\ Elements(inHand') = {} /\ arrived' = FALSE
        /\ UNCHANGED <<sendQueue, fromServer, said, lost, early>>
    BY <2>1 DEF Tried, H
  <2>3. ~arrived /\ m.nr > 0 => \A n \in P : n < m.nr
    BY <1>1, <2>2 DEF Placed
  <2>4. Increasing(passed') /\ Elements(passed') = IF arrived THEN P ELSE Passed(P, m)
    BY <1>1, <1>2, <2>2, <2>3, PassedGrows DEF P
  <2>5. Placed(Relayed, Q, {}, IF arrived THEN P ELSE Passed(P, m), FALSE, lost)
    BY <1>1, <1>2, <1>3, <1>4, <2>2, PlacedTried
  <2>6. Relayed' = Relayed
    BY <2>2 DEF Relayed
  <2>. QED BY <1>1, <2>2, <2>4, <2>5, <2>6 DEF InOrder, Q
<1>. QED BY <1>10, <1>11, <1>12, <1>13, <1>14, <1>15, <1>16, <1>17, Survived

-----------------------------------------------------------------------------
(* No acknowledgement without a packet of its own.                         *)

\* One message, counted.
One(e, T) == IF e \in T THEN 1 ELSE 0

\* The shortest queues, counted.
LEMMA CountShort ==
    ASSUME NEW S, NEW e \in S, NEW T
    PROVE  Count(<<>>, T) = 0 /\ Count(<<e>>, T) = One(e, T)
<1>. DEFINE empty == <<>>
<1>1. empty \in Seq(S) /\ Append(empty, e) = <<e>>
  OBVIOUS
<1>2. Elements(empty) \intersect T = {}
  BY ElementsOf
<1>. HIDE DEF empty
<1>3. Count(empty, T) = 0
  BY <1>1, <1>2, Counting
<1>4. Count(Append(empty, e), T) = Count(empty, T) + One(e, T)
  BY <1>1, CountAppended DEF One
<1>5. One(e, T) \in {0, 1}
  BY DEF One
<1>. QED BY <1>1, <1>3, <1>4, <1>5 DEF empty

\* The counts are numbers.
LEMMA CountsAre ==
    ASSUME Types
    PROVE  /\ Count(wire, NewAck) \in Nat /\ InHand \in Nat /\ Count(sendQueue, Ack) \in Nat
           /\ Count(sends, Ack) \in Nat /\ Count(fromPhone, Packet) \in Nat /\ acks \in Nat /\ media \in Nat
<1>1. /\ wire \in Seq(Arrival) /\ inHand \in Seq(ClientMsg) /\ sendQueue \in Seq(ClientMsg)
      /\ sends \in Seq(Replies) /\ fromPhone \in Seq(PhoneMsg) /\ acks \in Nat /\ media \in Nat
  BY DEF Types
<1>. QED BY <1>1, Counting DEF InHand

\* Whether or not a message is put at the end of the queue, it is counted.
LEMMA CountSent ==
    ASSUME Types, NEW m \in ClientMsg
    PROVE  /\ SendMessage(m) => Count(sendQueue', Ack) = Count(sendQueue, Ack) + One(m, Ack)
           /\ SendMessage(m) /\ m \notin Ack => Count(sendQueue', Ack) = Count(sendQueue, Ack)
<1>1. sendQueue \in Seq(ClientMsg) /\ Count(sendQueue, Ack) \in Nat
  BY CountsAre DEF Types
<1>2. Count(Append(sendQueue, m), Ack) = Count(sendQueue, Ack) + One(m, Ack)
  BY <1>1, CountAppended DEF One
<1>3. m \notin Ack => One(m, Ack) = 0
  BY DEF One
<1>4. SendMessage(m) => Count(sendQueue', Ack) = Count(sendQueue, Ack) + One(m, Ack)
  BY <1>2 DEF SendMessage
<1>. QED BY <1>1, <1>3, <1>4

\* A message that reaches the phone, counted unless it came again.
LEMMA CountArrived ==
    ASSUME Types, NEW m \in ClientMsg, NEW again \in BOOLEAN, Arrive(m, again)
    PROVE  Count(wire', NewAck) = Count(wire, NewAck) + (IF again THEN 0 ELSE One(m, Ack))
<1>. DEFINE a == [msg |-> m, again |-> again]
<1>1. wire' = Append(wire, a) /\ a \in Arrival /\ wire \in Seq(Arrival)
  BY Arriving DEF Types
<1>2. a \in NewAck <=> m \in Ack /\ ~again
  BY <1>1 DEF NewAck
<1>. HIDE DEF a
<1>3. Count(wire', NewAck) = Count(wire, NewAck) + One(a, NewAck)
  BY <1>1, CountAppended DEF One
<1>4. One(a, NewAck) = IF again THEN 0 ELSE One(m, Ack)
  BY <1>2 DEF One
<1>. QED BY <1>3, <1>4

\* Every step keeps a packet for each acknowledgement.
LEMMA CountedKept ==
    ASSUME Types, Types', Alive, Next, ended' = "no"
    PROVE  Counted'
<1>. DEFINE w == Count(wire, NewAck)
            h == InHand
            q == Count(sendQueue, Ack)
            s == Count(sends, Ack)
            f == Count(fromPhone, Packet)
<1>1. acks + w + h + q + s + f <= media
  BY DEF Alive, Counted
<1>2. w \in Nat /\ h \in Nat /\ q \in Nat /\ s \in Nat /\ f \in Nat /\ acks \in Nat /\ media \in Nat
  BY CountsAre
<1>3. w' \in Nat /\ h' \in Nat /\ q' \in Nat /\ s' \in Nat /\ f' \in Nat /\ acks' \in Nat /\ media' \in Nat
  <2>1. /\ wire' \in Seq(Arrival) /\ inHand' \in Seq(ClientMsg) /\ sendQueue' \in Seq(ClientMsg)
        /\ sends' \in Seq(Replies) /\ fromPhone' \in Seq(PhoneMsg) /\ acks' \in Nat /\ media' \in Nat
    BY DEF Types
  <2>. QED BY <2>1, Counting DEF InHand
<1>4. ASSUME acks' + w' + h' + q' + s' + f' <= media' PROVE Counted'
  BY <1>4 DEF Counted
<1>5. /\ wire \in Seq(Arrival) /\ inHand \in Seq(ClientMsg) /\ sendQueue \in Seq(ClientMsg)
      /\ sends \in Seq(Replies) /\ fromPhone \in Seq(PhoneMsg) /\ arrived \in BOOLEAN
  BY DEF Types
<1>6. \A e, T : One(e, T) \in Nat /\ One(e, T) <= 1
  BY DEF One
<1>7. \A x \in PhoneMsg : Count(Append(fromPhone, x), Packet) = f + One(x, Packet)
  BY <1>5, CountAppended DEF One
<1>8. fromPhone # <<>> => f = Count(Tail(fromPhone), Packet) + One(fromPhone[1], Packet)
  BY <1>5, CountTaken DEF One
<1>9. inHand = <<>> => ~arrived /\ h = 0
  <2>1. inHand = <<>> => Elements(inHand) \intersect Ack = {}
    BY ElementsOf
  <2>. QED BY <1>5, <2>1, Counting DEF Alive, InHand
<1>10. UNCHANGED <<inHand, arrived>> => h' = h
  BY DEF InHand
<1>11. UNCHANGED <<wire, sendQueue>> => w' = w /\ q' = q
  OBVIOUS
<1>12. UNCHANGED <<sends, fromPhone>> => s' = s /\ f' = f
  OBVIOUS
<1>. HIDE DEF w, h, q, s, f
<1>13. CASE PhoneTakes
  <2>1. PICK m \in ClientMsg : TakenByPhone(m)
    BY <1>13, PhoneTaking
  <2>2. /\ UNCHANGED <<sends, sendQueue, inHand, arrived, media>>
        /\ wire # <<>> /\ wire' = Tail(wire)
    BY <2>1 DEF TakenByPhone
  <2>3. w = w' + One(wire[1], NewAck)
    BY <1>5, <2>2, CountTaken DEF w, One
  <2>4. acks' <= acks + One(wire[1], NewAck)
    <3>1. wire[1] \in Arrival
      BY <1>5, <2>2, Taken
    <3>2. CASE wire[1] \in NewAck
      <4>1. acks' \in {acks, acks + 1}
        BY <1>13 DEF PhoneTakes
      <4>. QED BY <1>2, <3>2, <4>1 DEF One
    <3>3. CASE wire[1] \notin NewAck
      <4>1. acks' = acks
        <5>1. wire[1].again \in BOOLEAN /\ wire[1].msg \in ClientMsg
          BY <3>1 DEF Arrival
        <5>2. wire[1].msg.type = "MediaAckIndication" => wire[1].again
          BY <3>1, <3>3, <5>1 DEF NewAck, Ack
        <5>. QED BY <1>13, <5>2 DEF PhoneTakes
      <4>. QED BY <1>2, <1>6, <4>1
    <3>. QED BY <3>2, <3>3
  <2>5. f' = f
    <3>1. \A x \in PhoneMsg : x \notin Packet => One(x, Packet) = 0
      BY DEF One
    <3>2. fromPhone' = fromPhone \/ \E x \in PhoneMsg : fromPhone' = Append(fromPhone, x) /\ x \notin Packet
      BY <2>1 DEF TakenByPhone
    <3>3. fromPhone' = fromPhone => f' = f
      BY DEF f
    <3>4. ASSUME NEW x \in PhoneMsg, fromPhone' = Append(fromPhone, x), x \notin Packet PROVE f' = f
      <4>1. f' = f + One(x, Packet)
        BY <1>7, <3>4 DEF f
      <4>. QED BY <1>2, <3>1, <3>4, <4>1
    <3>. QED BY <3>2, <3>3, <3>4
  <2>6. q' = q /\ s' = s /\ h' = h
    BY <1>10, <2>2 DEF q, s
  <2>7. One(wire[1], NewAck) \in Nat
    BY <1>6
  <2>8. ASSUME NEW a1 \in Nat, NEW w1 \in Nat, NEW one \in Nat, a1 <= acks + one, w = w1 + one
        PROVE  a1 + w1 + h + q + s + f <= media
    BY <1>1, <1>2, <2>8
  <2>9. acks' + w' + h + q + s + f <= media
    BY <1>3, <2>3, <2>4, <2>7, <2>8
  <2>10. media' = media
    BY <2>2
  <2>. QED BY <1>4, <2>5, <2>6, <2>9, <2>10
<1>14. CASE PhoneOpens \/ PhoneStreams
  <2>1. PICK x \in PhoneMsg : SaidByPhone(x)
    BY <1>14, PhoneSaying
  <2>2. w' = w /\ h' = h /\ q' = q /\ s' = s /\ acks' = acks
    BY <1>10, <2>1 DEF SaidByPhone, w, q, s
  <2>3. f' = f + One(x, Packet)
    BY <1>7, <2>1 DEF SaidByPhone, f
  <2>4. (One(x, Packet) = 0 /\ media' = media) \/ (One(x, Packet) \in {0, 1} /\ media' = media + 1)
    <3>1. x \notin Packet => One(x, Packet) = 0
      BY DEF One
    <3>2. One(x, Packet) \in {0, 1}
      BY DEF One
    <3>3. (x \notin Packet /\ media' = media) \/ media' = media + 1
      BY <2>1 DEF SaidByPhone
    <3>. QED BY <3>1, <3>2, <3>3
  <2>. QED BY <1>1, <1>2, <1>3, <1>4, <2>2, <2>3, <2>4
<1>15. CASE Server
  <2>1. w' = w /\ h' = h /\ q' = q /\ s' = s /\ f' = f /\ acks' = acks /\ media' = media
    BY <1>10, <1>15, ServerSaying DEF w, q, s, f
  <2>. QED BY <1>1, <1>4, <2>1
<1>16. CASE ExpectVersionResponse \/ DoSslHandshake
  <2>1. w' = w /\ h' = h /\ acks' = acks /\ media' = media
    BY <1>10, <1>16, MainLeaves DEF Main, w
  <2>2. s' = s /\ f = f' + One(fromPhone[1], Packet)
    BY <1>8, <1>16, Handshaking DEF s, f
  <2>3. q' = q
    <3>1. Control("SslHandshake") \notin Ack
      BY Handshakes, Messages
    <3>. QED BY <1>16, <3>1, Handshaking, Handshakes, CountSent DEF q
  <2>4. One(fromPhone[1], Packet) \in Nat
    BY <1>6
  <2>5. ASSUME NEW f1 \in Nat, NEW one \in Nat, f = f1 + one PROVE acks + w + h + q + s + f1 <= media
    BY <1>1, <1>2, <2>5
  <2>6. acks + w + h + q + s + f' <= media
    BY <1>3, <2>2, <2>4, <2>5
  <2>. QED BY <1>4, <2>1, <2>2, <2>3, <2>6
<1>17. CASE SendVersionRequest \/ SendAuthComplete
  <2>1. w' = w /\ h' = h /\ acks' = acks /\ media' = media /\ s' = s /\ f' = f
    BY <1>10, <1>17, MainLeaves DEF Main, SendVersionRequest, SendAuthComplete, w, s, f
  <2>2. q' = q
    BY <1>17, Messages, VersionAsked, CountSent DEF SendVersionRequest, SendAuthComplete, Auth, q
  <2>. QED BY <1>1, <1>4, <2>1, <2>2
<1>18. CASE HandleMessage
  <2>1. PICK m \in PhoneMsg : Handled(m)
    BY <1>18, Handling
  <2>2. w' = w /\ h' = h /\ acks' = acks /\ media' = media /\ q' = q
    BY <1>10, <1>18, <2>1, MainLeaves DEF Main, Handled, w, q
  <2>3. f = f' + One(m, Packet)
    BY <1>8, <2>1 DEF Handled, f
  <2>4. s = 0 /\ s' <= One(m, Packet)
    <3>1. sends = <<>> /\ (sends' = sends \/ sends' = Answers(m))
      BY <2>1 DEF Handled
    <3>2. s = 0
      <4>1. Elements(sends) \intersect Ack = {}
        BY <3>1, ElementsOf
      <4>. QED BY <1>5, <4>1, Counting DEF s
    <3>3. sends' = sends => s' = 0
      BY <3>2 DEF s
    <3>4. sends' = Answers(m) => s' <= One(m, Packet)
      BY AnswersAre DEF s, One
    <3>5. One(m, Packet) \in Nat
      BY <1>6
    <3>. QED BY <3>1, <3>2, <3>3, <3>4, <3>5
  <2>5. One(m, Packet) \in Nat
    BY <1>6
  <2>6. ASSUME NEW f1 \in Nat, NEW s1 \in Nat, NEW one \in Nat, f = f1 + one, s1 <= one
        PROVE  acks + w + h + q + s1 + f1 <= media
    BY <1>1, <1>2, <2>4, <2>6
  <2>7. acks + w + h + q + s' + f' <= media
    BY <1>3, <2>3, <2>4, <2>5, <2>6
  <2>. QED BY <1>4, <2>2, <2>7
<1>19. CASE Send
  <2>1. PICK m \in Replies : SentOn(m)
    BY <1>19, Sending
  <2>2. w' = w /\ h' = h /\ acks' = acks /\ media' = media /\ f' = f
    BY <1>10, <1>19, <2>1, MainLeaves DEF Main, SentOn, w, f
  <2>3. s = s' + One(m, Ack)
    BY <1>5, <2>1, CountTaken DEF SentOn, s, One
  <2>4. q' = q + One(m, Ack)
    <3>1. m \in ClientMsg
      BY Messages
    <3>2. m \notin Ack => One(m, Ack) = 0
      BY DEF One
    <3>3. sendQueue' = sendQueue => q' = q
      BY DEF q
    <3>4. SendMessage(m) => q' = q + One(m, Ack)
      BY <3>1, CountSent DEF q
    <3>. QED BY <1>2, <2>1, <3>2, <3>3, <3>4 DEF SentOn
  <2>5. One(m, Ack) \in Nat
    BY <1>6
  <2>. QED BY <1>1, <1>2, <1>3, <1>4, <2>2, <2>3, <2>4, <2>5
<1>20. CASE SetUpChannel
  <2>1. w' = w /\ h' = h /\ acks' = acks /\ media' = media /\ s' = s /\ f' = f
    BY <1>10, <1>20, MainLeaves, SettingUp DEF Main, w, s, f
  <2>2. q' = q
    BY <1>20, Messages, CountSent, SettingUp DEF q
  <2>. QED BY <1>1, <1>4, <2>1, <2>2
<1>21. CASE Relay
  <2>1. PICK m \in ServerMsg : PassedOn(m)
    BY <1>21, Relaying
  <2>2. w' = w /\ h' = h /\ acks' = acks /\ media' = media /\ s' = s /\ f' = f
    BY <1>10, <2>1 DEF PassedOn, w, s, f
  <2>3. q' = q
    BY <2>1, FromServer, CountSent DEF PassedOn, q
  <2>. QED BY <1>1, <1>4, <2>2, <2>3
<1>22. CASE WriteToUsb \/ WriteFails
  <2>1. PICK m \in ClientMsg : Written(m)
    BY <1>22, Writing
  <2>2. acks' = acks /\ media' = media /\ s' = s /\ f' = f
    BY <2>1 DEF Written, s, f
  <2>3. q = q' + One(m, Ack)
    BY <1>5, <2>1, CountTaken DEF Written, q, One
  <2>4. h = 0 /\ ~arrived
    BY <1>9, <2>1 DEF Written
  <2>5. Arrive(m, FALSE) => w' = w + One(m, Ack)
    BY CountArrived DEF w
  <2>6. /\ inHand' = <<>> => h' = 0
        /\ arrived' = TRUE => h' = 0
        /\ inHand' = <<m>> /\ arrived' = arrived => h' = One(m, Ack)
    <3>1. Count(<<>>, Ack) = 0 /\ Count(<<m>>, Ack) = One(m, Ack)
      BY CountShort
    <3>2. h' = IF arrived' THEN 0 ELSE Count(inHand', Ack)
      BY DEF h, InHand
    <3>3. arrived' = arrived => ~arrived'
      BY <2>4
    <3>. QED BY <3>1, <3>2, <3>3
  <2>7. One(m, Ack) \in Nat
    BY <1>6
  <2>8. \/ w' = w + One(m, Ack) /\ h' = 0
        \/ w' = w /\ h' = One(m, Ack)
    <3>1. wire' = wire => w' = w
      BY DEF w
    <3>. QED BY <2>1, <2>5, <2>6, <3>1 DEF Written
  <2>9. ASSUME NEW w1 \in Nat, NEW h1 \in Nat, NEW q1 \in Nat, NEW one \in Nat, q = q1 + one,
               (w1 = w + one /\ h1 = 0) \/ (w1 = w /\ h1 = one)
        PROVE  acks + w1 + h1 + q1 + s + f <= media
    BY <1>1, <1>2, <2>4, <2>9
  <2>10. acks + w' + h' + q' + s + f <= media
    BY <1>3, <2>3, <2>7, <2>8, <2>9
  <2>. QED BY <1>4, <2>2, <2>10
<1>23. CASE Retry
  <2>1. PICK m \in ClientMsg : Tried(m)
    BY <1>23, Retrying
  <2>2. acks' = acks /\ media' = media /\ s' = s /\ f' = f /\ q' = q
    BY <2>1 DEF Tried, s, f, q
  <2>3. h' = 0
    BY <2>1, CountShort DEF Tried, h, InHand
  <2>4. h = IF arrived THEN 0 ELSE One(m, Ack)
    <3>1. inHand = <<m>>
      BY <1>5, <2>1 DEF Tried
    <3>. QED BY <3>1, CountShort DEF h, InHand
  <2>5. w' = w + (IF arrived THEN 0 ELSE One(m, Ack))
    BY <2>1, CountArrived DEF Tried, w
  <2>. QED BY <1>1, <1>2, <1>3, <1>4, <2>2, <2>3, <2>4, <2>5
<1>. QED BY <1>13, <1>14, <1>15, <1>16, <1>17, <1>18, <1>19, <1>20, <1>21, <1>22, <1>23, Survived

-----------------------------------------------------------------------------
(* The invariant.                                                          *)

\* Every step keeps arrived to the message in hand.
LEMMA TriedKept ==
    ASSUME Types, Alive, Next, ended' = "no"
    PROVE  (inHand = <<>> => ~arrived)'
<1>1. inHand = <<>> => ~arrived
  BY DEF Alive
<1>2. CASE WriteToUsb \/ WriteFails
  <2>1. PICK m \in ClientMsg : Written(m)
    BY <1>2, Writing
  <2>2. <<m>> # <<>>
    OBVIOUS
  <2>. QED BY <1>1, <2>1, <2>2 DEF Written
<1>3. CASE Retry
  BY <1>3, Retrying DEF Tried
<1>4. CASE PhoneTakes \/ PhoneOpens \/ PhoneStreams \/ Server \/ Main \/ Relay
  <2>1. UNCHANGED <<inHand, arrived>>
    BY <1>4, PhoneTaking, PhoneSaying, ServerSaying, MainLeaves, Relaying DEF TakenByPhone, SaidByPhone, PassedOn
  <2>. QED BY <1>1, <2>1
<1>. QED BY <1>2, <1>3, <1>4, Survived DEF Main

\* What holds as long as the program runs is enough for what it promises.
LEMMA AlivePromises ==
    ASSUME Types, Alive, Running
    PROVE  Promises
<1>. DEFINE P == Elements(passed)
<1>1. Len(fromServer) \in Nat /\ said \in Nat /\ passed \in Seq(Nat) /\ sendQueue \in Seq(ClientMsg)
      /\ inHand \in Seq(ClientMsg) /\ lost \subseteq Nat
  BY DEF Types
<1>2. /\ Len(fromServer) <= said /\ Increasing(passed)
      /\ Placed(Relayed, Elements(sendQueue), Elements(inHand), P, arrived, lost)
      /\ lost # {} => early
  BY DEF Alive, InOrder
<1>3. Relayed \in Nat /\ Relayed <= said
  BY <1>1, <1>2 DEF Relayed
<1>4. Bounds
  <2>1. acks <= media
    BY CountsAre DEF Alive, Counted
  <2>2. \A n \in P \union lost : n \in 1..said
    <3>1. \A n \in 1..Relayed : n \in 1..said
      BY <1>1, <1>3
    <3>. QED BY <1>2, <3>1 DEF Placed
  <2>. QED BY <2>1, <2>2 DEF Bounds
<1>5. CrashesOnlyEarly
  BY DEF CrashesOnlyEarly, Running
<1>6. RelayedInOrder
  <2>1. \A i \in 2..Len(passed) : i - 1 \in 1..Len(passed) /\ i \in 1..Len(passed) /\ i - 1 < i
    BY <1>1
  <2>2. \A i \in 2..Len(passed) : passed[i - 1] < passed[i]
    BY <1>2, <2>1 DEF Increasing
  <2>3. ASSUME NEW i \in 1..Len(passed), NEW n \in 1..passed[i] PROVE n \in P \union lost
    <3>1. passed[i] \in P /\ passed[i] \in Nat /\ passed[i] <= Relayed
      <4>1. passed[i] \in P /\ passed[i] \in Nat
        BY <1>1, ElementsOf
      <4>. QED BY <1>2, <1>3, <4>1 DEF Placed
    <3>2. n \in 1..Relayed /\ ~(passed[i] < n) /\ n > 0
      BY <1>3, <3>1
    <3>3. CASE \E m \in Elements(sendQueue) : m.nr = n
      BY <1>2, <3>1, <3>2, <3>3 DEF Placed
    <3>4. CASE \E m \in Elements(inHand) : m.nr = n
      BY <1>2, <3>1, <3>2, <3>4 DEF Placed
    <3>. QED BY <1>2, <3>2, <3>3, <3>4 DEF Placed
  <2>4. ToSet(passed) = P
    BY DEF Types, ToSet, Elements
  <2>. QED BY <1>2, <2>2, <2>3, <2>4 DEF RelayedInOrder
<1>. QED BY <1>4, <1>5, <1>6 DEF Promises

\* How the program ends: without a session or a handler only over an early message.
LEMMA Ending ==
    ASSUME Types, Alive, Promises, Running, Next, ended' # "no"
    PROVE  Promises'
<1>1. \/ ExpectVersionResponse \/ DoSslHandshake \/ PhoneSilent \/ HandleMessage \/ Send
      \/ Relay \/ PrepareFails \/ RetryFails
  BY DEF Next, Phone, PhoneTakes, PhoneOpens, PhoneStreams, Server, ServerAnswers, ServerSpeaks, ServerLeaves,
         Environment, Main, SendVersionRequest, SendAuthComplete, SetUpChannel, WriteThread, WriteToUsb, Retry, Faults, WriteFails,
         Running
<1>2. UNCHANGED <<acks, media, passed, said, lost>> /\ (early => early')
  <2>1. CASE ExpectVersionResponse \/ DoSslHandshake \/ PhoneSilent \/ HandleMessage \/ Send
    BY <2>1, MainLeaves DEF Main, PhoneSilent, MainElse, phoneVars, writerVars, serverVars, relayVars
  <2>2. CASE Relay
    BY <2>2 DEF Relay, phoneVars, writerVars, serverVars, Running
  <2>3. CASE PrepareFails \/ RetryFails
    BY <2>3 DEF PrepareFails, RetryFails, WriterElse, phoneVars, writerVars, serverVars, relayVars
  <2>. QED BY <1>1, <2>1, <2>2, <2>3
<1>3. ended' \in {"null", "tls"} => early'
  <2>1. CASE HandleMessage
    <3>. DEFINE m == fromPhone[1]
    <3>1. /\ m \in PhoneMsg /\ fromPhone # <<>> /\ fromPhone \in Seq(PhoneMsg)
          /\ Elements(fromPhone) = {m} \union Elements(fromPhone')
      BY <2>1, Reads DEF HandleMessage, Types
    <3>2. m.ch # "control" => handlers[m.ch] # "none"
      <4>1. m.ch # "control" => m \in OfChannels /\ m.ch \in Channels
        BY <3>1 DEF OfChannels, PhoneMsg
      <4>2. m.ch # "control" => Discovered
        BY <3>1, <4>1 DEF Discovered
      <4>. QED BY <4>1, <4>2 DEF Alive, Discovery, AllMade
    <3>3. HasSource(m)
      <4>1. m.type = "MediaWithTimestamp" => m = Later
        BY <3>1, Messages
      <4>2. m = Later => source
        BY <3>1, StreamTaken DEF Alive, Streaming, Types
      <4>. QED BY <4>1, <4>2 DEF HasSource
    <3>4. ended' \in {"no", "pipeline", "protocol"}
      BY <2>1, <3>2, <3>3 DEF HandleMessage, HandleChannelMessage, PushFails, End, Running
    <3>. QED BY <3>4
  <2>2. CASE Relay
    BY <2>2 DEF Relay, End, Running
  <2>3. CASE PrepareFails
    <3>1. sendQueue # <<>> /\ sendQueue[1].type \notin PlainTypes /\ ~Established /\ early' = early
      BY <2>3 DEF PrepareFails, Ready, WriterElse, relayVars
    <3>2. sendQueue[1] \in Elements(sendQueue) /\ sendQueue[1] \notin Plain
      <4>1. sendQueue \in Seq(ClientMsg) /\ 1 \in 1..Len(sendQueue)
        BY <3>1, Taken DEF Types
      <4>. QED BY <3>1, <4>1, ElementsOf DEF Plain
    <3>. QED BY <3>1, <3>2 DEF Alive, BeforeTLS
  <2>4. CASE ExpectVersionResponse \/ DoSslHandshake \/ PhoneSilent \/ Send \/ RetryFails
    BY <2>4 DEF ExpectVersionResponse, DoSslHandshake, PhoneSilent, Send, RetryFails, End, Running
  <2>. QED BY <1>1, <2>1, <2>2, <2>3, <2>4
<1>. QED BY <1>2, <1>3 DEF Promises, Bounds, CrashesOnlyEarly, RelayedInOrder

\* The invariant holds at first.
LEMMA Begins == Init => IInv
<1>. SUFFICES ASSUME Init PROVE IInv
  OBVIOUS
<1>1. Types
  BY InitTypes
<1>3. /\ sendQueue = <<>> /\ inHand = <<>> /\ wire = <<>> /\ sends = <<>> /\ fromPhone = <<>>
      /\ fromServer = <<>> /\ passed = <<>> /\ took = {} /\ lost = {} /\ said = 0
      /\ stage = "start" /\ flights = 0 /\ source = FALSE /\ media = 0 /\ acks = 0 /\ arrived = FALSE
      /\ ended = "no"
  BY DEF Init
<1>4. Elements(<<>>) = {} /\ Msgs(<<>>) = {}
  BY DEF Elements, Msgs
<1>5. OnWire = {} /\ Pending = {}
  BY <1>3, <1>4 DEF OnWire, Pending
<1>6. BeforeTLS /\ BeforeServing
  BY <1>3, <1>4 DEF BeforeTLS, BeforeServing, Prelude
<1>7. Discovery
  BY <1>3, <1>4, <1>5 DEF Discovery, Discovered
<1>8. AuthOnce /\ AuthFirst
  <2>1. \A i, j \in 1..Len(sendQueue) : i = j
    BY <1>3
  <2>2. InTurn(wire)
    BY <1>3 DEF InTurn
  <2>. QED BY <1>3, <1>4, <1>5, <2>1, <2>2 DEF AuthOnce, AuthFirst
<1>9. Streaming
  <2>1. NoQuestionBehind(fromPhone) /\ Timed(fromPhone, source)
    BY <1>3 DEF NoQuestionBehind, Timed
  <2>. QED BY <1>3, <2>1 DEF Streaming
<1>10. InOrder
  <2>1. Relayed = 0 /\ Len(fromServer) <= said
    <3>1. Len(fromServer) = 0 /\ said = 0
      BY <1>3
    <3>. QED BY <3>1 DEF Relayed
  <2>2. Numbered(fromServer, Relayed) /\ Increasing(passed) /\ Rising(sendQueue)
    <3>1. \A i, j \in 1..Len(sendQueue) : ~(i < j)
      BY <1>3
    <3>. QED BY <1>3, <3>1 DEF Numbered, Increasing, Rising
  <2>3. Placed(0, {}, {}, {}, FALSE, {})
    BY DEF Placed
  <2>. QED BY <1>3, <1>4, <2>1, <2>2, <2>3 DEF InOrder
<1>11. Counted
  <2>2. Count(<<>>, NewAck) = 0 /\ Count(<<>>, Ack) = 0 /\ Count(<<>>, Packet) = 0
    BY CountShort
  <2>. QED BY <1>3, <2>2 DEF Counted, InHand
<1>. QED BY <1>1, <1>3, <1>6, <1>7, <1>8, <1>9, <1>10, <1>11 DEF IInv, Alive, Running

\* Every step keeps it.
LEMMA Keeps == IInv /\ [Next]_vars => IInv'
<1>. SUFFICES ASSUME IInv, [Next]_vars PROVE IInv'
  OBVIOUS
<1>1. CASE Next
  <2>1. Running
    BY <1>1 DEF Next, Phone, PhoneTakes, PhoneOpens, PhoneStreams, Server, ServerAnswers, ServerSpeaks, ServerLeaves,
         Environment, Main, SendVersionRequest, ExpectVersionResponse, DoSslHandshake, SendAuthComplete, HandleMessage, Send,
         SetUpChannel, GetMessage, PhoneSilent, Relay, WriteThread, PrepareFails, WriteToUsb, PrepareMessage, Retry, Faults,
         WriteFails, RetryFails, Running
  <2>2. Types /\ Alive
    BY <2>1 DEF IInv
  <2>3. Types'
    BY <1>1, <2>2, TypesPhone, TypesServer, TypesMain, TypesRest DEF Next, IInv
  <2>4. CASE ended' = "no"
    <3>1. Alive'
      BY <1>1, <2>2, <2>3, <2>4, TLSKept, DiscoveryKept, AuthOnceKept, AuthFirstKept, StreamingKept, TriedKept,
         InOrderKept, CountedKept DEF Alive
    <3>. QED BY <2>3, <2>4, <3>1 DEF IInv, Running
  <2>5. CASE ended' # "no"
    <3>1. Promises'
      BY <1>1, <2>1, <2>2, <2>5, AlivePromises, Ending
    <3>. QED BY <2>3, <2>5, <3>1 DEF IInv, Running
  <2>. QED BY <2>4, <2>5
<1>2. CASE UNCHANGED vars
  <2>1. UNCHANGED <<phone, took, acks, opened, media, fromPhone, stage, flights, sends, todo, source, handlers,
                    sendQueue, inHand, arrived, faults, wire, passed, repeated, toServer, answered, said,
                    fromServer, lost, early, ended>>
    BY <1>2 DEF vars, phoneVars, mainVars, writerVars, serverVars, relayVars
  <2>2. Types'
    BY <2>1 DEF IInv, Types
  <2>3. Promises => Promises'
    BY <2>1 DEF Promises, Bounds, CrashesOnlyEarly, RelayedInOrder
  <2>4. Alive => Alive'
    <3>1. UNCHANGED <<OnWire, Pending, Relayed, InHand>>
      BY <2>1 DEF OnWire, Pending, Relayed, InHand
    <3>2. Discovered' <=> Discovered
      BY <2>1, <3>1 DEF Discovered
    <3>. QED BY <2>1, <3>1, <3>2 DEF Alive, BeforeTLS, BeforeServing, Established, Discovery, AllMade, AuthOnce, AuthFirst,
                                     Streaming, InOrder, Counted
  <2>. QED BY <2>1, <2>2, <2>3, <2>4 DEF IInv, Running
<1>. QED BY <1>1, <1>2

\* The inductive invariant, for any order in which the phone opens the channels and any bounds.
THEOREM ClientInvariant == Spec => []IInv
  BY Begins, Keeps, PTL DEF Spec

\* It holds what the theorems say.
LEMMA Promised == IInv => Types /\ Promises
  BY AlivePromises DEF IInv

\* The types of the phone's, the server's and the three threads' state: in particular
\* there are never more acknowledgements than video packets.
THEOREM ClientTypeCorrect == Spec => []ClientTypeOK
<1>1. IInv => ClientTypeOK
  <2>. SUFFICES ASSUME Types, Bounds PROVE ClientTypeOK
    BY Promised DEF Promises
  <2>1. acks \in 0..media /\ Len(inHand) \in 0..1
    <3>1. acks \in Nat /\ media \in Nat /\ acks <= media
      BY DEF Types, Bounds
    <3>2. Len(inHand) \in Nat /\ Len(inHand) <= 1
      BY DEF Types
    <3>. QED BY <3>1, <3>2
  <2>2. ToSet(passed) \subseteq 1..said /\ lost \subseteq 1..said
    <3>1. ToSet(passed) = Elements(passed)
      BY DEF Types, ToSet, Elements
    <3>. QED BY <3>1 DEF Bounds
  <2>3. \A m \in ToSet(sendQueue \o fromPhone \o toServer \o fromServer) : m.ch \in Channels
    <3>. DEFINE M == ClientMsg \union PhoneMsg
                q == sendQueue \o fromPhone \o toServer \o fromServer
    <3>1. \A m \in M : m.ch \in Channels
      BY DEF ClientMsg, PhoneMsg
    <3>2. sendQueue \in Seq(M) /\ fromPhone \in Seq(M) /\ toServer \in Seq(M) /\ fromServer \in Seq(M)
      BY SeqMonotonic DEF Types, ServerMsg
    <3>. HIDE DEF M
    <3>3. q \in Seq(M)
      BY <3>2
    <3>. HIDE DEF q
    <3>4. ToSet(q) \subseteq M
      BY <3>3 DEF ToSet
    <3>. QED BY <3>1, <3>4 DEF q
  <2>. QED BY <2>1, <2>2, <2>3 DEF ClientTypeOK, Types
<1>. QED BY <1>1, ClientInvariant, PTL

\* A handler that is not there is called, and a message encrypted without a session,
\* only over a message of the server that came too early.
THEOREM OnlyEarlyCrashes == Spec => []CrashesOnlyEarly
<1>1. IInv => CrashesOnlyEarly
  BY Promised DEF Promises
<1>. QED BY <1>1, ClientInvariant, PTL

\* What the server says reaches the phone in order and without gaps but for what came early.
THEOREM RelaysInOrder == Spec => []RelayedInOrder
<1>1. IInv => RelayedInOrder
  BY Promised DEF Promises
<1>. QED BY <1>1, ClientInvariant, PTL

=============================================================================
