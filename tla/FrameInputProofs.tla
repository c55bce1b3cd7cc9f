-------------------------- MODULE FrameInputProofs --------------------------
(***************************************************************************)
(* Proofs about FrameInput, for messages of any sizes, any number of       *)
(* frames and any sizes of packets and buffer: that frames are handled in  *)
(* order, each once and whole, and what the form of the input can end the  *)
(* pump over.                                                              *)
(***************************************************************************)
EXTENDS FrameInput, SequenceTheorems, TLAPS

-----------------------------------------------------------------------------
(* The inductive invariant.                                                *)

SentFrame == [begin : Nat, end : Nat, declared : Nat, frame : FrameBits]

FrameTypes ==
    /\ outgoing \in Seq(Message) /\ \A i \in DOMAIN outgoing : MessageOK(outgoing[i])
    /\ frames \in Seq(SentFrame) /\ handled \in Seq(Nat)
    /\ base \in Nat /\ got \in Nat /\ start \in Nat
    /\ pump \in {"read", "handle", "failed", "ended"}

\* Frames lie one behind the other, none shorter than a header, and all but a
\* First one are as long as they say.
Stream ==
    /\ \A i \in DOMAIN frames : /\ frames[i].begin + Header <= frames[i].end
                                /\ ~Unreadable(frames[i]) => frames[i].declared = frames[i].end - frames[i].begin
                                /\ frames[i].declared <= frames[i].end - frames[i].begin
                                /\ frames[i].begin = IF i = 1 THEN 0 ELSE frames[i - 1].end
    /\ \A i, j \in DOMAIN frames : i < j => frames[i].end <= frames[j].begin

\* The pump is at the boundary of a packet, and what it has of a frame is a header
\* at least.
AtPacket ==
    \A i \in DOMAIN frames : frames[i].begin < got =>
        /\ frames[i].begin + Header <= got
        /\ got < frames[i].end => (got - frames[i].begin) % Packet = 0

\* A read goes on over full packets only, and ends short or with a full buffer.
Reading ==
    pump = "read" => /\ base = start /\ got - base < BufSize /\ (got - base) % Packet = 0
                     /\ \A i \in DOMAIN frames :
                           base <= frames[i].begin /\ frames[i].end <= got => FillsPackets(frames[i])
Behind ==
    \A i \in DOMAIN frames : base <= frames[i].begin /\ frames[i].end < got => FillsPackets(frames[i])
ReadOver ==
    pump \in {"handle", "failed"} =>
        /\ start < got
        /\ got - base = BufSize \/ \E i \in DOMAIN frames : frames[i].end = got

\* What it could not handle is a First frame, or lacks its end.
Failing ==
    pump = "failed" => /\ Len(handled) + 1 \in DOMAIN frames
                       /\ \/ Unreadable(frames[Len(handled) + 1])
                          \/ Incomplete(frames[Len(handled) + 1])

Counted == Len(handled) <= Len(frames)

Reads == AtPacket /\ Reading /\ Behind /\ ReadOver /\ Failing
IInv == FrameTypes /\ Stream /\ Counted /\ HandledInOrder /\ Reads

-----------------------------------------------------------------------------
(* Packets.                                                                *)

LEMMA NothingFills == ASSUME NEW p \in Nat, p > 0 PROVE 0 % p = 0
OBVIOUS

\* A number of packets is a multiple of theirs.
LEMMA Multiples ==
    ASSUME NEW p \in Nat, p > 0, NEW a \in Nat, a % p = 0
    PROVE  \E n \in Nat : a = n * p
OBVIOUS

LEMMA MultipleFills == ASSUME NEW p \in Nat, p > 0, NEW n \in Nat PROVE (n * p) % p = 0
OBVIOUS

\* One packet more.
LEMMA PacketMore ==
    ASSUME NEW p \in Nat, p > 0, NEW a \in Nat, a % p = 0
    PROVE  (a + p) % p = 0
<1>1. PICK n \in Nat : a = n * p
  BY Multiples
<1>2. a + p = (n + 1) * p
  BY <1>1
<1>3. ((n + 1) * p) % p = 0
  <2>1. n + 1 \in Nat
    OBVIOUS
  <2>. QED BY <2>1, MultipleFills
<1>. QED BY <1>2, <1>3

\* Where there is room there is room for a packet.
LEMMA PacketRoom ==
    ASSUME NEW p \in Nat, p > 0, NEW a \in Nat, NEW b \in Nat, a % p = 0, b % p = 0, a < b
    PROVE  a + p <= b
<1>1. PICK n \in Nat : a = n * p
  BY Multiples
<1>2. PICK m \in Nat : b = m * p
  BY Multiples
<1>. QED BY <1>1, <1>2

LEMMA LessThan == ASSUME NEW a \in Nat, NEW b \in Nat, NEW c \in Nat, a <= b, b < c PROVE c - a > 0
OBVIOUS

LEMMA MinOfTwo ==
    ASSUME NEW a \in Nat, NEW b \in Nat
    PROVE  Min({a, b}) = IF a <= b THEN a ELSE b
<1>1. \A x : x \in {a, b} /\ (\A y \in {a, b} : x <= y) <=> x = IF a <= b THEN a ELSE b
  OBVIOUS
<1>2. Min({a, b}) = CHOOSE x \in {a, b} : \A y \in {a, b} : x <= y
  BY DEF Min
<1>. QED BY <1>1, <1>2

-----------------------------------------------------------------------------
(* Frames.                                                                 *)

\* A frame is no shorter than its header; what remains is a message.
LEMMA Cutting ==
    ASSUME NEW m \in Message, MessageOK(m)
    PROVE  /\ Declared(Cut(m)) \in Nat /\ Declared(Cut(m)) >= Header
           /\ Cut(m).frame \in FrameBits
           /\ ~Fits(m) => Remainder(m) \in Message /\ MessageOK(Remainder(m))
<1>1. m.size \in Nat /\ m.offset \in Nat /\ m.frame \in FrameBits /\ m.offset <= m.size
  BY DEF Message, MessageOK
<1>2. Cut(m).to - Cut(m).from \in Nat
  BY <1>1, MaxSizeAssumption DEF Cut, Fits
<1>3. CutBits(m) \in FrameBits
  BY <1>1 DEF CutBits, FrameBits, Bulk
<1>4. ASSUME ~Fits(m)
      PROVE  Remainder(m) \in Message /\ MessageOK(Remainder(m))
  <2>1. m.encrypted /\ m.offset + MaxSize < m.size /\ m.offset + MaxSize \in Nat /\ 0 < m.offset + MaxSize
    BY <1>1, <1>4, MaxSizeAssumption DEF Fits
  <2>2. {} \in FrameBits
    BY DEF FrameBits
  <2>. QED BY <2>1, <2>2 DEF Remainder, Message, MessageOK
<1>. QED BY <1>2, <1>3, <1>4 DEF Declared, Header, Cut

\* What the head unit is cutting stays a message.
LEMMA AfterCutting ==
    ASSUME NEW q \in Seq(Message), \A i \in DOMAIN q : MessageOK(q[i]), q # <<>>
    PROVE  /\ q[1] \in Message /\ MessageOK(q[1])
           /\ AfterCut(q) \in Seq(Message)
           /\ \A i \in DOMAIN AfterCut(q) : MessageOK(AfterCut(q)[i])
<1>1. q[1] \in Message /\ MessageOK(q[1])
  OBVIOUS
<1>2. CASE Fits(q[1])
  <2>1. /\ Tail(q) \in Seq(Message)
        /\ \A i \in DOMAIN Tail(q) : i + 1 \in DOMAIN q /\ Tail(q)[i] = q[i + 1]
    OBVIOUS
  <2>. QED BY <1>1, <1>2, <2>1 DEF AfterCut
<1>3. CASE ~Fits(q[1])
  <2>1. Remainder(q[1]) \in Message /\ MessageOK(Remainder(q[1]))
    BY <1>1, <1>3, Cutting
  <2>. QED BY <1>1, <1>3, <2>1 DEF AfterCut
<1>. QED BY <1>1, <1>2, <1>3

\* What Stream says of places, and where it ends.
LEMMA Places ==
    ASSUME FrameTypes, Stream
    PROVE  /\ \A i \in DOMAIN frames : /\ frames[i] \in SentFrame /\ i \in 1..Len(frames)
                                       /\ frames[i].begin \in Nat /\ frames[i].end \in Nat /\ frames[i].declared \in Nat
                                       /\ frames[i].begin + 4 <= frames[i].end
                                       /\ frames[i].end <= Total
           /\ Total \in Nat
           /\ frames = <<>> => Total = 0
           /\ frames # <<>> => Len(frames) \in DOMAIN frames /\ Total = frames[Len(frames)].end
<1>1. frames \in Seq(SentFrame)
  BY DEF FrameTypes
<1>2. \A i \in DOMAIN frames : /\ frames[i] \in SentFrame /\ i \in 1..Len(frames)
                               /\ frames[i].begin \in Nat /\ frames[i].end \in Nat /\ frames[i].declared \in Nat
                               /\ frames[i].begin + 4 <= frames[i].end
  <2>1. \A i \in DOMAIN frames : frames[i] \in SentFrame /\ i \in 1..Len(frames)
    BY <1>1
  <2>2. \A f \in SentFrame : f.begin \in Nat /\ f.end \in Nat /\ f.declared \in Nat
    BY DEF SentFrame
  <2>. QED BY <2>1, <2>2 DEF Stream, Header
<1>3. CASE frames = <<>>
  BY <1>2, <1>3 DEF Total
<1>4. CASE frames # <<>>
  <2>1. Len(frames) \in DOMAIN frames /\ Total = frames[Len(frames)].end
    BY <1>1, <1>4 DEF Total, Last
  <2>2. ASSUME NEW i \in DOMAIN frames
        PROVE  frames[i].end <= Total
    <3>1. CASE i = Len(frames)
      BY <1>2, <2>1, <3>1
    <3>2. CASE i < Len(frames)
      BY <1>2, <2>1, <3>2 DEF Stream
    <3>. QED BY <1>1, <3>1, <3>2
  <2>. QED BY <1>2, <1>4, <2>1, <2>2
<1>. QED BY <1>3, <1>4

-----------------------------------------------------------------------------
(* The head unit.                                                          *)

LEMMA OneMessage ==
    ASSUME NEW S, NEW e \in S
    PROVE  <<e>> \in Seq(S) /\ DOMAIN <<e>> = {1} /\ <<e>>[1] = e
OBVIOUS

LEMMA NewOutgoingStep ==
    ASSUME IInv, NewOutgoing
    PROVE  IInv'
<1>. USE DEF pumpVars
<1>1. FrameTypes'
  <2>1. PICK n \in Sizes : outgoing' = <<NewMessage(1, n, TRUE)>>
    BY DEF NewOutgoing
  <2>2. NewMessage(1, n, TRUE) \in Message /\ MessageOK(NewMessage(1, n, TRUE))
    BY InputAssumption DEF NewMessage, Message, MessageOK, FrameBits
  <2>3. outgoing' \in Seq(Message) /\ DOMAIN outgoing' = {1} /\ outgoing'[1] = NewMessage(1, n, TRUE)
    BY <2>1, <2>2, OneMessage
  <2>. QED BY <2>2, <2>3 DEF NewOutgoing, IInv, FrameTypes
<1>2. Stream' /\ Counted' /\ HandledInOrder' /\ Reads'
  BY DEF NewOutgoing, IInv, Stream, Counted, HandledInOrder, Reads, AtPacket, Reading, Behind, ReadOver, Failing,
     Total, Incomplete
<1>. QED BY <1>1, <1>2 DEF IInv

\* A frame behind all others changes nothing for the pump.
LEMMA SendFrameStep ==
    ASSUME IInv, SendFrame
    PROVE  IInv'
<1>. USE DEF pumpVars
<1>. DEFINE f == Cut(outgoing[1])
            x == [begin |-> Total, end |-> Total + FrameBytes(f), declared |-> Declared(f), frame |-> f.frame]
            n == Len(frames)
<1>0. /\ FrameTypes /\ Stream /\ Counted /\ HandledInOrder /\ Reads
      /\ frames' = Append(frames, x) /\ UNCHANGED <<base, got, start, handled, pump>>
      /\ outgoing # <<>> /\ outgoing' = AfterCut(outgoing)
  BY DEF IInv, SendFrame
<1>1. /\ Total \in Nat
      /\ \A i \in DOMAIN frames : /\ frames[i] \in SentFrame /\ i \in 1..n
                                  /\ frames[i].begin \in Nat /\ frames[i].end \in Nat
                                  /\ frames[i].begin + 4 <= frames[i].end /\ frames[i].end <= Total
      /\ frames = <<>> => Total = 0
      /\ frames # <<>> => n \in DOMAIN frames /\ Total = frames[n].end
  BY <1>0, Places
<1>2. /\ outgoing[1] \in Message /\ MessageOK(outgoing[1])
      /\ outgoing' \in Seq(Message) /\ \A i \in DOMAIN outgoing' : MessageOK(outgoing'[i])
  BY <1>0, AfterCutting DEF FrameTypes
<1>3. Declared(f) \in Nat /\ Declared(f) >= Header /\ f.frame \in FrameBits
  BY <1>2, Cutting
<1>4. /\ x \in SentFrame /\ x.begin = Total /\ x.begin + Header <= x.end
      /\ ~Unreadable(x) => x.declared = x.end - x.begin
      /\ x.declared <= x.end - x.begin
  <2>1. FrameBytes(f) = Declared(f) \/ FrameBytes(f) = Declared(f) + 4
    BY <1>3 DEF FrameBytes
  <2>2. f.frame # {"First"} => FrameBytes(f) = Declared(f)
    BY <1>3 DEF FrameBytes
  <2>3. Total + FrameBytes(f) \in Nat /\ Total + Header <= Total + FrameBytes(f)
    BY <1>1, <1>3, <2>1 DEF Header
  <2>4. x \in SentFrame
    BY <1>1, <1>3, <2>3 DEF SentFrame
  <2>5. (Total + FrameBytes(f)) - Total = FrameBytes(f) /\ Declared(f) <= FrameBytes(f)
    BY <1>1, <1>3, <2>1
  <2>. QED BY <2>2, <2>3, <2>4, <2>5 DEF Unreadable
<1>. HIDE DEF f, x
<1>5. /\ frames' \in Seq(SentFrame) /\ n \in Nat /\ Len(frames') = n + 1 /\ DOMAIN frames' = 1..(n + 1) /\ DOMAIN frames = 1..n
      /\ \A i \in DOMAIN frames : frames'[i] = frames[i] /\ i \in DOMAIN frames'
      /\ frames'[n + 1] = x
      /\ \A i \in DOMAIN frames' : i \in DOMAIN frames \/ i = n + 1
  BY <1>0, <1>4 DEF FrameTypes
<1>6. Total' = x.end /\ Total <= x.end /\ Total' \in Nat
  BY <1>1, <1>4, <1>5 DEF Total, Last, Header, SentFrame
<1>7. FrameTypes'
  BY <1>0, <1>2, <1>5 DEF FrameTypes
<1>8. Stream'
  <2>1. ASSUME NEW i \in DOMAIN frames'
        PROVE  /\ frames'[i].begin + Header <= frames'[i].end
               /\ ~Unreadable(frames'[i]) => frames'[i].declared = frames'[i].end - frames'[i].begin
               /\ frames'[i].declared <= frames'[i].end - frames'[i].begin
               /\ frames'[i].begin = IF i = 1 THEN 0 ELSE frames'[i - 1].end
    <3>1. CASE i \in DOMAIN frames
      <4>1. i # 1 => i - 1 \in DOMAIN frames
        BY <1>5, <3>1
      <4>. QED BY <1>0, <1>5, <3>1, <4>1 DEF Stream
    <3>2. CASE i = n + 1
      <4>1. i = 1 <=> frames = <<>>
        BY <1>0, <1>5, <3>2 DEF FrameTypes
      <4>. QED BY <1>1, <1>4, <1>5, <3>2, <4>1
    <3>. QED BY <1>5, <3>1, <3>2
  <2>2. ASSUME NEW i \in DOMAIN frames', NEW j \in DOMAIN frames', i < j
        PROVE  frames'[i].end <= frames'[j].begin
    <3>1. i \in DOMAIN frames
      BY <1>5, <2>2
    <3>2. CASE j \in DOMAIN frames
      BY <1>0, <1>5, <2>2, <3>1, <3>2 DEF Stream
    <3>3. CASE j = n + 1
      BY <1>1, <1>4, <1>5, <3>1, <3>3
    <3>. QED BY <1>5, <3>2, <3>3
  <2>. QED BY <2>1, <2>2 DEF Stream
<1>9. Counted' /\ HandledInOrder'
  <2>1. handled # <<>> => Len(handled) \in DOMAIN frames
    BY <1>0, <1>5 DEF Counted, FrameTypes
  <2>2. got <= Total'
    BY <1>0, <1>1, <1>6 DEF HandledInOrder, FrameTypes
  <2>3. Counted'
    BY <1>0, <1>5 DEF Counted, FrameTypes
  <2>. QED BY <1>0, <1>5, <2>1, <2>2, <2>3 DEF HandledInOrder
<1>10. got <= x.begin /\ got < x.end /\ got \in Nat
  BY <1>0, <1>1, <1>4 DEF HandledInOrder, FrameTypes, Header, SentFrame
<1>11. AtPacket' /\ Reading' /\ Behind'
  <2>1. ~(x.begin < got) /\ ~(x.end <= got) /\ ~(x.end < got)
    BY <1>10, <1>4 DEF SentFrame
  <2>. QED BY <1>0, <1>5, <2>1 DEF Reads, AtPacket, Reading, Behind
<1>12. ReadOver' /\ Failing'
  <2>1. ReadOver'
    BY <1>0, <1>5 DEF Reads, ReadOver
  <2>2. Failing'
    BY <1>0, <1>5 DEF Reads, Failing, Incomplete
  <2>. QED BY <2>1, <2>2
<1>. QED BY <1>7, <1>8, <1>9, <1>11, <1>12 DEF IInv, Reads

-----------------------------------------------------------------------------
(* The pump.                                                               *)

\* A step by which the pump ends, or nothing happens to it.
LEMMA QuietStep ==
    ASSUME IInv, UNCHANGED <<headunitVars, pumpVars>>, pump' \in {pump, "ended"}
    PROVE  IInv'
BY DEF IInv, FrameTypes, Stream, Counted, HandledInOrder, Reads, AtPacket, Reading, Behind, ReadOver, Failing,
   Total, Incomplete, headunitVars, pumpVars

\* A packet is the next part of one frame, and the last one of a read if short.
LEMMA ReceivePacketStep ==
    ASSUME IInv, ReceivePacket
    PROVE  IInv'
<1>. USE DEF headunitVars
<1>0. /\ FrameTypes /\ Stream /\ Counted /\ HandledInOrder /\ AtPacket /\ Reading /\ Behind
      /\ UNCHANGED <<outgoing, frames, base, start, handled>> /\ pump = "read"
  BY DEF IInv, Reads, ReceivePacket
<1>1. /\ base \in Nat /\ got \in Nat /\ start \in Nat /\ base = start /\ base <= got
      /\ Packet \in Nat /\ Packet >= 4 /\ BufSize \in Nat
  BY <1>0, InputAssumption DEF FrameTypes, Reading, HandledInOrder
<1>2. \A i \in DOMAIN frames : /\ frames[i].begin \in Nat /\ frames[i].end \in Nat
                               /\ frames[i].begin + 4 <= frames[i].end /\ frames[i].end <= Total
  BY <1>0, Places
<1>3. PICK k \in DOMAIN frames : frames[k].begin <= got /\ got < frames[k].end
                                 /\ got' = Min({got + Packet, frames[k].end})
  BY DEF ReceivePacket
<1>4. got' = (IF got + Packet <= frames[k].end THEN got + Packet ELSE frames[k].end)
  <2>1. got + Packet \in Nat
    BY <1>1
  <2>. QED BY <1>2, <1>3, <2>1, MinOfTwo
<1>5. /\ got' \in Nat /\ got < got' /\ got' <= got + Packet /\ got' <= frames[k].end /\ got' <= Total'
      /\ got' < frames[k].end => got' = got + Packet
  <2>1. Total' = Total /\ Total \in Nat
    BY <1>0, Places DEF Total
  <2>2. /\ frames[k].begin \in Nat /\ frames[k].end \in Nat /\ frames[k].end <= Total
        /\ frames[k].begin <= got /\ got < frames[k].end
    BY <1>2, <1>3
  <2>3. CASE got + Packet <= frames[k].end
    BY <1>1, <1>4, <2>1, <2>2, <2>3
  <2>4. CASE ~(got + Packet <= frames[k].end)
    BY <1>1, <1>4, <2>1, <2>2, <2>4
  <2>. QED BY <2>3, <2>4
\* The frames before this one have been read, those behind it have not.
<1>6. \A i \in DOMAIN frames : /\ i < k => frames[i].end <= frames[k].begin
                               /\ k < i => frames[k].end <= frames[i].begin
                               /\ i < k \/ i = k \/ k < i
  <2>1. \A i \in DOMAIN frames : i \in Nat
    BY <1>0 DEF FrameTypes
  <2>. QED BY <1>0, <2>1 DEF Stream
<1>7. (got - frames[k].begin) % Packet = 0
  <2>1. CASE frames[k].begin < got
    BY <1>0, <1>3, <2>1 DEF AtPacket
  <2>2. CASE frames[k].begin = got
    BY <1>1, <2>2, NothingFills
  <2>. QED BY <1>1, <1>2, <1>3, <2>1, <2>2
<1>8. got' = got + Packet => (got' - frames[k].begin) % Packet = 0 /\ frames[k].begin + 4 <= got'
  <2>1. got - frames[k].begin \in Nat /\ (got - frames[k].begin) + Packet = (got + Packet) - frames[k].begin
    BY <1>1, <1>2, <1>3
  <2>2. ((got - frames[k].begin) + Packet) % Packet = 0
    BY <1>1, <1>7, <2>1, PacketMore
  <2>. QED BY <1>1, <1>2, <1>3, <2>1, <2>2
<1>9. got' - base <= BufSize
  <2>1. got - base \in Nat /\ (got - base) % Packet = 0 /\ got - base < BufSize
    BY <1>0, <1>1 DEF Reading
  <2>2. (got - base) + Packet <= BufSize
    <3>. DEFINE d == got - base
    <3>1. d \in Nat /\ d % Packet = 0 /\ d < BufSize /\ BufSize % Packet = 0 /\ Packet > 0
      BY <1>1, <2>1, InputAssumption
    <3>. HIDE DEF d
    <3>2. d + Packet <= BufSize
      BY <1>1, <3>1, PacketRoom
    <3>. QED BY <3>2 DEF d
  <2>. QED BY <1>1, <1>5, <2>2
<1>10. AtPacket'
  <2>1. ASSUME NEW i \in DOMAIN frames, frames[i].begin < got'
        PROVE  /\ frames[i].begin + Header <= got'
               /\ got' < frames[i].end => (got' - frames[i].begin) % Packet = 0
    <3>1. CASE i = k
      BY <1>2, <1>5, <1>8, <3>1 DEF Header
    <3>2. CASE i < k
      BY <1>1, <1>2, <1>3, <1>5, <1>6, <3>2 DEF Header
    <3>3. CASE k < i
      BY <1>2, <1>5, <1>6, <2>1, <3>3
    <3>. QED BY <1>6, <3>1, <3>2, <3>3
  <2>. QED BY <1>0, <2>1 DEF AtPacket
\* What this read has got whole before its last packet filled its packets.
<1>11. \A i \in DOMAIN frames : base <= frames[i].begin /\ frames[i].end < got' => FillsPackets(frames[i])
  <2>. SUFFICES ASSUME NEW i \in DOMAIN frames, base <= frames[i].begin, frames[i].end < got'
                PROVE  FillsPackets(frames[i])
    OBVIOUS
  <2>1. frames[i].end <= got
    BY <1>1, <1>2, <1>3, <1>5, <1>6
  <2>. QED BY <1>0, <2>1 DEF Reading
<1>12. ASSUME got' = got + Packet
       PROVE  /\ (got' - base) % Packet = 0
              /\ \A i \in DOMAIN frames : base <= frames[i].begin /\ frames[i].end <= got' => FillsPackets(frames[i])
  <2>1. (got' - base) % Packet = 0
    <3>1. got - base \in Nat /\ (got - base) % Packet = 0 /\ (got - base) + Packet = (got + Packet) - base
      BY <1>0, <1>1 DEF Reading
    <3>2. ((got - base) + Packet) % Packet = 0
      <4>. DEFINE d == got - base
      <4>1. d \in Nat /\ d % Packet = 0 /\ Packet > 0
        BY <1>1, <3>1
      <4>. HIDE DEF d
      <4>2. (d + Packet) % Packet = 0
        BY <1>1, <4>1, PacketMore
      <4>. QED BY <4>2 DEF d
    <3>. QED BY <1>12, <3>1, <3>2
  <2>2. ASSUME NEW i \in DOMAIN frames, base <= frames[i].begin, frames[i].end = got'
        PROVE  FillsPackets(frames[i])
    <3>1. i = k
      BY <1>1, <1>2, <1>3, <1>5, <1>6, <2>2
    <3>. QED BY <1>8, <1>12, <2>2, <3>1 DEF FillsPackets
  <2>. QED BY <1>2, <1>5, <1>11, <2>1, <2>2
<1>13. \/ pump' = "read" /\ got' = got + Packet /\ got' - base < BufSize
       \/ pump' \in {"handle", "ended"} /\ (got' - base = BufSize \/ got' = frames[k].end)
  <2>1. CASE got' - got < Packet \/ got' - base = BufSize
    <3>0. start \in Nat /\ got \in Nat /\ got' \in Nat /\ start <= got /\ got < got'
      BY <1>1, <1>5
    <3>1. got' - start > 0
      BY <3>0, LessThan
    <3>2. pump' \in {"handle", "ended"}
      BY <2>1, <3>1 DEF ReceivePacket, ReadReturns, CheckedGoto
    <3>3. got' - got < Packet => got' = frames[k].end
      <4>1. frames[k].end \in Nat
        BY <1>2
      <4>2. ASSUME NEW g \in Nat, g <= frames[k].end, g < frames[k].end => g = got + Packet, g - got < Packet
            PROVE  g = frames[k].end
        BY <1>1, <4>1, <4>2
      <4>. QED BY <1>5, <4>2
    <3>. QED BY <2>1, <3>2, <3>3
  <2>2. CASE ~(got' - got < Packet \/ got' - base = BufSize)
    <3>1. pump' = "read"
      BY <1>0, <2>2 DEF ReceivePacket
    <3>2. ASSUME NEW g \in Nat, g <= got + Packet, got < g, ~(g - got < Packet),
                 g - base <= BufSize, ~(g - base = BufSize)
          PROVE  g = got + Packet /\ g - base < BufSize
      BY <1>1, <3>2
    <3>3. got' = got + Packet /\ got' - base < BufSize
      BY <1>5, <1>9, <2>2, <3>2
    <3>. QED BY <3>1, <3>3
  <2>. QED BY <2>1, <2>2
<1>14. FrameTypes' /\ Stream' /\ Counted'
  BY <1>0, <1>5, <1>13 DEF FrameTypes, Stream, Counted
<1>15. HandledInOrder'
  BY <1>0, <1>1, <1>5, <1>9 DEF HandledInOrder
<1>16. Reading'
  BY <1>0, <1>1, <1>12, <1>13 DEF Reading
<1>17. Behind' /\ Failing'
  BY <1>0, <1>11, <1>13 DEF Behind, Failing
<1>18. ReadOver'
  <2>1. start < got' /\ frames' = frames
    BY <1>0, <1>1, <1>5
  <2>2. pump' \in {"handle", "failed"} => got' - base = BufSize \/ got' = frames[k].end
    BY <1>13
  <2>. QED BY <1>0, <2>1, <2>2 DEF ReadOver
<1>. QED BY <1>10, <1>14, <1>15, <1>16, <1>17, <1>18 DEF IInv, Reads

\* An empty packet ends the read behind a frame.
LEMMA ReceiveEmptyPacketStep ==
    ASSUME IInv, ReceiveEmptyPacket
    PROVE  IInv'
<1>1. UNCHANGED <<headunitVars, pumpVars>> /\ pump = "read" /\ \E i \in DOMAIN frames : frames[i].end = got
  BY DEF ReceiveEmptyPacket
<1>2. pump' \in {"read", "ended"} \/ (pump' = "handle" /\ got - start > 0)
  BY DEF ReceiveEmptyPacket, ReadReturns, CheckedGoto
<1>3. CASE pump' \in {"read", "ended"}
  BY <1>1, <1>3, QuietStep
<1>4. CASE pump' = "handle" /\ got - start > 0
  <2>1. start \in Nat /\ got \in Nat
    BY DEF IInv, FrameTypes
  <2>2. start < got
    BY <1>4, <2>1
  <2>. QED BY <1>1, <1>4, <2>2 DEF IInv, FrameTypes, Stream, Counted, HandledInOrder, Reads, AtPacket, Reading,
          Behind, ReadOver, Failing, Total, headunitVars, pumpVars
<1>. QED BY <1>2, <1>3, <1>4

\* What handleMessage is given begins with the first frame not handled.
LEMMA NextIsFirst ==
    ASSUME FrameTypes, Stream, Counted, HandledInOrder, NEW k \in DOMAIN frames, frames[k].begin = start
    PROVE  k = Len(handled) + 1
<1>. DEFINE n == Len(handled)
<1>1. /\ n \in Nat /\ DOMAIN frames = 1..Len(frames) /\ Len(frames) \in Nat /\ n <= Len(frames)
      /\ handled = <<>> <=> n = 0
      /\ start = IF n = 0 THEN 0 ELSE frames[n].end
  BY DEF FrameTypes, Counted, HandledInOrder
<1>. HIDE DEF n
<1>2. \A i \in DOMAIN frames : /\ frames[i].begin \in Nat /\ frames[i].end \in Nat
                               /\ frames[i].begin < frames[i].end
  BY Places
<1>3. \A i, j \in DOMAIN frames : i < j => frames[i].end <= frames[j].begin
  BY DEF Stream
<1>4. n < k
  <2>1. CASE n = 0
    BY <1>1, <2>1
  <2>2. CASE n # 0
    <3>1. n \in DOMAIN frames /\ frames[k].begin = frames[n].end
      BY <1>1, <2>2
    <3>2. ~(k < n) /\ k # n
      BY <1>2, <1>3, <3>1
    <3>. QED BY <1>1, <3>2
  <2>. QED BY <2>1, <2>2
<1>5. ~(n + 1 < k)
  <2>. SUFFICES ASSUME n + 1 < k PROVE FALSE
    OBVIOUS
  <2>1. n + 1 \in DOMAIN frames
    BY <1>1
  <2>2. frames[n + 1].end <= frames[k].begin /\ frames[n + 1].begin < frames[n + 1].end
    BY <1>2, <1>3, <2>1
  <2>3. CASE n = 0
    BY <1>1, <1>2, <2>1, <2>2, <2>3
  <2>4. CASE n # 0
    <3>1. n \in DOMAIN frames /\ n < n + 1
      BY <1>1, <2>4
    <3>2. frames[n].end <= frames[n + 1].begin /\ frames[k].begin = frames[n].end
      BY <1>1, <1>3, <2>1, <2>4, <3>1
    <3>. QED BY <1>2, <2>1, <2>2, <3>1, <3>2
  <2>. QED BY <2>3, <2>4
<1>. QED BY <1>1, <1>4, <1>5 DEF n

\* The frame is handled whole, or it is one the pump may fail over.
LEMMA HandleMessageStep ==
    ASSUME IInv, HandleMessage
    PROVE  IInv'
<1>. USE DEF headunitVars, pumpVars
<1>0. /\ FrameTypes /\ Stream /\ Counted /\ HandledInOrder /\ AtPacket /\ Behind /\ ReadOver
      /\ UNCHANGED <<outgoing, frames>> /\ pump = "handle"
  BY DEF IInv, Reads, HandleMessage
<1>1. PICK k \in DOMAIN frames : /\ frames[k].begin = start
                                 /\ \/ /\ Incomplete(frames[k]) \/ Unreadable(frames[k])
                                       /\ EndPump("failed")
                                       /\ UNCHANGED <<base, got, start, handled>>
                                    \/ /\ ~Incomplete(frames[k]) /\ ~Unreadable(frames[k])
                                       /\ handled' = Append(handled, k)
                                       /\ start' = NextPart(frames[k])
                                       /\ base' = IF start' = got THEN got ELSE base
                                       /\ \/ CheckedGoto(IF start' = got THEN "read" ELSE "handle")
                                          \/ EndPump("ended")
                                       /\ UNCHANGED got
  BY DEF HandleMessage
<1>2. k = Len(handled) + 1 /\ Len(handled) \in Nat
  BY <1>0, <1>1, NextIsFirst DEF FrameTypes
<1>3. CASE pump' = "failed" /\ (Incomplete(frames[k]) \/ Unreadable(frames[k])) /\ UNCHANGED <<base, got, start, handled>>
  <2>1. FrameTypes' /\ Stream' /\ Counted'
    BY <1>0, <1>3 DEF FrameTypes, Stream, Counted
  <2>2. HandledInOrder'
    BY <1>0, <1>3 DEF HandledInOrder, Total
  <2>3. AtPacket' /\ Reading' /\ Behind' /\ ReadOver' /\ Failing'
    BY <1>0, <1>2, <1>3 DEF AtPacket, Reading, Behind, ReadOver, Failing, Incomplete
  <2>. QED BY <2>1, <2>2, <2>3 DEF IInv, Reads
<1>4. CASE /\ ~Incomplete(frames[k]) /\ ~Unreadable(frames[k])
           /\ handled' = Append(handled, k)
           /\ start' = NextPart(frames[k])
           /\ base' = IF start' = got THEN got ELSE base
           /\ CheckedGoto(IF start' = got THEN "read" ELSE "handle") \/ EndPump("ended")
           /\ UNCHANGED got
  <2>1. /\ base \in Nat /\ got \in Nat /\ start \in Nat /\ handled \in Seq(Nat)
        /\ base <= start /\ got - base <= BufSize /\ got <= Total
        /\ BufSize \in Nat /\ BufSize > 0 /\ 0 % Packet = 0
    BY <1>0, InputAssumption, NothingFills DEF FrameTypes, HandledInOrder
  <2>2. \A i \in DOMAIN frames : /\ frames[i].begin \in Nat /\ frames[i].end \in Nat /\ frames[i].declared \in Nat
                                 /\ frames[i].begin < frames[i].end
    BY <1>0, Places
  <2>3. start' = frames[k].end
    <3>1. start' = start + frames[k].declared
      BY <1>4 DEF NextPart
    <3>2. frames[k].declared = frames[k].end - frames[k].begin
      BY <1>0, <1>4 DEF Stream
    <3>. QED BY <1>1, <2>1, <2>2, <3>1, <3>2
  <2>4. frames[k].end <= got
    <3>1. ~(got - start < frames[k].declared) /\ frames[k].declared = frames[k].end - frames[k].begin
      BY <1>0, <1>4 DEF Stream, Incomplete
    <3>. QED BY <1>1, <2>1, <2>2, <3>1
  <2>5. frames[k].end \in Nat /\ start < frames[k].end
    BY <1>1, <2>2
  <2>6. /\ Len(handled') = k /\ handled' \in Seq(Nat) /\ handled' # <<>>
        /\ \A i \in DOMAIN handled' : handled'[i] = i
    <3>1. DOMAIN frames \subseteq Nat
      BY <1>0 DEF FrameTypes
    <3>. QED BY <1>0, <1>2, <1>4, <2>1, <3>1 DEF HandledInOrder
  <2>7. \/ frames[k].end = got /\ base' = got /\ pump' \in {"read", "ended"}
        \/ frames[k].end < got /\ base' = base /\ pump' \in {"handle", "ended"}
    BY <1>4, <2>1, <2>3, <2>4, <2>5 DEF CheckedGoto, EndPump
  <2>8. FrameTypes' /\ Stream' /\ Counted'
    <3>1. k <= Len(frames)
      BY <1>0 DEF FrameTypes
    <3>. QED BY <1>0, <1>4, <2>1, <2>3, <2>5, <2>6, <2>7, <3>1 DEF FrameTypes, Stream, Counted
  <2>9. HandledInOrder'
    <3>1. base' <= frames[k].end
      BY <2>1, <2>5, <2>7
    <3>2. got - base' <= BufSize
      BY <2>1, <2>7
    <3>. QED BY <1>0, <1>4, <2>1, <2>3, <2>4, <2>6, <3>1, <3>2 DEF HandledInOrder, Total
  <2>10. AtPacket' /\ ReadOver' /\ Failing'
    BY <1>0, <1>4, <2>1, <2>3, <2>4, <2>7 DEF AtPacket, ReadOver, Failing
  <2>11. Reading'
    BY <1>0, <1>4, <2>1, <2>2, <2>3, <2>7 DEF Reading
  <2>12. Behind'
    BY <1>0, <1>4, <2>1, <2>2, <2>7 DEF Behind
  <2>. QED BY <2>8, <2>9, <2>10, <2>11, <2>12 DEF IInv, Reads
<1>. QED BY <1>1, <1>3, <1>4 DEF EndPump

-----------------------------------------------------------------------------
(* The theorems.                                                           *)

\* The inductive invariant.
THEOREM FrameInputInvariant == Spec => []IInv
<1>1. Init => IInv
  BY InputAssumption, NothingFills DEF Init, IInv, FrameTypes, Stream, Counted, HandledInOrder, Reads, AtPacket,
     Reading, Behind, ReadOver, Failing, Total
<1>2. IInv /\ [Next]_vars => IInv'
  <2>. SUFFICES ASSUME IInv, [Next]_vars PROVE IInv'
    OBVIOUS
  <2>1. ReadFails \/ ReadInterrupted \/ Stop \/ UNCHANGED vars
          => UNCHANGED <<headunitVars, pumpVars>> /\ pump' \in {pump, "ended"}
    BY DEF ReadFails, ReadInterrupted, Stop, EndPump, CheckedGoto, vars
  <2>2. ReadFails \/ ReadInterrupted \/ Stop \/ UNCHANGED vars => IInv'
    BY <2>1, QuietStep
  <2>. QED BY <2>2, NewOutgoingStep, SendFrameStep, ReceivePacketStep, ReceiveEmptyPacketStep, HandleMessageStep
           DEF Next
<1>. QED BY <1>1, <1>2, PTL DEF Spec

\* Frames are handled in the order they were sent, each once and whole.
THEOREM InOrder == Spec => []HandledInOrder
<1>1. IInv => HandledInOrder
  BY DEF IInv
<1>. QED BY <1>1, FrameInputInvariant, PTL

\* The form of the input ends the pump over a First frame, or over one that the
\* end of the buffer cuts off behind frames that all filled their packets; a
\* header is always there to look at.
THEOREM FailsOnlyThen == Spec => []FailsOnlyOver
<1>1. IInv => FailsOnlyOver
  <2>. SUFFICES ASSUME IInv PROVE FailsOnlyOver
    OBVIOUS
  <2>. DEFINE n == Len(handled)
  <2>0. /\ FrameTypes /\ Stream /\ Counted /\ HandledInOrder /\ AtPacket /\ Behind /\ ReadOver /\ Failing
        /\ n \in Nat /\ got \in Nat /\ start \in Nat /\ base \in Nat
        /\ handled = <<>> <=> n = 0
        /\ start = IF n = 0 THEN 0 ELSE frames[n].end
        /\ DOMAIN frames = 1..Len(frames) /\ Len(frames) \in Nat /\ n <= Len(frames)
    BY DEF IInv, Reads, FrameTypes, Counted, HandledInOrder
  <2>. HIDE DEF n
  <2>1. \A i \in DOMAIN frames : /\ frames[i].begin \in Nat /\ frames[i].end \in Nat /\ frames[i].declared \in Nat
                                 /\ frames[i].begin < frames[i].end
    BY <2>0, Places
\* The first frame not handled begins where the handling has come to.
  <2>2. ASSUME start < got
        PROVE  n + 1 \in DOMAIN frames /\ frames[n + 1].begin = start
    <3>1. n # Len(frames)
      <4>. SUFFICES ASSUME n = Len(frames) PROVE FALSE
        OBVIOUS
      <4>1. got <= Total
        BY <2>0 DEF HandledInOrder
      <4>2. (frames = <<>> => Total = 0) /\ (frames # <<>> => Total = frames[Len(frames)].end)
        BY <2>0, Places
      <4>3. frames = <<>> <=> n = 0
        BY <2>0 DEF FrameTypes
      <4>4. start = Total
        BY <2>0, <4>2, <4>3
      <4>. QED BY <2>0, <2>2, <4>1, <4>4
    <3>2. n + 1 \in DOMAIN frames
      <4>1. n \in Nat /\ Len(frames) \in Nat /\ n <= Len(frames)
        BY <2>0
      <4>2. n + 1 \in 1..Len(frames)
        BY <4>1, <3>1
      <4>. QED BY <2>0, <4>2
    <3>3. frames[n + 1].begin = IF n + 1 = 1 THEN 0 ELSE frames[(n + 1) - 1].end
      BY <2>0, <3>2 DEF Stream
    <3>4. (n + 1 = 1 <=> n = 0) /\ (n + 1) - 1 = n
      BY <2>0
    <3>. QED BY <2>0, <3>2, <3>3, <3>4
  <2>3. start < got => got - start >= Header
    <3>. SUFFICES ASSUME start < got PROVE got - start >= Header
      OBVIOUS
    <3>1. start + Header <= got
      BY <2>0, <2>2 DEF AtPacket
    <3>. QED BY <2>0, <3>1 DEF Header
  <2>4. ASSUME pump = "failed", frames[n + 1].frame # {"First"}
        PROVE  /\ got - base = BufSize /\ got < frames[n + 1].end
               /\ \A i \in DOMAIN frames : base <= frames[i].begin /\ i < n + 1 => FillsPackets(frames[i])
    <3>1. n + 1 \in DOMAIN frames /\ frames[n + 1].begin = start /\ start < got
      BY <2>0, <2>2, <2>4 DEF ReadOver
    <3>2. got - start < frames[n + 1].declared /\ frames[n + 1].declared <= frames[n + 1].end - frames[n + 1].begin
      BY <2>0, <2>4, <3>1 DEF Failing, Unreadable, Incomplete, Stream, n
    <3>3. got < frames[n + 1].end
      BY <2>0, <2>1, <3>1, <3>2
    <3>4. \A i \in DOMAIN frames : /\ i < n + 1 => frames[i].end <= start
                                   /\ n + 1 < i => frames[n + 1].end <= frames[i].begin
                                   /\ i < n + 1 \/ i = n + 1 \/ n + 1 < i
      BY <2>0, <3>1 DEF Stream
    <3>5. got - base = BufSize
      <4>1. ~\E i \in DOMAIN frames : frames[i].end = got
        BY <2>0, <2>1, <3>1, <3>3, <3>4
      <4>. QED BY <2>0, <2>4, <4>1 DEF ReadOver
    <3>6. ASSUME NEW i \in DOMAIN frames, base <= frames[i].begin, i < n + 1
          PROVE  FillsPackets(frames[i])
      <4>1. frames[i].end < got
        BY <2>0, <2>1, <3>1, <3>4, <3>6
      <4>. QED BY <2>0, <3>6, <4>1 DEF Behind
    <3>. QED BY <3>3, <3>5, <3>6
  <2>. QED BY <2>0, <2>3, <2>4 DEF FailsOnlyOver, ReadOver, n
<1>. QED BY <1>1, FrameInputInvariant, PTL
=============================================================================
