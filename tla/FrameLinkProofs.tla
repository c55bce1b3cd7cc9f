-------------------------- MODULE FrameLinkProofs --------------------------
(***************************************************************************)
(* Proofs about SendQueue and FrameLink, for any number of messages, any   *)
(* sizes and any MaxSize: SendQueue's types, frames that leave back to     *)
(* back in queue order, and that sender and receiver together are a FIFO   *)
(* of whole messages as long as no transfer fails inside one.              *)
(***************************************************************************)
EXTENDS FrameLink, TLAPS

-----------------------------------------------------------------------------
(* Lemmas about the cutting. *)

\* A frame cut from a queued message is a frame.
LEMMA CutType ==
    ASSUME NEW m \in Message
    PROVE  Cut(m) \in Frame
<1>1. CutBits(m) \in FrameBits
  BY DEF CutBits, FrameBits, Bulk, Message
<1>2. (IF Fits(m) THEN m.size ELSE m.offset + MaxSize) \in Nat
  BY MaxSizeAssumption DEF Message
<1>. QED BY <1>1, <1>2 DEF Cut, Frame, Message

\* The frame cut from a queued message is its next slice, with the right bits.
LEMMA CutIsSlice ==
    ASSUME NEW m \in Message, MessageOK(m)
    PROVE  LET f == Cut(m) IN
           /\ f.id = m.id /\ f.encrypted = m.encrypted /\ f.total = m.size
           /\ f.from = m.offset /\ f.from <= f.to /\ f.to <= f.total
           /\ f.from = f.to => f.total = 0
           /\ f.encrypted => f.to - f.from <= MaxSize
           /\ ~f.encrypted => f.from = 0 /\ f.to = f.total
           /\ "First" \in f.frame <=> f.from = 0
           /\ "Last" \in f.frame <=> f.to = f.total
           /\ Fits(m) <=> f.to = f.total
<1>. DEFINE f == Cut(m)
<1>1. /\ m.size \in Nat /\ m.offset \in Nat /\ m.encrypted \in BOOLEAN
      /\ m.frame \in FrameBits
  BY DEF Message
<1>2. /\ f.id = m.id /\ f.encrypted = m.encrypted /\ f.total = m.size
      /\ f.from = m.offset /\ f.frame = CutBits(m)
      /\ f.to = IF Fits(m) THEN m.size ELSE m.offset + MaxSize
  BY DEF Cut
<1>3. CASE m.offset = 0 /\ m.frame = Bulk
  <2>1. Fits(m) => f.frame = Bulk
    BY <1>2, <1>3 DEF CutBits, Bulk
  <2>2. ~Fits(m) => f.frame = {"First"} /\ m.encrypted /\ m.size > MaxSize
    BY <1>1, <1>2, <1>3, MaxSizeAssumption DEF CutBits, Bulk, Fits
  <2>. QED BY <1>1, <1>2, <1>3, <2>1, <2>2, MaxSizeAssumption DEF Fits, Bulk
<1>4. CASE m.encrypted /\ m.frame = {} /\ 0 < m.offset /\ m.offset < m.size
  <2>1. Fits(m) => f.frame = {"Last"}
    BY <1>2, <1>4 DEF CutBits
  <2>2. ~Fits(m) => f.frame = {}
    BY <1>2, <1>4 DEF CutBits
  <2>. QED BY <1>1, <1>2, <1>4, <2>1, <2>2, MaxSizeAssumption DEF Fits
<1>. QED BY <1>3, <1>4 DEF MessageOK

\* What remains of a message is a message.
LEMMA RemainderType ==
    ASSUME NEW m \in Message
    PROVE  Remainder(m) \in Message
<1>1. {} \in FrameBits /\ m.offset + MaxSize \in Nat
  BY MaxSizeAssumption DEF FrameBits, Message
<1>. QED BY <1>1 DEF Remainder, Message

\* What remains of a message that did not fit is a message cut part of the way.
LEMMA RemainderIsSound ==
    ASSUME NEW m \in Message, MessageOK(m), ~Fits(m)
    PROVE  LET r == Remainder(m) IN
           /\ r \in Message /\ MessageOK(r)
           /\ r.id = m.id /\ r.size = m.size /\ r.encrypted = m.encrypted
           /\ r.offset = Cut(m).to
<1>. DEFINE r == Remainder(m)
<1>1. m.encrypted /\ m.size > m.offset + MaxSize
  BY MaxSizeAssumption DEF Fits, Message
<1>2. /\ r.id = m.id /\ r.size = m.size /\ r.encrypted = m.encrypted
      /\ r.frame = {} /\ r.offset = m.offset + MaxSize
  BY DEF Remainder, Message
<1>3. r \in Message
  BY RemainderType
<1>4. r.offset = Cut(m).to
  BY <1>2 DEF Cut
<1>5. MessageOK(r)
  <2>1. m.offset \in Nat
    BY DEF Message
  <2>. QED BY <1>1, <1>2, <2>1, MaxSizeAssumption DEF MessageOK
<1>. QED BY <1>2, <1>3, <1>4, <1>5

\* The queue after a cut: its front message is gone or shortened.
LEMMA AfterCutShape ==
    ASSUME NEW q \in Seq(Message), q # <<>>
    PROVE  /\ q[1] \in Message
           /\ AfterCut(q) \in Seq(Message)
           /\ Fits(q[1]) => /\ Len(AfterCut(q)) = Len(q) - 1
                            /\ \A i \in 1..(Len(q) - 1) : AfterCut(q)[i] = q[i + 1]
           /\ ~Fits(q[1]) => /\ Len(AfterCut(q)) = Len(q)
                             /\ AfterCut(q)[1] = Remainder(q[1])
                             /\ \A i \in 2..Len(q) : AfterCut(q)[i] = q[i]
<1>1. Len(q) \in Nat /\ Len(q) > 0 /\ q[1] \in Message
  OBVIOUS
<1>2. CASE Fits(q[1])
  BY <1>1, <1>2 DEF AfterCut
<1>3. CASE ~Fits(q[1])
  <2>1. AfterCut(q) = [q EXCEPT ![1] = Remainder(q[1])]
    BY <1>3 DEF AfterCut
  <2>2. Remainder(q[1]) \in Message
    BY <1>1, RemainderType
  <2>. QED BY <1>1, <1>3, <2>1, <2>2
<1>. QED BY <1>2, <1>3

-----------------------------------------------------------------------------
(* Types. *)

\* Every step keeps the types.
LEMMA TypeStep ==
    ASSUME TypeOK, [Next]_vars
    PROVE  TypeOK'
<1>. DEFINE Types == /\ pushed \in Seq([size : Nat, encrypted : BOOLEAN])
                    /\ sendQueue \in Seq(Message)
                    /\ frames \in Seq(Frame)
                    /\ sent \in Nat
                    /\ writeBio \in Seq(Nat)
                    /\ record \in Seq(Nat)
                    /\ ep1 \in {"get", "bio", "write", "ended"}
                    /\ ep2 \in {"idle", "drain"}
                    /\ flights \in 0..Flights
<1>. Types
  BY DEF TypeOK
<1>0. threadFinished' \in BOOLEAN
  BY Zenon DEF TypeOK, Next, Pump, GetMessage, vars, SendVersionResponse, SendEncrypted,
     SslAccept, SslDrain, GetEncrypted, GetPlain, BioRead, WriteFrame, CheckTerminate,
     Stop, EndPump
<1>. USE DEF queueVars, tlsVars, handshakeVars, EndPump
<1>e. <<>> \in Seq(Nat)
  OBVIOUS
<1>1. ASSUME NEW size \in Nat, NEW e \in BOOLEAN, SendMessage(size, e)
      PROVE  /\ pushed' \in Seq([size : Nat, encrypted : BOOLEAN])
             /\ sendQueue' \in Seq(Message)
  <2>1. NewMessage(Len(pushed) + 1, size, e) \in Message
    BY DEF NewMessage, Message, FrameBits, Bulk
  <2>2. [size |-> size, encrypted |-> e] \in [size : Nat, encrypted : BOOLEAN]
    OBVIOUS
  <2>. QED BY <1>1, <2>1, <2>2 DEF SendMessage
<1>2. ASSUME sendQueue # <<>>, frames' = Append(frames, Cut(FrontMsg)),
             sendQueue' = AfterCut(sendQueue)
      PROVE  frames' \in Seq(Frame) /\ sendQueue' \in Seq(Message)
  <2>1. FrontMsg \in Message /\ AfterCut(sendQueue) \in Seq(Message)
    BY <1>2, AfterCutShape DEF FrontMsg
  <2>. QED BY <1>2, <2>1, CutType
<1>3. SendVersionResponse => Types'
  BY <1>1, SizesAssumption DEF SendVersionResponse
<1>4. SendEncrypted => Types'
  BY <1>1, SizesAssumption DEF SendEncrypted
<1>5. SslAccept => Types'
  BY BoundsAssumption DEF SslAccept
<1>6. SslDrain => Types'
  BY <1>1, <1>e, SizesAssumption DEF SslDrain
<1>7. GetEncrypted => Types'
  <2>1. GetEncrypted => UNCHANGED <<pushed, sent, record, ep2, flights>>
                        /\ ep1' \in {"bio", "ended"}
    BY DEF GetEncrypted
  <2>2. GetEncrypted => frames' \in Seq(Frame) /\ sendQueue' \in Seq(Message)
    BY <1>2 DEF GetEncrypted
  <2>3. Append(writeBio, Len(frames) + 1) \in Seq(Nat)
    OBVIOUS
  <2>4. GetEncrypted => writeBio' \in {writeBio, Append(writeBio, Len(frames) + 1)}
    BY DEF GetEncrypted
  <2>5. GetEncrypted => writeBio' \in Seq(Nat)
    BY <2>3, <2>4
  <2>. QED BY <2>1, <2>2, <2>5
<1>8. GetPlain => Types'
  BY <1>2 DEF GetPlain
<1>9. BioRead => Types'
  BY <1>e DEF BioRead
<1>10. WriteFrame => Types'
  BY DEF WriteFrame
<1>11. CheckTerminate => Types'
  BY DEF CheckTerminate
<1>12. Stop => Types'
  BY DEF Stop
<1>13. UNCHANGED vars => Types'
  BY DEF vars
<1>14. Types'
  BY <1>3, <1>4, <1>5, <1>6, <1>7, <1>8, <1>9, <1>10, <1>11, <1>12, <1>13
     DEF Next, Pump, GetMessage
<1>. QED BY <1>0, <1>14, Zenon DEF TypeOK

\* The types of all variables hold in every reachable state.
THEOREM TypeCorrect == Spec => []TypeOK
<1>1. Init => TypeOK
  <2>1. Init => threadFinished \in BOOLEAN
    BY Zenon DEF Init
  <2>2. Init => /\ pushed \in Seq([size : Nat, encrypted : BOOLEAN])
                /\ sendQueue \in Seq(Message)
                /\ frames \in Seq(Frame)
                /\ sent \in Nat
                /\ writeBio \in Seq(Nat)
                /\ record \in Seq(Nat)
                /\ ep1 \in {"get", "bio", "write", "ended"}
                /\ ep2 \in {"idle", "drain"}
                /\ flights \in 0..Flights
    BY BoundsAssumption DEF Init
  <2>. QED BY <2>1, <2>2, Zenon DEF TypeOK
<1>. QED BY <1>1, TypeStep, PTL DEF Spec

-----------------------------------------------------------------------------
(* The order of the frames. *)

QueueTypes ==
    /\ pushed \in Seq([size : Nat, encrypted : BOOLEAN])
    /\ sendQueue \in Seq(Message)
    /\ frames \in Seq(Frame)

\* A push adds a whole message behind the others and disturbs no frame.
LEMMA PushKeepsChain ==
    ASSUME QueueTypes, Chain, UNCHANGED frames,
           NEW size \in Nat, NEW e \in BOOLEAN, SendMessage(size, e)
    PROVE  Chain'
<1>. DEFINE m == NewMessage(Len(pushed) + 1, size, e)
            p == [size |-> size, encrypted |-> e]
<1>1. /\ Len(pushed) \in Nat /\ Len(sendQueue) \in Nat /\ Len(frames) \in Nat
      /\ m \in Message /\ p \in [size : Nat, encrypted : BOOLEAN]
  BY DEF QueueTypes, NewMessage, Message, FrameBits, Bulk
<1>2. /\ Len(pushed') = Len(pushed) + 1
      /\ pushed'[Len(pushed) + 1] = p
      /\ \A i \in 1..Len(pushed) : pushed'[i] = pushed[i]
  BY <1>1 DEF SendMessage, QueueTypes
<1>3. /\ sendQueue' \in Seq(Message)
      /\ Len(sendQueue') = Len(sendQueue) + 1
      /\ sendQueue'[Len(sendQueue) + 1] = m
      /\ \A i \in 1..Len(sendQueue) : sendQueue'[i] = sendQueue[i]
  BY <1>1 DEF SendMessage, QueueTypes
<1>4. QueueOK'
  <2>1. Len(sendQueue') <= Len(pushed')
    BY <1>1, <1>2, <1>3 DEF Chain, QueueOK
  <2>2. ASSUME NEW i \in 1..Len(sendQueue)
        PROVE  LET n == sendQueue'[i] IN
               /\ n.id = Len(pushed') - Len(sendQueue') + i
               /\ n.size = pushed'[n.id].size
               /\ n.encrypted = pushed'[n.id].encrypted
               /\ MessageOK(n)
               /\ i > 1 => n.offset = 0
    <3>1. sendQueue'[i] = sendQueue[i]
      BY <1>3
    <3>2. LET n == sendQueue[i] IN
          /\ n.id = Len(pushed) - Len(sendQueue) + i
          /\ n.size = pushed[n.id].size
          /\ n.encrypted = pushed[n.id].encrypted
          /\ MessageOK(n)
          /\ i > 1 => n.offset = 0
      BY DEF Chain, QueueOK
    <3>3. Len(sendQueue) <= Len(pushed)
      BY DEF Chain, QueueOK
    <3>4. sendQueue[i].id \in 1..Len(pushed)
      BY <1>1, <3>2, <3>3
    <3>5. pushed'[sendQueue[i].id] = pushed[sendQueue[i].id]
      BY <1>2, <3>4
    <3>. QED BY <1>1, <1>2, <1>3, <3>1, <3>2, <3>5
  <2>3. LET i == Len(sendQueue) + 1
            n == sendQueue'[i] IN
               /\ n.id = Len(pushed') - Len(sendQueue') + i
               /\ n.size = pushed'[n.id].size
               /\ n.encrypted = pushed'[n.id].encrypted
               /\ MessageOK(n)
               /\ n.offset = 0
    BY <1>1, <1>2, <1>3 DEF NewMessage, MessageOK
  <2>4. 1..Len(sendQueue') = 1..Len(sendQueue) \union {Len(sendQueue) + 1}
    BY <1>1, <1>3
  <2>. QED BY <2>1, <2>2, <2>3, <2>4 DEF QueueOK
<1>5. FramesOK'
  <2> SUFFICES ASSUME NEW k \in 1..Len(frames) PROVE FrameOK(frames[k])'
    BY DEF FramesOK
  <2>1. FrameOK(frames[k])
    BY DEF Chain, FramesOK
  <2>. QED BY <1>1, <1>2, <2>1 DEF FrameOK
<1>6. FramesChained'
  BY DEF Chain, FramesChained, Follows
<1>7. QueueContinues'
  <2>1. sendQueue' # <<>>
    BY <1>1, <1>3
  <2>2. sendQueue # <<>> => FrontMsg' = FrontMsg
    BY <1>1, <1>3 DEF FrontMsg, QueueTypes
  <2>3. sendQueue = <<>> => FrontMsg'.offset = 0
    BY <1>1, <1>3 DEF FrontMsg, NewMessage
  <2>4. LastCut' = LastCut
    BY DEF LastCut
  <2>. QED BY <1>1, <1>2, <1>3, <2>1, <2>2, <2>3, <2>4 DEF QueueContinues, Chain
<1>. QED BY <1>4, <1>5, <1>6, <1>7 DEF Chain

\* getMessage's critical section cuts the frame that continues the last one
\* and leaves in the queue what continues it.
LEMMA CutKeepsChain ==
    ASSUME QueueTypes, Chain, UNCHANGED pushed, sendQueue # <<>>,
           frames' = Append(frames, Cut(FrontMsg)),
           sendQueue' = AfterCut(sendQueue)
    PROVE  Chain'
<1>. DEFINE m == FrontMsg
            f == Cut(m)
<1>1. /\ Len(pushed) \in Nat /\ Len(frames) \in Nat
      /\ Len(sendQueue) \in Nat /\ Len(sendQueue) >= 1
      /\ m \in Message /\ m = sendQueue[1]
  BY AfterCutShape DEF QueueTypes, FrontMsg
<1>2. /\ Len(sendQueue) <= Len(pushed)
      /\ m.id = Len(pushed) - Len(sendQueue) + 1
      /\ m.size = pushed[m.id].size
      /\ m.encrypted = pushed[m.id].encrypted
      /\ MessageOK(m)
  BY <1>1 DEF Chain, QueueOK
<1>3. /\ f \in Frame
      /\ f.id = m.id /\ f.encrypted = m.encrypted /\ f.total = m.size
      /\ f.from = m.offset /\ f.from <= f.to /\ f.to <= f.total
      /\ f.from = f.to => f.total = 0
      /\ f.encrypted => f.to - f.from <= MaxSize
      /\ ~f.encrypted => f.from = 0 /\ f.to = f.total
      /\ "First" \in f.frame <=> f.from = 0
      /\ "Last" \in f.frame <=> f.to = f.total
      /\ Fits(m) <=> f.to = f.total
  BY <1>1, <1>2, CutType, CutIsSlice
<1>4. /\ Len(frames') = Len(frames) + 1
      /\ frames'[Len(frames) + 1] = f
      /\ \A k \in 1..Len(frames) : frames'[k] = frames[k]
      /\ frames' \in Seq(Frame) /\ frames' # <<>>
      /\ LastCut' = f
  <2>1. /\ Len(frames') = Len(frames) + 1
        /\ frames'[Len(frames) + 1] = f
        /\ \A k \in 1..Len(frames) : frames'[k] = frames[k]
        /\ frames' \in Seq(Frame)
    BY <1>1, <1>3 DEF QueueTypes
  <2>. QED BY <1>1, <2>1 DEF LastCut
<1>5. /\ sendQueue' \in Seq(Message)
      /\ Fits(m) => /\ Len(sendQueue') = Len(sendQueue) - 1
                    /\ \A i \in 1..(Len(sendQueue) - 1) : sendQueue'[i] = sendQueue[i + 1]
      /\ ~Fits(m) => /\ Len(sendQueue') = Len(sendQueue)
                     /\ sendQueue'[1] = Remainder(m)
                     /\ \A i \in 2..Len(sendQueue) : sendQueue'[i] = sendQueue[i]
  BY <1>1, AfterCutShape DEF QueueTypes
<1>6. ~Fits(m) => LET r == Remainder(m) IN
                  /\ MessageOK(r) /\ r.offset = f.to
                  /\ r.id = m.id /\ r.size = m.size /\ r.encrypted = m.encrypted
  BY <1>1, <1>2, RemainderIsSound
<1>7. QueueOK'
  <2> SUFFICES ASSUME NEW i \in 1..Len(sendQueue')
               PROVE  LET n == sendQueue'[i] IN
                      /\ n.id = Len(pushed) - Len(sendQueue') + i
                      /\ n.size = pushed[n.id].size
                      /\ n.encrypted = pushed[n.id].encrypted
                      /\ MessageOK(n)
                      /\ i > 1 => n.offset = 0
    <3>1. Len(sendQueue') <= Len(pushed')
      BY <1>1, <1>2, <1>5
    <3>. QED BY <3>1 DEF QueueOK
  <2>0. ASSUME NEW j \in 1..Len(sendQueue)
        PROVE  LET n == sendQueue[j] IN
               /\ n.id = Len(pushed) - Len(sendQueue) + j
               /\ n.size = pushed[n.id].size
               /\ n.encrypted = pushed[n.id].encrypted
               /\ MessageOK(n)
               /\ j > 1 => n.offset = 0
    BY DEF Chain, QueueOK
  <2>1. CASE Fits(m)
    <3>1. /\ Len(sendQueue') = Len(sendQueue) - 1
          /\ i + 1 \in 1..Len(sendQueue)
          /\ sendQueue'[i] = sendQueue[i + 1]
          /\ i \in Nat \ {0}
      BY <1>1, <1>5, <2>1
    <3>2. LET n == sendQueue[i + 1] IN
          /\ n.id = Len(pushed) - Len(sendQueue) + (i + 1)
          /\ n.size = pushed[n.id].size
          /\ n.encrypted = pushed[n.id].encrypted
          /\ MessageOK(n)
          /\ i + 1 > 1 => n.offset = 0
      BY <3>1, <2>0
    <3>3. Len(pushed) - Len(sendQueue') + i = Len(pushed) - Len(sendQueue) + (i + 1)
      BY <1>1, <3>1
    <3>4. i + 1 > 1
      BY <3>1
    <3>. QED BY <3>1, <3>2, <3>3, <3>4
  <2>2. CASE ~Fits(m) /\ i = 1
    BY <1>1, <1>2, <1>5, <1>6, <2>2
  <2>3. CASE ~Fits(m) /\ i > 1
    <3>1. /\ Len(sendQueue') = Len(sendQueue)
          /\ i \in 2..Len(sendQueue)
          /\ sendQueue'[i] = sendQueue[i]
      BY <1>1, <1>5, <2>3
    <3>. QED BY <1>1, <3>1, <2>0
  <2>. QED BY <1>1, <2>1, <2>2, <2>3
<1>8. FramesOK'
  <2> SUFFICES ASSUME NEW k \in 1..Len(frames') PROVE FrameOK(frames[k])'
    BY DEF FramesOK
  <2>1. CASE k \in 1..Len(frames)
    <3>1. FrameOK(frames[k])
      BY <2>1 DEF Chain, FramesOK
    <3>. QED BY <1>4, <2>1, <3>1 DEF FrameOK
  <2>2. CASE k = Len(frames) + 1
    <3>1. m.id \in 1..Len(pushed)
      BY <1>1, <1>2
    <3>2. FrameOK(f)
      BY <1>2, <1>3, <3>1 DEF FrameOK
    <3>. QED BY <1>4, <2>2, <3>2 DEF FrameOK
  <2>. QED BY <1>1, <1>4, <2>1, <2>2
<1>9. FramesChained'
  <2>1. CASE frames = <<>>
    <3>1. Len(frames') = 1 /\ frames'[1] = f
      BY <1>4, <2>1
    <3>2. f.id = 1 /\ f.from = 0
      BY <1>1, <1>2, <1>3, <2>1 DEF Chain, QueueContinues
    <3>. QED BY <3>1, <3>2 DEF FramesChained
  <2>2. CASE frames # <<>>
    <3>1. Len(frames) >= 1 /\ LastCut = frames[Len(frames)]
      BY <1>1, <2>2 DEF QueueTypes, LastCut
    <3>2. Follows(frames[Len(frames)], f)
      BY <1>1, <1>2, <1>3, <2>2, <3>1 DEF Chain, QueueContinues, Follows
    <3>3. ASSUME NEW k \in 1..(Len(frames') - 1)
          PROVE  Follows(frames'[k], frames'[k + 1])
      <4>1. CASE k = Len(frames)
        BY <1>1, <1>4, <3>1, <3>2, <4>1
      <4>2. CASE k # Len(frames)
        <5>1. k \in 1..(Len(frames) - 1) /\ k \in 1..Len(frames) /\ k + 1 \in 1..Len(frames)
          BY <1>1, <1>4, <4>2
        <5>. QED BY <1>4, <5>1 DEF Chain, FramesChained
      <4>. QED BY <4>1, <4>2
    <3>4. frames'[1].id = 1 /\ frames'[1].from = 0
      BY <1>1, <1>4, <3>1 DEF Chain, FramesChained
    <3>. QED BY <3>3, <3>4 DEF FramesChained, Follows
  <2>. QED BY <2>1, <2>2
<1>10. QueueContinues'
  <2>1. CASE Fits(m)
    <3>1. "Last" \in LastCut'.frame
      BY <1>3, <1>4, <2>1
    <3>2. Len(pushed') - Len(sendQueue') = LastCut'.id
      BY <1>1, <1>2, <1>3, <1>4, <1>5, <2>1
    <3>3. sendQueue' # <<>> => FrontMsg'.offset = 0
      <4>1. sendQueue' # <<>> => 2 \in 1..Len(sendQueue) /\ FrontMsg' = sendQueue[2]
        BY <1>1, <1>5, <2>1 DEF FrontMsg
      <4>. QED BY <4>1 DEF Chain, QueueOK
    <3>. QED BY <1>4, <3>1, <3>2, <3>3 DEF QueueContinues
  <2>2. CASE ~Fits(m)
    <3>1. "Last" \notin LastCut'.frame
      BY <1>3, <1>4, <2>2
    <3>2. sendQueue' # <<>> /\ FrontMsg' = Remainder(m)
      BY <1>1, <1>5, <2>2 DEF FrontMsg
    <3>. QED BY <1>3, <1>4, <1>6, <2>2, <3>1, <3>2 DEF QueueContinues
  <2>. QED BY <2>1, <2>2
<1>. QED BY <1>7, <1>8, <1>9, <1>10 DEF Chain

\* Frames leave in queue order and back to back in every reachable state.
THEOREM ChainHolds == Spec => []Chain
<1>1. Init => Chain
  BY DEF Init, Chain, QueueOK, FramesOK, FramesChained, QueueContinues
<1>2. TypeOK /\ Chain /\ [Next]_vars => Chain'
  <2> SUFFICES ASSUME TypeOK, Chain, [Next]_vars PROVE Chain'
    OBVIOUS
  <2>0. QueueTypes
    BY DEF TypeOK, QueueTypes
  <2>1. ASSUME UNCHANGED <<pushed, sendQueue, frames>> PROVE Chain'
    BY <2>1 DEF Chain, QueueOK, FramesOK, FrameOK, FramesChained, Follows,
                QueueContinues, FrontMsg, LastCut
  <2>2. CASE SendVersionResponse
    BY <2>0, <2>2, PushKeepsChain, SizesAssumption DEF SendVersionResponse
  <2>3. CASE SendEncrypted
    BY <2>0, <2>3, PushKeepsChain, SizesAssumption DEF SendEncrypted
  <2>4. CASE SslAccept
    BY <2>1, <2>4 DEF SslAccept, queueVars
  <2>5. CASE SslDrain
    BY <2>0, <2>5, PushKeepsChain, SizesAssumption DEF SslDrain
  <2>6. CASE GetEncrypted
    BY <2>0, <2>6, CutKeepsChain DEF GetEncrypted
  <2>7. CASE GetPlain
    BY <2>0, <2>7, CutKeepsChain DEF GetPlain
  <2>8. CASE BioRead
    BY <2>1, <2>8 DEF BioRead, queueVars
  <2>9. CASE WriteFrame
    BY <2>1, <2>9 DEF WriteFrame, queueVars
  <2>10. CASE CheckTerminate
    BY <2>1, <2>10 DEF CheckTerminate, queueVars
  <2>11. CASE Stop
    BY <2>1, <2>11 DEF Stop, queueVars
  <2>12. CASE UNCHANGED vars
    BY <2>1, <2>12 DEF vars
  <2>. QED BY <2>2, <2>3, <2>4, <2>5, <2>6, <2>7, <2>8, <2>9, <2>10, <2>11, <2>12
           DEF Next, Pump, GetMessage
<1>. QED BY <1>1, <1>2, TypeCorrect, PTL DEF Spec

-----------------------------------------------------------------------------
(* The memory BIO that two threads use without a lock. *)

\* Encrypted messages exist only once the session is established; until then
\* ep2 alone uses writeBio, from then on ep1 alone does.
BioInv ==
    /\ \A i \in 1..Len(pushed) : pushed[i].encrypted => Established
    /\ ep1 \in {"bio", "write"} => frames # <<>>
    /\ ep1 = "bio" => LastCut.encrypted
    /\ ep2 = "drain" => ep1 # "bio"
    /\ ep2 = "idle" => writeBio = IF ep1 = "bio" /\ LastCut.from # LastCut.to
                                  THEN <<Len(frames)>> ELSE <<>>
    /\ ep1 = "write" => record = IF LastCut.encrypted THEN <<Len(frames)>> ELSE <<>>

\* An encrypted frame or queue entry is evidence of an established session.
LEMMA EncryptedMeansEstablished ==
    ASSUME TypeOK, Chain, BioInv
    PROVE  /\ sendQueue # <<>> /\ FrontMsg.encrypted => Established
           /\ frames # <<>> /\ LastCut.encrypted => Established
<1>1. Len(sendQueue) \in Nat /\ Len(frames) \in Nat /\ Len(pushed) \in Nat
  BY DEF TypeOK
<1>2. ASSUME sendQueue # <<>>, FrontMsg.encrypted PROVE Established
  <2>1. 1 \in 1..Len(sendQueue)
    BY <1>1, <1>2 DEF TypeOK
  <2>2. /\ FrontMsg.id = Len(pushed) - Len(sendQueue) + 1
        /\ FrontMsg.encrypted = pushed[FrontMsg.id].encrypted
        /\ Len(sendQueue) <= Len(pushed)
    BY <2>1 DEF Chain, QueueOK, FrontMsg
  <2>3. FrontMsg.id \in 1..Len(pushed)
    BY <1>1, <2>1, <2>2
  <2>. QED BY <1>2, <2>2, <2>3 DEF BioInv
<1>3. ASSUME frames # <<>>, LastCut.encrypted PROVE Established
  <2>1. Len(frames) \in 1..Len(frames)
    BY <1>1, <1>3 DEF TypeOK
  <2>2. FrameOK(LastCut)
    BY <2>1 DEF Chain, FramesOK, LastCut
  <2>. QED BY <1>3, <2>2 DEF FrameOK, BioInv
<1>. QED BY <1>2, <1>3

\* A push keeps BioInv when what is pushed is plain or the session is there.
LEMMA PushKeepsBio ==
    ASSUME TypeOK, Chain, BioInv, NEW size \in Nat, NEW e \in BOOLEAN,
           SendMessage(size, e),
           UNCHANGED <<frames, tlsVars, ep1, handshakeVars>>,
           e => Established
    PROVE  BioInv'
<1>1. /\ Len(pushed) \in Nat
      /\ Len(pushed') = Len(pushed) + 1
      /\ pushed'[Len(pushed) + 1].encrypted = e
      /\ \A i \in 1..Len(pushed) : pushed'[i] = pushed[i]
  BY DEF SendMessage, TypeOK
<1>2. \A i \in 1..Len(pushed') : pushed'[i].encrypted => Established'
  BY <1>1 DEF BioInv, Established, handshakeVars
<1>. QED BY <1>2 DEF BioInv, LastCut, tlsVars, handshakeVars

\* The pump finds in writeBio the record of its own frame and nothing else.
THEOREM OwnRecordHolds == Spec => []OwnRecord
<1>1. Init => BioInv
  BY DEF Init, BioInv
<1>2. TypeOK /\ Chain /\ BioInv /\ [Next]_vars => BioInv'
  <2> SUFFICES ASSUME TypeOK, Chain, BioInv, [Next]_vars PROVE BioInv'
    OBVIOUS
  <2>0. Len(frames) \in Nat /\ Len(pushed) \in Nat /\ ep2 \in {"idle", "drain"}
        /\ ep1 \in {"get", "bio", "write", "ended"}
    BY DEF TypeOK
  <2>1. CASE SendVersionResponse
    BY <2>1, PushKeepsBio, SizesAssumption DEF SendVersionResponse
  <2>2. CASE SendEncrypted
    BY <2>2, PushKeepsBio, SizesAssumption DEF SendEncrypted
  <2>3. CASE SslAccept
    <3>1. ~Established /\ flights' # flights /\ ep2' = "drain"
      BY <2>3, BoundsAssumption DEF SslAccept, Established, TypeOK
    <3>2. ep1 # "bio"
      BY <3>1, EncryptedMeansEstablished DEF BioInv
    <3>3. \A i \in 1..Len(pushed) : ~pushed[i].encrypted
      BY <3>1 DEF BioInv
    <3>. QED BY <2>3, <3>1, <3>2, <3>3 DEF BioInv, SslAccept, queueVars, LastCut
  <2>4. CASE SslDrain
    <3>1. ~Established /\ ep1 # "bio"
      BY <2>4 DEF SslDrain, Established, BioInv
    <3>2. PICK size \in Sizes : SendMessage(size, FALSE)
      BY <2>4 DEF SslDrain
    <3>3. /\ Len(pushed') = Len(pushed) + 1
          /\ pushed'[Len(pushed) + 1].encrypted = FALSE
          /\ \A i \in 1..Len(pushed) : pushed'[i] = pushed[i]
      BY <2>0, <3>2, SizesAssumption DEF SendMessage, TypeOK
    <3>4. \A i \in 1..Len(pushed') : ~pushed'[i].encrypted
      BY <2>0, <3>1, <3>3 DEF BioInv
    <3>. QED BY <2>4, <3>1, <3>4 DEF BioInv, SslDrain, LastCut
  <2>5. ASSUME sendQueue # <<>>, frames' = Append(frames, Cut(FrontMsg))
        PROVE  /\ Len(frames') = Len(frames) + 1 /\ frames' # <<>>
               /\ LastCut' = Cut(FrontMsg)
               /\ LastCut'.encrypted = FrontMsg.encrypted
    <3>1. FrontMsg \in Message
      BY <2>5, AfterCutShape DEF TypeOK, FrontMsg
    <3>2. Cut(FrontMsg) \in Frame
      BY <3>1, CutType
    <3>3. /\ Len(frames') = Len(frames) + 1
          /\ frames'[Len(frames) + 1] = Cut(FrontMsg)
          /\ frames' \in Seq(Frame)
      BY <2>5, <3>2 DEF TypeOK
    <3>4. LastCut' = Cut(FrontMsg)
      BY <2>0, <3>3 DEF LastCut
    <3>5. LastCut'.encrypted = FrontMsg.encrypted
      BY <3>4 DEF Cut
    <3>. QED BY <2>0, <3>3, <3>4, <3>5
  <2>6. CASE GetEncrypted
    <3>1. Established /\ ep2 = "idle" /\ writeBio = <<>>
      BY <2>6, EncryptedMeansEstablished DEF GetEncrypted, Established, BioInv
    <3>2. /\ Len(frames') = Len(frames) + 1 /\ frames' # <<>>
          /\ LastCut' = Cut(FrontMsg) /\ LastCut'.encrypted
      BY <2>5, <2>6 DEF GetEncrypted
    <3>3. CASE ep1' = "bio"
      <4>1. writeBio' = IF LastCut'.from = LastCut'.to THEN <<>> ELSE <<Len(frames')>>
        BY <2>6, <3>1, <3>2, <3>3 DEF GetEncrypted, EndPump
      <4>. QED BY <2>6, <3>1, <3>2, <3>3, <4>1
              DEF GetEncrypted, BioInv, handshakeVars, Established
    <3>4. CASE ep1' = "ended"
      <4>1. writeBio' = <<>>
        BY <2>6, <3>1, <3>4 DEF GetEncrypted, EndPump
      <4>. QED BY <2>6, <3>1, <3>4, <4>1
              DEF GetEncrypted, BioInv, handshakeVars, Established
    <3>. QED BY <2>6, <3>3, <3>4 DEF GetEncrypted, EndPump
  <2>7. CASE GetPlain
    <3>1. /\ Len(frames') = Len(frames) + 1 /\ frames' # <<>>
          /\ LastCut'.encrypted = FrontMsg.encrypted
      BY <2>5, <2>7 DEF GetPlain
    <3>. QED BY <2>7, <3>1 DEF GetPlain, BioInv, handshakeVars, Established
  <2>8. CASE BioRead
    <3>1. /\ UNCHANGED <<pushed, frames, ep2, flights>> /\ ep1 = "bio"
          /\ ep1' \in {"write", "ended"} /\ writeBio' = <<>>
          /\ ep1' = "write" => writeBio # <<>> /\ record' = writeBio
      BY <2>8 DEF BioRead, EndPump, queueVars, tlsVars, handshakeVars
    <3>2. ep2 = "idle" /\ frames # <<>> /\ LastCut.encrypted /\ LastCut' = LastCut
      BY <2>0, <3>1 DEF BioInv, LastCut
    <3>3. ep1' = "write" => record' = <<Len(frames)>>
      BY <3>1, <3>2 DEF BioInv
    <3>. QED BY <3>1, <3>2, <3>3 DEF BioInv, Established
  <2>9. CASE WriteFrame
    BY <2>9 DEF WriteFrame, EndPump, BioInv, queueVars, tlsVars, handshakeVars, LastCut, Established
  <2>10. CASE CheckTerminate
    BY <2>10 DEF CheckTerminate, BioInv, queueVars, tlsVars, handshakeVars, LastCut, Established
  <2>11. CASE Stop
    BY <2>11 DEF Stop, BioInv, queueVars, tlsVars, handshakeVars, LastCut, Established
  <2>12. CASE UNCHANGED vars
    BY <2>12 DEF vars, BioInv, LastCut, Established
  <2>. QED BY <2>1, <2>2, <2>3, <2>4, <2>6, <2>7, <2>8, <2>9, <2>10, <2>11, <2>12
           DEF Next, Pump, GetMessage
<1>3. TypeOK /\ BioInv => OwnRecord
  BY DEF TypeOK, BioInv, OwnRecord
<1>. QED BY <1>1, <1>2, <1>3, TypeCorrect, ChainHolds, PTL DEF Spec

-----------------------------------------------------------------------------
(* What the endpoint has taken. *)

\* At most the frames cut have been written, and all but the one in hand.
THEOREM SentHolds == Spec => []SentOK
<1>1. Init => SentOK
  BY DEF Init, SentOK
<1>2. TypeOK /\ SentOK /\ [Next]_vars => SentOK'
  <2> SUFFICES ASSUME TypeOK, SentOK, [Next]_vars PROVE SentOK'
    OBVIOUS
  <2>0. Len(frames) \in Nat /\ sent \in Nat
    BY DEF TypeOK
  <2>1. ASSUME UNCHANGED <<frames, sent, ep1>> PROVE SentOK'
    BY <2>1 DEF SentOK
  <2>2. CASE SendVersionResponse \/ SendEncrypted \/ SslAccept \/ SslDrain \/ Stop \/ UNCHANGED vars
    BY <2>1, <2>2 DEF SendVersionResponse, SendEncrypted, SslAccept, SslDrain, Stop, vars
  <2>3. CASE GetMessage
    <3>1. sent' = sent /\ ep1' \in {"bio", "write", "ended"} /\ sent = Len(frames)
      BY <2>3 DEF GetMessage, GetEncrypted, GetPlain, EndPump, SentOK
    <3>2. FrontMsg \in Message
      BY <2>3, AfterCutShape DEF GetMessage, GetEncrypted, GetPlain, TypeOK, FrontMsg
    <3>3. Len(frames') = Len(frames) + 1
      BY <2>3, <3>2, CutType DEF GetMessage, GetEncrypted, GetPlain, TypeOK
    <3>. QED BY <2>0, <3>1, <3>3 DEF SentOK
  <2>4. CASE BioRead
    BY <2>4 DEF BioRead, EndPump, SentOK
  <2>5. CASE WriteFrame
    BY <2>0, <2>5 DEF WriteFrame, EndPump, SentOK
  <2>6. CASE CheckTerminate
    BY <2>6 DEF CheckTerminate, SentOK
  <2>. QED BY <2>2, <2>3, <2>4, <2>5, <2>6 DEF Next, Pump
<1>. QED BY <1>1, <1>2, TypeCorrect, PTL DEF Spec

-----------------------------------------------------------------------------
(* The receiver, and the link of both. *)

\* The sender of FrameLink is SendQueue, whatever the receiver does.
LEMMA LinkHasSender == LinkSpec => Spec
<1>1. LinkInit => Init
  BY DEF LinkInit
<1>2. [LinkNext]_linkVars => [Next]_vars
  BY DEF LinkNext, linkVars, Receive, TransferFault, LoseFrame, Fail
<1>. QED BY <1>1, <1>2, PTL DEF LinkSpec, Spec

\* What the steps of the receiver rely on: the sender's invariants, and its own.
Sound == TypeOK /\ Chain /\ SentOK
ReceiverTypes ==
    /\ taken \in Nat /\ received \in Nat /\ totalLength \in Nat
    /\ delivered \in Seq(Seq(Slice))
LinkInv == Sound /\ ReceiverTypes /\ Reassembly /\ DeliveredWhole

\* An element of a sequence.
LEMMA Element ==
    ASSUME NEW S, NEW s \in Seq(S), NEW i \in 1..Len(s)
    PROVE  s[i] \in S
OBVIOUS

\* The size of a pushed message.
LEMMA PushedSize ==
    ASSUME TypeOK, NEW i \in 1..Len(pushed)
    PROVE  pushed[i].size \in Nat /\ i \in Nat \ {0}
<1>1. Len(pushed) \in Nat /\ pushed \in Seq([size : Nat, encrypted : BOOLEAN])
  BY DEF TypeOK
<1>2. pushed[i] \in [size : Nat, encrypted : BOOLEAN]
  BY <1>1, Element
<1>. QED BY <1>1, <1>2

\* Appending to a sequence.
LEMMA Appending ==
    ASSUME NEW S, NEW s \in Seq(S), NEW e \in S
    PROVE  /\ Append(s, e) \in Seq(S) /\ Len(s) \in Nat
           /\ Len(Append(s, e)) = Len(s) + 1
           /\ Append(s, e)[Len(s) + 1] = e
           /\ \A i \in 1..Len(s) : Append(s, e)[i] = s[i]
OBVIOUS

\* A piece is a sequence of slices.
LEMMA PieceType ==
    ASSUME NEW id \in Nat \ {0}, NEW from \in Nat, NEW to \in Nat
    PROVE  Piece(id, from, to) \in Seq(Slice)
<1>1. [id |-> id, from |-> from, to |-> to] \in Slice
  BY DEF Slice
<1>. QED BY <1>1 DEF Piece

\* The frame that comes next: the start of the next message after a boundary,
\* the next slice of the message under way otherwise.
LEMMA NextFrame ==
    ASSUME LinkInv, client = "up", taken < sent, NEW f, f = frames[taken + 1]
    PROVE  /\ f \in Frame /\ FrameOK(f) /\ taken + 1 \in 1..Len(frames)
           /\ IF taken = 0 \/ "Last" \in frames[taken].frame
              THEN f.from = 0 /\ f.id = Len(delivered) + 1
              ELSE LET p == frames[taken] IN
                   /\ p \in Frame
                   /\ f.from = p.to /\ f.id = p.id /\ f.total = p.total
                   /\ 0 < p.to
<1>1. /\ Len(frames) \in Nat /\ sent \in Nat /\ taken \in Nat /\ sent <= Len(frames)
      /\ Len(pushed) \in Nat
  BY DEF LinkInv, Sound, ReceiverTypes, TypeOK, SentOK
<1>2. taken + 1 \in 1..Len(frames)
  BY <1>1
<1>3. f \in Frame /\ FrameOK(f)
  BY <1>1, <1>2 DEF LinkInv, Sound, Chain, FramesOK, TypeOK
<1>4. CASE taken = 0
  BY <1>1, <1>2, <1>3, <1>4 DEF LinkInv, Sound, Chain, FramesChained, Reassembly
<1>5. CASE taken # 0
  <2>. DEFINE p == frames[taken]
  <2>1. taken \in 1..Len(frames) /\ taken \in 1..(Len(frames) - 1)
    BY <1>1, <1>2, <1>5
  <2>2. p \in Frame /\ FrameOK(p) /\ Follows(p, f)
    <3>1. \A k \in 1..(Len(frames) - 1) : Follows(frames[k], frames[k + 1])
      BY DEF LinkInv, Sound, Chain, FramesChained
    <3>2. Follows(p, f)
      BY <2>1, <3>1
    <3>3. p \in Frame /\ FrameOK(p)
      BY <2>1 DEF LinkInv, Sound, Chain, FramesOK, TypeOK
    <3>. QED BY <3>2, <3>3
  <2>3. CASE "Last" \in p.frame
    BY <1>2, <1>3, <1>5, <2>2, <2>3 DEF Follows, LinkInv, Reassembly
  <2>4. CASE "Last" \notin p.frame
    <3>1. f.id = p.id /\ f.from = p.to
      BY <2>2, <2>4 DEF Follows
    <3>2. f.total = p.total
      BY <1>3, <2>2, <3>1 DEF FrameOK
    <3>3. 0 < p.to
      BY <2>2, <2>4 DEF FrameOK, Frame
    <3>. QED BY <1>2, <1>3, <1>5, <2>2, <2>4, <3>1, <3>2, <3>3
  <2>. QED BY <2>3, <2>4
<1>. QED BY <1>4, <1>5

\* What one turn of getMessage does: it keeps the message under way, or
\* returns the next message of the queue whole.
LEMMA ReceiveStep ==
    ASSUME LinkInv, Receive
    PROVE  LET f == frames[taken + 1] IN
           /\ f \in Frame /\ f.id = Len(delivered) + 1 /\ f.id \in 1..Len(pushed)
           /\ f.total = pushed[f.id].size
           /\ IF "Last" \in f.frame
              THEN /\ delivered' = Append(delivered, Whole(f.id))
                   /\ fullContent' = <<>> /\ received' = 0 /\ totalLength' = 0
              ELSE /\ delivered' = delivered
                   /\ fullContent' = Piece(f.id, 0, f.to)
                   /\ received' = f.to /\ totalLength' = f.total
<1>. DEFINE f == frames[taken + 1]
           total == IF f.frame = {"First"} THEN f.total ELSE totalLength
           size == received + (f.to - f.from)
<1>1. client = "up" /\ taken < sent
  BY DEF Receive
<1>2. /\ f \in Frame /\ FrameOK(f) /\ taken + 1 \in 1..Len(frames)
      /\ IF taken = 0 \/ "Last" \in frames[taken].frame
         THEN f.from = 0 /\ f.id = Len(delivered) + 1
         ELSE LET p == frames[taken] IN
              /\ p \in Frame
              /\ f.from = p.to /\ f.id = p.id /\ f.total = p.total
              /\ 0 < p.to
  BY <1>1, NextFrame
<1>3. /\ f.id \in 1..Len(pushed) /\ f.total = pushed[f.id].size
      /\ f.from \in Nat /\ f.to \in Nat /\ f.total \in Nat /\ f.id \in Nat \ {0}
      /\ f.from <= f.to /\ f.to <= f.total
      /\ "First" \in f.frame <=> f.from = 0
      /\ "Last" \in f.frame <=> f.to = f.total
      /\ f.frame \in SUBSET {"First", "Last"}
      /\ received \in Nat /\ totalLength \in Nat /\ Len(delivered) \in Nat
  BY <1>2 DEF FrameOK, Frame, FrameBits, Bulk, LinkInv, ReceiverTypes
<1>4. /\ f.id = Len(delivered) + 1
      /\ size = f.to
      /\ "Last" \notin f.frame => total = f.total
      /\ "Last" \in f.frame => total \in {0, f.total}
      /\ Joined(fullContent, f) = Piece(f.id, 0, f.to)
  <2>1. CASE taken = 0 \/ "Last" \in frames[taken].frame
    <3>1. f.from = 0 /\ f.id = Len(delivered) + 1
      BY <1>2, <2>1
    <3>2. fullContent = <<>> /\ received = 0 /\ totalLength = 0
      BY <1>1, <2>1 DEF LinkInv, Reassembly
    <3>3. "Last" \notin f.frame => f.frame = {"First"}
      BY <1>3, <3>1
    <3>4. Joined(fullContent, f) = Piece(f.id, 0, f.to)
      BY <1>3, <3>1, <3>2, PieceType DEF Joined
    <3>. QED BY <1>3, <3>1, <3>2, <3>3, <3>4
  <2>2. CASE ~(taken = 0 \/ "Last" \in frames[taken].frame)
    <3>. DEFINE p == frames[taken]
    <3>1. p \in Frame /\ f.from = p.to /\ f.id = p.id /\ f.total = p.total /\ 0 < p.to
      BY <1>2, <2>2
    <3>2. /\ fullContent = Piece(p.id, 0, p.to)
          /\ received = p.to /\ totalLength = p.total
          /\ Len(delivered) = p.id - 1
      BY <1>1, <2>2 DEF LinkInv, Reassembly
    <3>3. p.to \in Nat /\ p.id \in Nat \ {0}
      BY <3>1 DEF Frame
    <3>4. f.frame # {"First"}
      BY <1>3, <3>1
    <3>5. fullContent = <<[id |-> p.id, from |-> 0, to |-> p.to]>>
      BY <3>1, <3>2, <3>3 DEF Piece
    <3>6. Joined(fullContent, f) = <<[id |-> f.id, from |-> 0, to |-> f.to]>>
      BY <3>1, <3>5 DEF Joined
    <3>7. f.to # 0
      BY <1>3, <3>1, <3>3
    <3>8. Piece(f.id, 0, f.to) = <<[id |-> f.id, from |-> 0, to |-> f.to]>>
      BY <3>7 DEF Piece
    <3>9. f.id = Len(delivered) + 1
      BY <1>3, <3>1, <3>2, <3>3
    <3>10. size = f.to
      BY <1>3, <3>1, <3>2, <3>3
    <3>11. total = f.total
      BY <3>1, <3>2, <3>4
    <3>. QED BY <3>6, <3>8, <3>9, <3>10, <3>11
  <2>. QED BY <2>1, <2>2
<1>5. \/ /\ ~(size >= total)
         /\ fullContent' = Joined(fullContent, f)
         /\ received' = size
         /\ totalLength' = total
         /\ delivered' = delivered
      \/ /\ size >= total
         /\ delivered' = Append(delivered, Joined(fullContent, f))
         /\ fullContent' = <<>> /\ received' = 0 /\ totalLength' = 0
  BY DEF Receive, TotalAfter, Complete
<1>6. CASE "Last" \in f.frame
  <2>1. size >= total
    BY <1>3, <1>4, <1>6
  <2>2. Joined(fullContent, f) = Whole(f.id)
    BY <1>3, <1>4, <1>6 DEF Whole
  <2>. QED BY <1>2, <1>3, <1>4, <1>5, <1>6, <2>1, <2>2
<1>7. CASE "Last" \notin f.frame
  <2>1. size < total
    BY <1>3, <1>4, <1>7
  <2>2. ~(size >= total)
    BY <1>3, <1>4, <1>7, <2>1
  <2>. QED BY <1>2, <1>3, <1>4, <1>5, <1>7, <2>1, <2>2
<1>. QED BY <1>6, <1>7

-----------------------------------------------------------------------------
(* The receiver's invariant. *)

\* The sender's histories only grow.
LEMMA HistoriesGrow ==
    ASSUME TypeOK, [Next]_vars
    PROVE  /\ \A i \in 1..Len(pushed) : pushed'[i] = pushed[i]
           /\ Len(pushed') >= Len(pushed)
           /\ \A k \in 1..Len(frames) : frames'[k] = frames[k]
           /\ sent' >= sent
<1>0. Len(pushed) \in Nat /\ Len(frames) \in Nat /\ sent \in Nat
  BY DEF TypeOK
<1>1. ASSUME NEW size \in Nat, NEW e \in BOOLEAN, SendMessage(size, e)
      PROVE  /\ Len(pushed') = Len(pushed) + 1
             /\ \A i \in 1..Len(pushed) : pushed'[i] = pushed[i]
  BY <1>0, <1>1 DEF SendMessage, TypeOK
<1>2. CASE SendVersionResponse \/ SendEncrypted \/ SslDrain
  <2>1. PICK size \in Nat, e \in BOOLEAN : SendMessage(size, e) /\ frames' = frames /\ sent' = sent
    BY <1>2, SizesAssumption DEF SendVersionResponse, SendEncrypted, SslDrain
  <2>. QED BY <1>0, <1>1, <2>1
<1>3. CASE GetMessage
  <2>1. FrontMsg \in Message
    BY <1>3, AfterCutShape DEF GetMessage, GetEncrypted, GetPlain, TypeOK, FrontMsg
  <2>2. /\ pushed' = pushed /\ sent' = sent
        /\ frames' = Append(frames, Cut(FrontMsg)) /\ Cut(FrontMsg) \in Frame
    BY <1>3, <2>1, CutType DEF GetMessage, GetEncrypted, GetPlain
  <2>3. \A k \in 1..Len(frames) : frames'[k] = frames[k]
    BY <1>0, <2>2 DEF TypeOK
  <2>. QED BY <1>0, <2>2, <2>3
<1>4. CASE SslAccept \/ BioRead \/ WriteFrame \/ CheckTerminate \/ Stop \/ UNCHANGED vars
  <2>1. pushed' = pushed /\ frames' = frames /\ sent' \in {sent, sent + 1}
    BY <1>4 DEF SslAccept, BioRead, WriteFrame, CheckTerminate, Stop, vars, queueVars
  <2>. QED BY <1>0, <2>1
<1>. QED BY <1>2, <1>3, <1>4 DEF Next, Pump

\* Messages already pushed keep their contents.
LEMMA WholeStays ==
    ASSUME TypeOK, [Next]_vars, NEW i \in 1..Len(pushed)
    PROVE  Whole(i)' = Whole(i)
BY HistoriesGrow DEF Whole

\* A step of the sender does not disturb the receiver.
LEMMA SenderKeepsReceiver ==
    ASSUME LinkInv, [Next]_vars, UNCHANGED receiverVars
    PROVE  ReceiverTypes' /\ Reassembly' /\ DeliveredWhole'
<1>1. /\ Len(pushed) \in Nat /\ Len(pushed') \in Nat /\ Len(frames) \in Nat
      /\ sent \in Nat /\ sent' \in Nat /\ taken \in Nat /\ Len(delivered) \in Nat
      /\ sent <= Len(frames) /\ taken <= sent
      /\ TypeOK
  <2>1. TypeOK'
    BY TypeStep DEF LinkInv, Sound
  <2>2. Len(pushed') \in Nat /\ sent' \in Nat
    BY <2>1 DEF TypeOK
  <2>3. Len(pushed) \in Nat /\ Len(frames) \in Nat /\ sent \in Nat /\ TypeOK
    BY DEF LinkInv, Sound, TypeOK
  <2>4. taken \in Nat /\ Len(delivered) \in Nat
    BY DEF LinkInv, ReceiverTypes
  <2>5. sent <= Len(frames) /\ taken <= sent
    BY DEF LinkInv, Sound, SentOK, Reassembly
  <2>. QED BY <2>2, <2>3, <2>4, <2>5
<1>2. ReceiverTypes'
  BY DEF LinkInv, ReceiverTypes, receiverVars, bufferVars
<1>3. taken # 0 => frames'[taken] = frames[taken]
  BY <1>1, HistoriesGrow
<1>4. Reassembly'
  BY <1>1, <1>3, HistoriesGrow DEF LinkInv, Reassembly, receiverVars, bufferVars
<1>5. DeliveredWhole'
  <2>1. Len(delivered') <= Len(pushed')
    BY <1>1, HistoriesGrow DEF LinkInv, DeliveredWhole, receiverVars
  <2>2. ASSUME NEW i \in 1..Len(delivered') PROVE delivered'[i] = Whole(i)'
    <3>1. i \in 1..Len(delivered) /\ i \in 1..Len(pushed)
      BY <1>1 DEF LinkInv, DeliveredWhole, receiverVars
    <3>2. Whole(i)' = Whole(i)
      BY <1>1, <3>1, WholeStays
    <3>. QED BY <3>1, <3>2 DEF LinkInv, DeliveredWhole, receiverVars
  <2>. QED BY <2>1, <2>2 DEF DeliveredWhole
<1>. QED BY <1>2, <1>4, <1>5

\* Nor does a turn of getMessage.
LEMMA ReceiveKeepsReceiver ==
    ASSUME LinkInv, Receive
    PROVE  ReceiverTypes' /\ Reassembly' /\ DeliveredWhole'
<1>. DEFINE f == frames[taken + 1]
<1>1. /\ f \in Frame /\ f.id = Len(delivered) + 1 /\ f.id \in 1..Len(pushed)
      /\ IF "Last" \in f.frame
         THEN /\ delivered' = Append(delivered, Whole(f.id))
              /\ fullContent' = <<>> /\ received' = 0 /\ totalLength' = 0
         ELSE /\ delivered' = delivered
              /\ fullContent' = Piece(f.id, 0, f.to)
              /\ received' = f.to /\ totalLength' = f.total
  BY ReceiveStep
<1>2. /\ taken < sent /\ taken' = taken + 1 /\ client' = "up"
      /\ UNCHANGED <<pushed, frames, sent>>
  BY DEF Receive, vars
<1>3. /\ taken \in Nat /\ sent \in Nat /\ Len(delivered) \in Nat /\ Len(pushed) \in Nat
      /\ delivered \in Seq(Seq(Slice)) /\ f.to \in Nat /\ f.total \in Nat
      /\ received \in Nat /\ totalLength \in Nat
  <2>1. sent \in Nat /\ Len(pushed) \in Nat
    BY DEF LinkInv, Sound, TypeOK
  <2>2. /\ taken \in Nat /\ received \in Nat /\ totalLength \in Nat
        /\ delivered \in Seq(Seq(Slice)) /\ Len(delivered) \in Nat
    BY DEF LinkInv, ReceiverTypes
  <2>3. f.to \in Nat /\ f.total \in Nat
    BY <1>1 DEF Frame
  <2>. QED BY <2>1, <2>2, <2>3
<1>4. Whole(f.id) \in Seq(Slice)
  <2>1. pushed[f.id].size \in Nat /\ f.id \in Nat \ {0}
    BY <1>1, PushedSize DEF LinkInv, Sound
  <2>. QED BY <2>1, PieceType DEF Whole
<1>5. \A i : Whole(i)' = Whole(i)
  BY <1>2 DEF Whole
<1>6. CASE "Last" \in f.frame
  <2>1. /\ delivered' \in Seq(Seq(Slice))
        /\ Len(delivered') = Len(delivered) + 1
        /\ delivered'[Len(delivered) + 1] = Whole(f.id)
        /\ \A i \in 1..Len(delivered) : delivered'[i] = delivered[i]
    <3>1. delivered' = Append(delivered, Whole(f.id))
      BY <1>1, <1>6
    <3>2. ASSUME NEW w \in Seq(Slice)
          PROVE  /\ Append(delivered, w) \in Seq(Seq(Slice))
                 /\ Len(Append(delivered, w)) = Len(delivered) + 1
                 /\ Append(delivered, w)[Len(delivered) + 1] = w
                 /\ \A i \in 1..Len(delivered) : Append(delivered, w)[i] = delivered[i]
      BY <1>3, Appending
    <3>. QED BY <1>4, <3>1, <3>2
  <2>2. ReceiverTypes'
    BY <1>1, <1>2, <1>3, <1>6, <2>1 DEF ReceiverTypes
  <2>3. Reassembly'
    BY <1>1, <1>2, <1>3, <1>6, <2>1 DEF Reassembly
  <2>4. DeliveredWhole'
    <3>1. Len(delivered') <= Len(pushed')
      BY <1>1, <1>2, <1>3, <2>1
    <3>2. ASSUME NEW i \in 1..Len(delivered') PROVE delivered'[i] = Whole(i)
      <4>1. CASE i \in 1..Len(delivered)
        BY <2>1, <4>1 DEF LinkInv, DeliveredWhole
      <4>2. CASE i = Len(delivered) + 1
        BY <1>1, <2>1, <4>2
      <4>. QED BY <1>3, <2>1, <4>1, <4>2
    <3>. QED BY <1>5, <3>1, <3>2 DEF DeliveredWhole
  <2>. QED BY <2>2, <2>3, <2>4
<1>7. CASE "Last" \notin f.frame
  <2>1. ReceiverTypes'
    BY <1>1, <1>2, <1>3, <1>7 DEF ReceiverTypes
  <2>2. Reassembly'
    BY <1>1, <1>2, <1>3, <1>7 DEF Reassembly
  <2>3. DeliveredWhole'
    BY <1>1, <1>2, <1>5, <1>7 DEF LinkInv, DeliveredWhole
  <2>. QED BY <2>1, <2>2, <2>3
<1>. QED BY <1>6, <1>7

\* What holds of a receiver that has failed and returns nothing for it.
LEMMA FailureKeepsDelivered ==
    ASSUME LinkInv, Fail("broken") \/ Fail(client),
           taken' \in Nat, taken' <= sent, client' # "up"
    PROVE  ReceiverTypes' /\ Reassembly' /\ DeliveredWhole'
<1>1. /\ received' = 0 /\ totalLength' = 0
      /\ UNCHANGED <<pushed, frames, sent, delivered>>
  BY DEF Fail, vars
<1>. QED BY <1>1 DEF LinkInv, ReceiverTypes, Reassembly, DeliveredWhole, Whole

\* A fault between messages that brings nothing finds nothing to drop.
LEMMA FaultKeepsReceiver ==
    ASSUME LinkInv, TransferFault, FaultPoints \subseteq {"between"}
    PROVE  ReceiverTypes' /\ Reassembly' /\ DeliveredWhole'
<1>1. /\ received = 0
      /\ fullContent' = <<>> /\ received' = 0 /\ totalLength' = 0
      /\ UNCHANGED <<pushed, frames, sent, taken, delivered>>
  BY DEF TransferFault, Fail, vars
<1>2. taken \in Nat /\ taken <= sent
  BY DEF LinkInv, ReceiverTypes, Reassembly
<1>3. CASE client' # "up"
  <2>1. Fail(client) /\ taken' = taken
    BY DEF TransferFault
  <2>. QED BY <1>2, <1>3, <2>1, FailureKeepsDelivered
<1>4. CASE client' = "up"
  <2>1. client = "up"
    BY <1>4 DEF TransferFault, Fail
  <2>2. ASSUME taken # 0, "Last" \notin frames[taken].frame PROVE FALSE
    <3>1. taken \in 1..Len(frames)
      BY <2>2 DEF LinkInv, Sound, TypeOK, SentOK, ReceiverTypes, Reassembly
    <3>2. FrameOK(frames[taken]) /\ frames[taken] \in Frame
      BY <3>1 DEF LinkInv, Sound, Chain, FramesOK, TypeOK
    <3>3. frames[taken].to > 0
      BY <2>2, <3>2 DEF FrameOK, Frame
    <3>. QED BY <1>1, <2>1, <2>2, <3>3 DEF LinkInv, Reassembly
  <2>. QED BY <1>1, <2>1, <2>2 DEF LinkInv, ReceiverTypes, Reassembly, DeliveredWhole, Whole
<1>. QED BY <1>3, <1>4

\* A receiver that loses a frame returns nothing from then on.
LEMMA LossKeepsReceiver ==
    ASSUME LinkInv, LoseFrame
    PROVE  ReceiverTypes' /\ Reassembly' /\ DeliveredWhole'
<1>1. Fail("broken") /\ taken' = taken + 1 /\ taken < sent
  BY DEF LoseFrame
<1>2. client' # "up"
  BY <1>1 DEF Fail
<1>3. taken' \in Nat /\ taken' <= sent
  BY <1>1 DEF LinkInv, Sound, TypeOK, ReceiverTypes
<1>. QED BY <1>1, <1>2, <1>3, FailureKeepsDelivered

\* Every message the receiver returns is whole and in its turn, whatever frames
\* are lost, when transfers that bring nothing fail only between messages.
THEOREM DeliveryIsWhole ==
    ASSUME FaultPoints \subseteq {"between"}
    PROVE  LinkSpec => []LinkInv
<1>. DEFINE Recv == ReceiverTypes /\ Reassembly /\ DeliveredWhole
<1>1. LinkInit => Recv
  BY DEF LinkInit, Init, ReceiverTypes, Reassembly, DeliveredWhole
<1>2. Sound /\ Recv /\ [LinkNext]_linkVars => Recv'
  <2> SUFFICES ASSUME Sound, Recv, [LinkNext]_linkVars PROVE Recv'
    OBVIOUS
  <2>0. LinkInv
    BY DEF LinkInv
  <2>1. CASE Next /\ UNCHANGED receiverVars
    BY <2>0, <2>1, SenderKeepsReceiver
  <2>2. CASE Receive
    BY <2>0, <2>2, ReceiveKeepsReceiver
  <2>3. CASE TransferFault
    BY <2>0, <2>3, FaultKeepsReceiver
  <2>4. CASE LoseFrame
    BY <2>0, <2>4, LossKeepsReceiver
  <2>5. CASE UNCHANGED linkVars
    BY <2>0, <2>5, SenderKeepsReceiver DEF linkVars
  <2>. QED BY <2>1, <2>2, <2>3, <2>4, <2>5 DEF LinkNext
<1>3. LinkSpec => []Sound
  BY LinkHasSender, TypeCorrect, ChainHolds, SentHolds, PTL DEF Sound
<1>4. Sound /\ Recv => LinkInv
  BY DEF LinkInv
<1>. QED BY <1>1, <1>2, <1>3, <1>4, PTL DEF LinkSpec

\* The property the run checks, for every value of the constants.
COROLLARY DeliveredAlwaysWhole ==
    ASSUME FaultPoints \subseteq {"between"}
    PROVE  LinkSpec => []DeliveredWhole
<1>1. LinkInv => DeliveredWhole
  BY DEF LinkInv
<1>. QED BY <1>1, DeliveryIsWhole, PTL

\* What getMessage holds between two frames is what they have brought.
COROLLARY ReassemblyHolds ==
    ASSUME FaultPoints \subseteq {"between"}
    PROVE  LinkSpec => []Reassembly
<1>1. LinkInv => Reassembly
  BY DEF LinkInv
<1>. QED BY <1>1, DeliveryIsWhole, PTL

-----------------------------------------------------------------------------
(* The refinement. *)

\* Two sequences with the same elements are the same.
LEMMA SameElements ==
    ASSUME NEW S, NEW s \in Seq(S), NEW t \in Seq(S), Len(s) = Len(t),
           \A i \in 1..Len(s) : s[i] = t[i]
    PROVE  s = t
OBVIOUS

\* InFlight as an operator on the log p and the number n of messages returned.
Entry == [size : Nat, encrypted : BOOLEAN]
Pending(p, n) == [i \in 1..(Len(p) - n) |-> Piece(n + i, 0, p[n + i].size)]

\* What is in flight is a sequence of contents.
LEMMA PendingType ==
    ASSUME NEW p \in Seq(Entry), NEW n \in Nat, n <= Len(p)
    PROVE  /\ Pending(p, n) \in Seq(Seq(Slice))
           /\ Len(Pending(p, n)) = Len(p) - n
           /\ \A i \in 1..(Len(p) - n) : Pending(p, n)[i] = Piece(n + i, 0, p[n + i].size)
<1>1. Len(p) \in Nat /\ Len(p) - n \in Nat
  OBVIOUS
<1>2. ASSUME NEW i \in 1..(Len(p) - n) PROVE Piece(n + i, 0, p[n + i].size) \in Seq(Slice)
  <2>1. n + i \in 1..Len(p) /\ n + i \in Nat \ {0}
    BY <1>1
  <2>2. p[n + i] \in Entry
    BY <2>1, Element
  <2>3. p[n + i].size \in Nat
    BY <2>2 DEF Entry
  <2>. QED BY <2>1, <2>3, PieceType
<1>3. Pending(p, n) \in [1..(Len(p) - n) -> Seq(Slice)]
  BY <1>2 DEF Pending
<1>4. Pending(p, n) \in Seq(Seq(Slice)) /\ Len(Pending(p, n)) = Len(p) - n
  BY <1>1, <1>3
<1>. QED BY <1>4 DEF Pending

\* A push puts one more message in flight.
LEMMA PendingPush ==
    ASSUME NEW p \in Seq(Entry), NEW n \in Nat, n <= Len(p), NEW r \in Entry
    PROVE  Pending(Append(p, r), n) = Append(Pending(p, n), Piece(Len(p) + 1, 0, r.size))
<1>. DEFINE q == Append(p, r)
            c == Piece(Len(p) + 1, 0, r.size)
<1>1. /\ Len(p) \in Nat /\ q \in Seq(Entry) /\ Len(q) = Len(p) + 1 /\ n <= Len(q)
      /\ q[Len(p) + 1] = r
      /\ \A i \in 1..Len(p) : q[i] = p[i]
  BY Appending
<1>2. c \in Seq(Slice)
  <2>1. r.size \in Nat /\ Len(p) + 1 \in Nat \ {0}
    BY <1>1 DEF Entry
  <2>. QED BY <2>1, PieceType
<1>3. /\ Pending(p, n) \in Seq(Seq(Slice)) /\ Len(Pending(p, n)) = Len(p) - n
      /\ \A i \in 1..(Len(p) - n) : Pending(p, n)[i] = Piece(n + i, 0, p[n + i].size)
  BY PendingType
<1>4. /\ Pending(q, n) \in Seq(Seq(Slice)) /\ Len(Pending(q, n)) = Len(q) - n
      /\ \A i \in 1..(Len(q) - n) : Pending(q, n)[i] = Piece(n + i, 0, q[n + i].size)
  BY <1>1, PendingType
<1>5. /\ Append(Pending(p, n), c) \in Seq(Seq(Slice))
      /\ Len(Append(Pending(p, n), c)) = Len(p) - n + 1
      /\ Append(Pending(p, n), c)[Len(p) - n + 1] = c
      /\ \A i \in 1..(Len(p) - n) : Append(Pending(p, n), c)[i] = Pending(p, n)[i]
  BY <1>2, <1>3, Appending
<1>6. ASSUME NEW i \in 1..(Len(q) - n)
      PROVE  Pending(q, n)[i] = Append(Pending(p, n), c)[i]
  <2>1. CASE i \in 1..(Len(p) - n)
    <3>1. n + i \in 1..Len(p)
      BY <1>1, <2>1
    <3>2. q[n + i] = p[n + i]
      BY <1>1, <3>1
    <3>3. Pending(q, n)[i] = Piece(n + i, 0, q[n + i].size)
      BY <1>4
    <3>. QED BY <1>3, <1>5, <2>1, <3>2, <3>3
  <2>2. CASE i = Len(p) - n + 1
    <3>1. n + i = Len(p) + 1
      BY <1>1, <2>2
    <3>2. Pending(q, n)[i] = Piece(n + i, 0, q[n + i].size)
      BY <1>4
    <3>. QED BY <1>1, <1>5, <2>2, <3>1, <3>2
  <2>3. i \in 1..(Len(p) - n) \/ i = Len(p) - n + 1
    <3>1. Len(q) - n = (Len(p) - n) + 1 /\ Len(p) - n \in Nat
      BY <1>1
    <3>. QED BY <3>1
  <2>. QED BY <2>1, <2>2, <2>3
<1>7. Len(Pending(q, n)) = Len(Append(Pending(p, n), c))
  BY <1>1, <1>4, <1>5
<1>. QED BY <1>4, <1>5, <1>6, <1>7, SameElements

\* A return takes the first message in flight.
LEMMA PendingReturn ==
    ASSUME NEW p \in Seq(Entry), NEW n \in Nat, n < Len(p)
    PROVE  /\ Pending(p, n) # <<>>
           /\ Pending(p, n)[1] = Piece(n + 1, 0, p[n + 1].size)
           /\ Pending(p, n + 1) = Tail(Pending(p, n))
<1>1. Len(p) \in Nat /\ n <= Len(p) /\ n + 1 <= Len(p) /\ n + 1 \in Nat
  OBVIOUS
<1>2. /\ Pending(p, n) \in Seq(Seq(Slice)) /\ Len(Pending(p, n)) = Len(p) - n
      /\ \A i \in 1..(Len(p) - n) : Pending(p, n)[i] = Piece(n + i, 0, p[n + i].size)
  BY <1>1, PendingType
<1>3. /\ Pending(p, n + 1) \in Seq(Seq(Slice)) /\ Len(Pending(p, n + 1)) = Len(p) - (n + 1)
      /\ \A i \in 1..(Len(p) - (n + 1)) :
            Pending(p, n + 1)[i] = Piece((n + 1) + i, 0, p[(n + 1) + i].size)
  BY <1>1, PendingType
<1>4. Pending(p, n) # <<>> /\ 1 \in 1..(Len(p) - n)
  BY <1>1, <1>2
<1>5. /\ Tail(Pending(p, n)) \in Seq(Seq(Slice))
      /\ Len(Tail(Pending(p, n))) = Len(p) - n - 1
      /\ \A i \in 1..(Len(p) - n - 1) : Tail(Pending(p, n))[i] = Pending(p, n)[i + 1]
  BY <1>1, <1>2, <1>4
<1>6. ASSUME NEW i \in 1..(Len(p) - n - 1)
      PROVE  Pending(p, n + 1)[i] = Tail(Pending(p, n))[i]
  <2>1. i + 1 \in 1..(Len(p) - n) /\ i \in 1..(Len(p) - (n + 1))
    BY <1>1
  <2>2. (n + 1) + i = n + (i + 1)
    BY <1>1
  <2>. QED BY <1>2, <1>3, <1>5, <2>1, <2>2
<1>7. Len(Pending(p, n + 1)) = Len(Tail(Pending(p, n)))
  BY <1>1, <1>3, <1>5
<1>8. Pending(p, n + 1) = Tail(Pending(p, n))
  BY <1>1, <1>3, <1>5, <1>6, <1>7, SameElements
<1>. QED BY <1>2, <1>4, <1>8

\* What is in flight, before and after a step.
LEMMA InFlightIsPending ==
    /\ InFlight = Pending(pushed, Len(delivered))
    /\ InFlight' = Pending(pushed', Len(delivered'))
BY DEF InFlight, Pending, Whole

\* A step of the sender puts one message in flight, or none.
LEMMA SenderRefines ==
    ASSUME LinkInv, [Next]_vars, UNCHANGED delivered
    PROVE  [Fifo!Next]_<<InFlight, delivered>>
<1>1. /\ pushed \in Seq(Entry) /\ Len(pushed) \in Nat
      /\ Len(delivered) \in Nat /\ Len(delivered) <= Len(pushed)
  BY DEF LinkInv, Sound, TypeOK, Entry, ReceiverTypes, DeliveredWhole
<1>2. CASE pushed' = pushed
  BY <1>2, InFlightIsPending
<1>3. ASSUME NEW size \in Sizes, NEW e \in BOOLEAN, SendMessage(size, e)
      PROVE  Fifo!Next
  <2>. DEFINE r == [size |-> size, encrypted |-> e]
              c == Piece(Len(pushed) + 1, 0, size)
  <2>1. r \in Entry /\ r.size = size
    BY SizesAssumption DEF Entry
  <2>2. pushed' = Append(pushed, r) /\ Len(pushed) + 1 \in 1..MaxMessages
    BY <1>1, <1>3, BoundsAssumption DEF SendMessage
  <2>3. InFlight' = Append(InFlight, c)
    BY <1>1, <2>1, <2>2, PendingPush, InFlightIsPending
  <2>4. c \in {Piece(i, 0, n) : i \in 1..MaxMessages, n \in Sizes}
    BY <2>2
  <2>. QED BY <2>3, <2>4 DEF Fifo!Next, Fifo!Accept
<1>4. \/ pushed' = pushed
      \/ \E size \in Sizes, e \in BOOLEAN : SendMessage(size, e)
  BY DEF Next, SendVersionResponse, SendEncrypted, SslAccept, SslDrain, Pump, GetMessage,
         GetEncrypted, GetPlain, BioRead, WriteFrame, CheckTerminate, Stop, vars, queueVars
<1>. QED BY <1>2, <1>3, <1>4

\* A turn of getMessage returns the first message in flight, or none.
LEMMA ReceiveRefines ==
    ASSUME LinkInv, Receive
    PROVE  [Fifo!Next]_<<InFlight, delivered>>
<1>. DEFINE f == frames[taken + 1]
<1>1. /\ pushed \in Seq(Entry) /\ Len(pushed) \in Nat /\ pushed' = pushed
      /\ Len(delivered) \in Nat /\ delivered \in Seq(Seq(Slice))
  BY DEF LinkInv, Sound, TypeOK, Entry, ReceiverTypes, Receive, vars
<1>2. /\ f.id = Len(delivered) + 1 /\ f.id \in 1..Len(pushed)
      /\ IF "Last" \in f.frame THEN delivered' = Append(delivered, Whole(f.id))
                               ELSE delivered' = delivered
  BY ReceiveStep
<1>3. CASE delivered' = delivered
  BY <1>1, <1>3, InFlightIsPending
<1>4. CASE delivered' = Append(delivered, Whole(f.id))
  <2>1. Whole(f.id) \in Seq(Slice)
    <3>1. pushed[f.id].size \in Nat /\ f.id \in Nat \ {0}
      BY <1>2, PushedSize DEF LinkInv, Sound
    <3>. QED BY <3>1, PieceType DEF Whole
  <2>2. Len(delivered') = Len(delivered) + 1
    BY <1>1, <1>4, <2>1, Appending
  <2>3. Len(delivered) < Len(pushed)
    BY <1>1, <1>2
  <2>4. /\ InFlight # <<>>
        /\ InFlight[1] = Whole(f.id)
        /\ InFlight' = Tail(InFlight)
    BY <1>1, <1>2, <2>2, <2>3, PendingReturn, InFlightIsPending DEF Whole
  <2>. QED BY <1>4, <2>4 DEF Fifo!Next, Fifo!Deliver
<1>. QED BY <1>2, <1>3, <1>4

\* Sender and receiver together implement the reliable FIFO.
THEOREM LinkIsFifo ==
    ASSUME FaultPoints \subseteq {"between"}
    PROVE  LinkSpec => FifoSpec
<1>1. LinkInit => Fifo!Init
  BY DEF LinkInit, Init, Fifo!Init, InFlight
<1>2. LinkInv /\ [LinkNext]_linkVars => [Fifo!Next]_<<InFlight, delivered>>
  <2> SUFFICES ASSUME LinkInv, [LinkNext]_linkVars
               PROVE  [Fifo!Next]_<<InFlight, delivered>>
    OBVIOUS
  <2>1. CASE Next /\ UNCHANGED receiverVars
    <3>1. delivered' = delivered
      BY <2>1 DEF receiverVars
    <3>. QED BY <2>1, <3>1, SenderRefines
  <2>2. CASE Receive
    BY <2>2, ReceiveRefines
  <2>3. CASE TransferFault \/ LoseFrame
    BY <2>3, SenderRefines DEF TransferFault, LoseFrame, Fail
  <2>4. CASE UNCHANGED linkVars
    <3>1. vars' = vars /\ delivered' = delivered
      BY <2>4 DEF linkVars, receiverVars
    <3>. QED BY <3>1, SenderRefines
  <2>. QED BY <2>1, <2>2, <2>3, <2>4 DEF LinkNext
<1>. QED BY <1>1, <1>2, DeliveryIsWhole, PTL DEF LinkSpec, FifoSpec, Fifo!Spec, Fifo!vars

=============================================================================
