----------------------------- MODULE SendQueue -----------------------------
(***************************************************************************)
(* AAServer's way out: every thread of the server puts messages in         *)
(* sendQueue; one pump thread, "ep1", cuts the front message into frames   *)
(* under sendQueueMutex (getMessage), encrypts each through writeBio and   *)
(* writes it to the USB endpoint (dataPump).  The thread of ep2 uses       *)
(* writeBio too, without a lock, while it accepts the TLS session.         *)
(***************************************************************************)
EXTENDS Framing, FiniteSets

CONSTANTS Sizes,         \* sizes of message contents
          MaxMessages,   \* bound: messages ever queued
          Flights        \* handshake messages of the head unit (two in TLS 1.2)

ASSUME SizesAssumption == Sizes \subseteq Nat
ASSUME BoundsAssumption == MaxMessages \in Nat /\ Flights \in Nat

VARIABLES
    pushed,          \* history: what sendMessage was given, in queue order
    sendQueue,       \* the deque of AaCommunicator
    frames,          \* history: the frames getMessage has cut, in order
    sent,            \* how many of them the endpoint has taken
    writeBio,        \* the memory BIO: the frames its records belong to, 0 for handshake bytes
    record,          \* what BIO_read last put in the pump's buffer
    ep1,             \* where the pump of ep1 is
    ep2,             \* where handleSslHandshake is
    flights,         \* handshake messages accepted so far
    threadFinished   \* one of the pumps ended, or the destructor runs

queueVars == <<pushed, sendQueue>>
tlsVars == <<writeBio, record>>
handshakeVars == <<ep2, flights>>
vars == <<pushed, sendQueue, frames, sent, writeBio, record, ep1, ep2,
          flights, threadFinished>>

Established == flights = Flights /\ ep2 = "idle"
FrontMsg == sendQueue[1]
LastCut == frames[Len(frames)]

Init ==
    /\ pushed = <<>> /\ sendQueue = <<>>
    /\ frames = <<>> /\ sent = 0
    /\ writeBio = <<>> /\ record = <<>>
    /\ ep1 = "get" /\ ep2 = "idle"
    /\ flights = 0
    /\ threadFinished = FALSE

\* sendMessage: the push under sendQueueMutex.
SendMessage(size, encrypted) ==
    /\ Len(pushed) < MaxMessages
    /\ pushed' = Append(pushed, [size |-> size, encrypted |-> encrypted])
    /\ sendQueue' = Append(sendQueue, NewMessage(Len(pushed) + 1, size, encrypted))

\* Version response: plain, from the ep2 thread, before the handshake.
SendVersionResponse ==
    /\ ep2 = "idle" /\ flights = 0
    /\ \E size \in Sizes : SendMessage(size, FALSE)
    /\ UNCHANGED <<frames, sent, tlsVars, ep1, handshakeVars, threadFinished>>

\* Mutant: somebody sends before the handshake is over.
SendEncryptedEarly ==
    /\ \E size \in Sizes : SendMessage(size, TRUE)
    /\ UNCHANGED <<frames, sent, tlsVars, ep1, handshakeVars, threadFinished>>

\* Any other message: encrypted, from ep2, a client's thread or the streaming
\* thread.  The head unit asks for the first one with AuthComplete, after its
\* handshake is over.
SendEncrypted ==
    /\ Established
    /\ \E size \in Sizes : SendMessage(size, TRUE)
    /\ UNCHANGED <<frames, sent, tlsVars, ep1, handshakeVars, threadFinished>>

\* handleSslHandshake up to SSL_accept, which leaves a flight in writeBio ...
SslAccept ==
    /\ ep2 = "idle" /\ flights < Flights /\ ~threadFinished
    /\ ep2' = "drain"
    /\ flights' = flights + 1
    /\ writeBio' = Append(writeBio, 0)
    /\ UNCHANGED <<queueVars, frames, sent, record, ep1, threadFinished>>

\* ... and the loop that drains writeBio into a plain message.
SslDrain ==
    /\ ep2 = "drain"
    /\ \E size \in Sizes : SendMessage(size, FALSE)
    /\ ep2' = "idle"
    /\ writeBio' = <<>>
    /\ UNCHANGED <<frames, sent, record, ep1, flights, threadFinished>>

-----------------------------------------------------------------------------
(* The pump of ep1. *)

EndPump ==
    /\ ep1' = "ended"
    /\ threadFinished' = TRUE

\* getMessage's critical section for an encrypted message: cut, SSL_write.
\* SSL_write of no bytes makes no record.
GetEncrypted ==
    /\ ep1 = "get" /\ sendQueue # <<>> /\ FrontMsg.encrypted
    /\ frames' = Append(frames, Cut(FrontMsg))
    /\ sendQueue' = AfterCut(sendQueue)
    /\ \/ /\ writeBio' = IF Cut(FrontMsg).from = Cut(FrontMsg).to THEN writeBio
                         ELSE Append(writeBio, Len(frames) + 1)
          /\ ep1' = "bio"
          /\ UNCHANGED threadFinished
       \/ /\ EndPump                   \* "SSL_write error"
          /\ UNCHANGED writeBio
    /\ UNCHANGED <<pushed, sent, record, handshakeVars>>

\* After the unlock: BIO_read takes all there is into the pump's buffer.
BioRead ==
    /\ ep1 = "bio"
    /\ \/ /\ writeBio = <<>>           \* "BIO_read error"
          /\ EndPump
          /\ UNCHANGED tlsVars
       \/ /\ writeBio # <<>>
          /\ ep1' = "write"
          /\ record' = writeBio
          /\ writeBio' = <<>>
          /\ UNCHANGED threadFinished
    /\ UNCHANGED <<queueVars, frames, sent, handshakeVars>>

\* getMessage for a plain message.
GetPlain ==
    /\ ep1 = "get" /\ sendQueue # <<>> /\ ~FrontMsg.encrypted
    /\ frames' = Append(frames, Cut(FrontMsg))
    /\ sendQueue' = AfterCut(sendQueue)
    /\ ep1' = "write"
    /\ record' = <<>>
    /\ UNCHANGED <<pushed, sent, writeBio, handshakeVars, threadFinished>>

\* dataPump's write and the checkTerminate after it: the endpoint takes the
\* frame, or the write fails and the pump with it.
WriteFrame ==
    /\ ep1 = "write"
    /\ \/ /\ sent' = sent + 1
          /\ ep1' = IF threadFinished THEN "ended" ELSE "get"
          /\ UNCHANGED threadFinished
       \/ /\ EndPump
          /\ UNCHANGED sent
    /\ UNCHANGED <<queueVars, frames, tlsVars, handshakeVars>>

\* checkTerminate after getMessage, whose wait times out every second, or
\* after a write that SIGUSR1 interrupts.
CheckTerminate ==
    /\ threadFinished
    /\ ep1 \in {"get", "write"}
    /\ ep1' = "ended"
    /\ UNCHANGED <<queueVars, frames, sent, tlsVars, handshakeVars, threadFinished>>

\* Another pump throws (threadTerminated), or the destructor starts.
Stop ==
    /\ ~threadFinished
    /\ threadFinished' = TRUE
    /\ UNCHANGED <<queueVars, frames, sent, tlsVars, ep1, handshakeVars>>

\* getMessage's wait for a message is the guard of both.
GetMessage == GetEncrypted \/ GetPlain
Pump == GetMessage \/ BioRead \/ WriteFrame \/ CheckTerminate
Next == SendVersionResponse \/ SendEncrypted \/ SslAccept \/ SslDrain \/ Pump \/ Stop

Spec == Init /\ [][Next]_vars

-----------------------------------------------------------------------------
(* Properties. *)

\* The types of the variables.
TypeOK ==
    /\ pushed \in Seq([size : Nat, encrypted : BOOLEAN])
    /\ sendQueue \in Seq(Message)
    /\ frames \in Seq(Frame)
    /\ sent \in Nat
    /\ writeBio \in Seq(Nat)
    /\ record \in Seq(Nat)
    /\ ep1 \in {"get", "bio", "write", "ended"}
    /\ ep2 \in {"idle", "drain"}
    /\ flights \in 0..Flights
    /\ threadFinished \in BOOLEAN

\* sendQueue holds the messages pushed last, in the order of the pushes, all
\* of them whole except perhaps the front one, whose cutting has begun.
QueueOK ==
    /\ Len(sendQueue) <= Len(pushed)
    /\ \A i \in 1..Len(sendQueue) :
          LET m == sendQueue[i] IN
          /\ m.id = Len(pushed) - Len(sendQueue) + i
          /\ m.size = pushed[m.id].size
          /\ m.encrypted = pushed[m.id].encrypted
          /\ MessageOK(m)
          /\ i > 1 => m.offset = 0

\* A frame is a slice of a pushed message, at most MaxSize bytes of it when
\* encrypted and the whole of it when plain; it has the First bit exactly when
\* it starts the message and the Last bit exactly when it ends it.
FrameOK(f) ==
    /\ f.id \in 1..Len(pushed)
    /\ f.encrypted = pushed[f.id].encrypted
    /\ f.total = pushed[f.id].size
    /\ f.from <= f.to /\ f.to <= f.total
    /\ f.from = f.to => f.total = 0
    /\ f.encrypted => f.to - f.from <= MaxSize
    /\ ~f.encrypted => f.from = 0 /\ f.to = f.total
    /\ "First" \in f.frame <=> f.from = 0
    /\ "Last" \in f.frame <=> f.to = f.total

FramesOK == \A k \in 1..Len(frames) : FrameOK(frames[k])

\* Frame g may follow frame f: the next slice of the same message, or the
\* start of the next message.
Follows(f, g) ==
    IF "Last" \in f.frame THEN g.id = f.id + 1 /\ g.from = 0
                          ELSE g.id = f.id /\ g.from = f.to

\* Frames leave in queue order and back to back, whoever pushes in between:
\* the first one starts message 1 and each one continues the one before, so
\* no byte is lost, repeated or mixed with another message's.
FramesChained ==
    /\ Len(frames) > 0 => frames[1].id = 1 /\ frames[1].from = 0
    /\ \A k \in 1..(Len(frames) - 1) : Follows(frames[k], frames[k + 1])

\* What is in sendQueue continues what was cut: no message between them is
\* forgotten and none is kept that was cut to its end.
QueueContinues ==
    IF frames = <<>> THEN /\ Len(sendQueue) = Len(pushed)
                          /\ sendQueue # <<>> => FrontMsg.offset = 0
    ELSE IF "Last" \in LastCut.frame
         THEN /\ Len(pushed) - Len(sendQueue) = LastCut.id
              /\ sendQueue # <<>> => FrontMsg.offset = 0
         ELSE /\ sendQueue # <<>>
              /\ FrontMsg.id = LastCut.id
              /\ FrontMsg.offset = LastCut.to

\* The order of the frames: those cut so far are well marked and back to back,
\* and the queue holds exactly what continues them, whoever pushes in between.
Chain == QueueOK /\ FramesOK /\ FramesChained /\ QueueContinues

\* The endpoint has taken every frame cut, except the one in the pump's hands.
SentOK ==
    /\ ep1 = "get" => sent = Len(frames)
    /\ ep1 \in {"bio", "write"} => sent + 1 = Len(frames)
    /\ sent <= Len(frames)

\* The pump takes from writeBio the record of the frame it has just cut and
\* nothing else, although the ep2 thread fills and drains the same BIO and
\* BIO_read is outside the lock.
OwnRecord ==
    /\ ep1 = "bio" /\ LastCut.from # LastCut.to => writeBio = <<Len(frames)>>
    /\ ep1 = "write" => record = IF LastCut.encrypted THEN <<Len(frames)>> ELSE <<>>
=============================================================================
