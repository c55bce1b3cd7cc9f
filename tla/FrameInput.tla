----------------------------- MODULE FrameInput -----------------------------
(***************************************************************************)
(* AAServer's way in: the pump of ep2 (dataPump, readWraper) reads what    *)
(* the head unit sends and gives it to handleMessage, which takes it apart *)
(* into frames.  The head unit sends each frame as one bulk transfer; but  *)
(* a read ends only with a short packet or a full buffer, so frames that   *)
(* fill their packets run together with the next ones.                     *)
(* Bytes are named by their place in the stream of all frames sent.        *)
(***************************************************************************)
EXTENDS Framing, Integers, SequencesExt

CONSTANTS Sizes,         \* sizes of the head unit's messages (on the wire, encrypted)
          MaxFrames,     \* bound: frames it sends
          Packet,        \* wMaxPacketSize of ep2 (512)
          BufSize        \* dataPump's buffer (100 KiB)

ASSUME InputAssumption ==
    /\ Sizes \subseteq Nat /\ MaxFrames \in Nat
    /\ Packet \in Nat /\ BufSize \in Nat \ {0}
    /\ Packet >= 4                \* a header is not longer than a packet
    /\ BufSize % Packet = 0       \* FunctionFS rounds the request up to that

VARIABLES
    outgoing,        \* the message the head unit is cutting
    frames,          \* the frames it has sent: place, length as declared, bits
    base,            \* where in the stream the read under way, or the last one, began
    got,             \* how far the pump has read
    start,           \* the place of buffer + start: dataPump's length is got - start
    handled,         \* the frames handled, by number
    pump,            \* "read", "handle", "failed" by the form of its input, "ended"
    threadFinished   \* another pump has ended, or the destructor runs

headunitVars == <<outgoing, frames>>
pumpVars == <<base, got, start, handled>>
vars == <<headunitVars, pumpVars, pump, threadFinished>>

\* The header; a First frame has the total length behind it, which the length
\* in the header leaves out.
Header == 4
Declared(f) == Header + (f.to - f.from)
FrameBytes(f) == Declared(f) + IF f.frame = {"First"} THEN 4 ELSE 0

Total == IF frames = <<>> THEN 0 ELSE Last(frames).end
FillsPackets(f) == (f.end - f.begin) % Packet = 0

Init ==
    /\ outgoing = <<>> /\ frames = <<>>
    /\ base = 0 /\ got = 0 /\ start = 0 /\ handled = <<>>
    /\ pump = "read" /\ threadFinished = FALSE

-----------------------------------------------------------------------------
(* The head unit cuts messages as AAClient does (prepareMessage).          *)

NewOutgoing ==
    /\ outgoing = <<>> /\ Len(frames) < MaxFrames
    /\ \E n \in Sizes : outgoing' = <<NewMessage(1, n, TRUE)>>
    /\ UNCHANGED <<frames, pumpVars, pump, threadFinished>>

SendFrame ==
    /\ outgoing # <<>> /\ Len(frames) < MaxFrames
    /\ LET f == Cut(outgoing[1]) IN
       frames' = Append(frames, [begin |-> Total, end |-> Total + FrameBytes(f),
                                 declared |-> Declared(f), frame |-> f.frame])
    /\ outgoing' = AfterCut(outgoing)
    /\ UNCHANGED <<pumpVars, pump, threadFinished>>

-----------------------------------------------------------------------------
(* The pump.                                                               *)

\* checkTerminate, behind every read and every part handled.
CheckedGoto(place) == pump' = IF threadFinished THEN "ended" ELSE place

\* The read is over: with data it goes on to handle them, without it is
\* checkError's -1, which the loop takes for nothing to do.
ReadReturns(n) == CheckedGoto(IF n > 0 THEN "handle" ELSE "read")

\* A packet of the frame under way.
ReceivePacket ==
    /\ pump = "read" /\ got < Total
    /\ \E k \in DOMAIN frames :
          /\ frames[k].begin <= got /\ got < frames[k].end
          /\ got' = Min({got + Packet, frames[k].end})
    /\ IF got' - got < Packet \/ got' - base = BufSize THEN ReadReturns(got' - start)
                                                      ELSE UNCHANGED pump
    /\ UNCHANGED <<headunitVars, base, start, handled, threadFinished>>

\* Some head units end a transfer that fills its packets with an empty one.
ReceiveEmptyPacket ==
    /\ pump = "read"
    /\ \E k \in DOMAIN frames : frames[k].end = got /\ FillsPackets(frames[k])
    /\ ReadReturns(got - start)
    /\ UNCHANGED <<headunitVars, pumpVars, threadFinished>>

EndPump(place) ==
    /\ pump' = place
    /\ threadFinished' = TRUE

\* The transfer fails: checkError throws.
ReadFails ==
    /\ pump = "read"
    /\ EndPump("ended")
    /\ UNCHANGED <<headunitVars, pumpVars>>

\* SIGUSR1 comes after threadFinished: the error is ignored, the flag is not.
ReadInterrupted ==
    /\ pump = "read" /\ threadFinished
    /\ CheckedGoto("read")
    /\ UNCHANGED <<headunitVars, pumpVars, threadFinished>>

\* Mutants: the rest of the buffer is forgotten, or handled from its beginning.
NextPartOnly(f) == got
NextPartAgain(f) == base

\* start += partLength: what handleMessage returns, length + 4.
NextPart(f) == start + f.declared

\* Mutant: only the header has to be there.
IncompleteHeader(f) == got - start < Header

\* "nbytes<4+length"
Incomplete(f) == got - start < f.declared

\* The total length of a First frame is taken for the beginning of a TLS
\* record: SSL_read fails.
Unreadable(f) == f.frame = {"First"}

\* handleMessage: the frame is handled, or cannot be, or its handler throws.
HandleMessage ==
    /\ pump = "handle"
    /\ \E k \in DOMAIN frames :
          /\ frames[k].begin = start
          /\ LET f == frames[k] IN
             \/ /\ Incomplete(f) \/ Unreadable(f)
                /\ EndPump("failed")
                /\ UNCHANGED pumpVars
             \/ /\ ~Incomplete(f) /\ ~Unreadable(f)
                /\ handled' = Append(handled, k)
                /\ start' = NextPart(f)
                /\ base' = IF start' = got THEN got ELSE base
                /\ \/ /\ CheckedGoto(IF start' = got THEN "read" ELSE "handle")
                      /\ UNCHANGED threadFinished
                   \/ EndPump("ended")
                /\ UNCHANGED got
    /\ UNCHANGED headunitVars

Stop ==
    /\ ~threadFinished
    /\ threadFinished' = TRUE
    /\ UNCHANGED <<headunitVars, pumpVars, pump>>

Next ==
    \/ NewOutgoing \/ SendFrame
    \/ ReceivePacket \/ ReceiveEmptyPacket \/ ReadFails \/ ReadInterrupted
    \/ HandleMessage \/ Stop

\* What is on the bus is transferred, and the pump is a thread of its own.
Spec == Init /\ [][Next]_vars
FairSpec == Spec /\ WF_vars(ReceivePacket) /\ WF_vars(HandleMessage)

-----------------------------------------------------------------------------
(* Properties.                                                             *)

\* Frames are handled in the order they were sent, each once and whole, however
\* the transfers run together and wherever the pump stops: dataPump's loop is
\* always at the beginning of the first frame not handled.
HandledInOrder ==
    /\ \A i \in DOMAIN handled : handled[i] = i
    /\ base <= start /\ start <= got /\ got <= Total /\ got - base <= BufSize
    /\ start = IF handled = <<>> THEN 0 ELSE frames[Len(handled)].end

\* The form of the input ends the pump only over a message in several frames,
\* or over a frame cut off by the end of the buffer, after frames that all
\* filled their packets; even then there is a whole header to look at.
FailsOnlyOver ==
    /\ pump \in {"handle", "failed"} => got - start >= Header
    /\ pump = "failed" =>
          LET k == Len(handled) + 1 IN
          \/ frames[k].frame = {"First"}
          \/ /\ got - base = BufSize /\ got < frames[k].end
             /\ \A i \in DOMAIN frames :
                   base <= frames[i].begin /\ i < k => FillsPackets(frames[i])

\* A frame is handled as soon as it or one behind it ends with a short packet,
\* unless the pump ends.
ShortFrame(j) == j <= Len(frames) /\ ~FillsPackets(frames[j])
FramesHandled ==
    \A j \in 1..MaxFrames : ShortFrame(j) ~> (Len(handled) >= j \/ pump \in {"failed", "ended"})
=============================================================================
