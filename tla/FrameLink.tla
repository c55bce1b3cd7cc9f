----------------------------- MODULE FrameLink -----------------------------
(***************************************************************************)
(* Both roles of the protocol.  AAServer plays a phone to a car and        *)
(* AAClient a head unit to a phone, so what faces AAClient's getMessage is *)
(* a sender in AAServer's role: here that of SendQueue.  getMessage puts   *)
(* its frames together again.  It keeps what it has so far in local        *)
(* variables, so an exception that leaves it drops them.  Before the TLS   *)
(* session stands nobody catches the exception and AAClient ends;          *)
(* afterwards setup's loop counts it, calls getMessage anew and ends only  *)
(* at GiveUp failures in a row.  A failure that takes a frame with it also *)
(* takes a record out of the TLS stream, and no later one can be decrypted.*)
(***************************************************************************)
EXTENDS SendQueue

CONSTANTS GiveUp,        \* failures in a row at which setup gives up (30)
          FaultPoints    \* where a transfer may bring nothing: "between", "within" messages

ASSUME FaultAssumption == GiveUp \in Nat \ {0} /\ FaultPoints \subseteq {"between", "within"}

VARIABLES
    taken,         \* frames the receiver has read from the pipe
    fullContent,   \* getMessage's buffer, as the slices it is made of
    received,      \* fullContent.size()
    totalLength,   \* from the First frame, 0 without one
    delivered,     \* history: the messages getMessage has returned
    faultCount,    \* failures since the last message returned
    client         \* AAClient: "up", "broken" (its TLS stream lacks a record), "ended"

bufferVars == <<fullContent, received, totalLength>>
receiverVars == <<taken, bufferVars, delivered, faultCount, client>>
linkVars == <<vars, receiverVars>>

LinkInit ==
    /\ Init
    /\ taken = 0 /\ faultCount = 0 /\ client = "up"
    /\ fullContent = <<>> /\ received = 0 /\ totalLength = 0
    /\ delivered = <<>>

Slice == [id : Nat \ {0}, from : Nat, to : Nat]
Piece(id, from, to) == IF from = to THEN <<>> ELSE <<[id |-> id, from |-> from, to |-> to]>>

\* Mutant: the new bytes replace the old ones.
JoinedOver(c, f) == Piece(f.id, f.from, f.to)

\* The bytes of frame f behind content c; slices that touch are one slice.
Joined(c, f) ==
    IF c # <<>> /\ c[Len(c)].id = f.id /\ c[Len(c)].to = f.from
    THEN [c EXCEPT ![Len(c)] = [@ EXCEPT !.to = f.to]]
    ELSE c \o Piece(f.id, f.from, f.to)

\* Mutants: the length is forgotten at the next frame, or is the frame's own.
TotalForgotten(f) == IF f.frame = {"First"} THEN f.total ELSE 0
TotalOfFrame(f) == IF f.frame = {"First"} THEN f.to - f.from ELSE totalLength

\* totalLength once frame f has come.
TotalAfter(f) == IF f.frame = {"First"} THEN f.total ELSE totalLength

\* Mutant: one byte too many is waited for.
CompleteLate(size, total) == size > total

\* The loop ends.
Complete(size, total) == size >= total

\* One turn of getMessage's loop: a transfer brings the next frame, and the
\* message is returned once it has totalLength bytes.
Receive ==
    /\ client = "up" /\ taken < sent
    /\ taken' = taken + 1
    /\ LET f == frames[taken + 1]
           total == TotalAfter(f)
           size == received + (f.to - f.from)
       IN  \/ /\ ~Complete(size, total)
              /\ fullContent' = Joined(fullContent, f)
              /\ received' = size
              /\ totalLength' = total
              /\ UNCHANGED <<delivered, faultCount>>
           \/ /\ Complete(size, total)
              /\ delivered' = Append(delivered, Joined(fullContent, f))
              /\ fullContent' = <<>> /\ received' = 0 /\ totalLength' = 0
              /\ faultCount' = 0
    /\ UNCHANGED <<vars, client>>

\* setup is in the loop that catches: TLS stands, and what was sent in the
\* clear to get there has been read.
Serving ==
    /\ Established
    /\ \A i \in 1..Len(pushed) : pushed[i].encrypted \/ i <= Len(delivered)

\* An exception leaves getMessage, and AAClient is as given when setup stays.
Fail(then) ==
    /\ client # "ended"
    /\ fullContent' = <<>> /\ received' = 0 /\ totalLength' = 0
    /\ faultCount' = faultCount + 1
    /\ client' = IF Serving /\ faultCount + 1 < GiveUp THEN then ELSE "ended"
    /\ UNCHANGED <<vars, delivered>>

\* libusb_bulk_transfer times out or fails and has brought nothing.
TransferFault ==
    /\ (IF received = 0 THEN "between" ELSE "within") \in FaultPoints
    /\ Fail(client)
    /\ UNCHANGED taken

\* A frame is lost: the transfer fails with a part of it in the buffer, or the
\* length is wrong, or it cannot be decrypted, as none can be afterwards.
LoseFrame ==
    /\ taken < sent
    /\ taken' = taken + 1
    /\ Fail("broken")

LinkNext == (Next /\ UNCHANGED receiverVars) \/ Receive \/ TransferFault \/ LoseFrame

LinkSpec == LinkInit /\ [][LinkNext]_linkVars

\* The pump is a thread of its own, and the receiver asks for the next message
\* as long as it is up.
FairLinkSpec ==
    LinkSpec /\ WF_linkVars(Pump /\ UNCHANGED receiverVars) /\ WF_linkVars(Receive)

-----------------------------------------------------------------------------
(* Properties. *)

Whole(i) == Piece(i, 0, pushed[i].size)

\* Between two frames a receiver that has lost none holds exactly what the
\* frames of the message under way have brought, and knows how long it is.
Reassembly ==
    /\ taken <= sent
    /\ client = "up" =>
       IF taken = 0 \/ "Last" \in frames[taken].frame
       THEN /\ fullContent = <<>> /\ received = 0 /\ totalLength = 0
            /\ Len(delivered) = IF taken = 0 THEN 0 ELSE frames[taken].id
       ELSE LET f == frames[taken] IN
            /\ fullContent = Piece(f.id, 0, f.to)
            /\ received = f.to /\ totalLength = f.total
            /\ Len(delivered) = f.id - 1

\* Every message the receiver returns is one the sender's threads queued, in
\* the order they queued them, whole: README "forwards all the traffic".
DeliveredWhole ==
    /\ Len(delivered) <= Len(pushed)
    /\ \A i \in 1..Len(delivered) : delivered[i] = Whole(i)

\* The link is a reliable FIFO of whole messages.
InFlight == [i \in 1..(Len(pushed) - Len(delivered)) |-> Whole(Len(delivered) + i)]
Fifo == INSTANCE MessageFifo WITH
            Contents <- {Piece(i, 0, n) : i \in 1..MaxMessages, n \in Sizes},
            inFlight <- InFlight, delivered <- delivered
FifoSpec == Fifo!Spec

\* Every message pushed is returned some day, transfers that bring nothing
\* notwithstanding, unless the sender's pump ends (a failed write, a message of
\* no bytes to encrypt, the end of the process) or AAClient has ended or lost a
\* frame.
EveryMessageReturned ==
    \A i \in 1..MaxMessages :
        (Len(pushed) >= i) ~> (Len(delivered) >= i \/ ep1 = "ended" \/ client # "up")
=============================================================================
