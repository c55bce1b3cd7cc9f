------------------------------ MODULE Framing ------------------------------
(***************************************************************************)
(* How a sender cuts a queued message into frames.  AAServer's getMessage  *)
(* and AAClient's prepareMessage are the same algorithm with another       *)
(* maxSize (2000 and 10000).  A message's bytes are named by the message   *)
(* they belong to (id) and the interval of it they fill, so a frame is the *)
(* slice from..to-1 of message id; channel and the Specific bit are the    *)
(* message's own and are not repeated here.                                *)
(***************************************************************************)
EXTENDS Naturals, Sequences

CONSTANT MaxSize     \* maxSize: the longest slice put in one encrypted frame

ASSUME MaxSizeAssumption == MaxSize \in Nat \ {0}

\* The two low bits of flags, as the set of the bits that are on.
Bulk == {"First", "Last"}
FrameBits == SUBSET Bulk

\* An entry of sendQueue: Message with the offset the cutting has reached.
Message == [id : Nat \ {0}, size : Nat, encrypted : BOOLEAN,
            frame : FrameBits, offset : Nat]

\* A frame: total is the length field that only a First frame carries.
Frame == [id : Nat \ {0}, encrypted : BOOLEAN, frame : FrameBits,
          from : Nat, to : Nat, total : Nat]

\* A message as sendMessage queues it: its callers all pass the Bulk bits.
NewMessage(id, size, encrypted) ==
    [id |-> id, size |-> size, encrypted |-> encrypted,
     frame |-> Bulk, offset |-> 0]

\* What a queued message looks like: whole, or encrypted and cut part of the way.
MessageOK(m) ==
    \/ m.offset = 0 /\ m.frame = Bulk
    \/ m.encrypted /\ m.frame = {} /\ 0 < m.offset /\ m.offset < m.size

\* The rest of the message fits in one frame (full and last frame branches),
\* and a plain message always does: it is copied whole.
Fits(m) == ~m.encrypted \/ m.size - m.offset <= MaxSize

\* The frame bits of the next frame of m: full, first, intermediate, last.
CutBits(m) ==
    IF ~m.encrypted         THEN m.frame
    ELSE IF m.frame # {}    THEN IF Fits(m) THEN m.frame ELSE {"First"}
    ELSE                         IF Fits(m) THEN m.frame \union {"Last"} ELSE m.frame

\* The next frame of m.
Cut(m) ==
    [id |-> m.id, encrypted |-> m.encrypted, frame |-> CutBits(m),
     from |-> m.offset,
     to |-> IF Fits(m) THEN m.size ELSE m.offset + MaxSize,
     total |-> m.size]

\* Mutant: the offset goes the wrong way.
RemainderBackwards(m) == [m EXCEPT !.frame = {}, !.offset = @ - MaxSize]

\* What stays at the front of the queue when the frame was not the last one.
Remainder(m) == [m EXCEPT !.frame = {}, !.offset = @ + MaxSize]

\* Mutant: popped after the first frame.
AfterCutPopped(q) == Tail(q)

\* The queue after its front message was cut.
AfterCut(q) ==
    IF Fits(q[1]) THEN Tail(q) ELSE [q EXCEPT ![1] = Remainder(@)]
=============================================================================
