----------------------------- MODULE ModeSwitch -----------------------------
(***************************************************************************)
(* The switch to accessory mode: the host's control requests 51 (version), *)
(* 52 (one for each string) and 53 (start) on one side, AAServer's loop    *)
(* over ep0 on the other, FunctionFS between them.  The host is AAClient's *)
(* Device::switchToAOA, which plays the car's part towards a phone.        *)
(*                                                                         *)
(* FunctionFS gives read() a batch of events; a request from the host is   *)
(* then pending until the program answers it: by a write (51), or by a     *)
(* read of its data (52, 53), which returns 0 if there are none (53).  Any *)
(* new event cancels a pending request.  Lifecycle puts this into the life *)
(* of the program.                                                         *)
(***************************************************************************)
EXTENDS Integers, Sequences, SequencesExt

CONSTANTS Strings,        \* how many strings the host sends (six in the code)
          MaxTimeouts,    \* bound: control transfers that time out
          MaxEvents,      \* bound: events that are no request (enable, suspend, ...)
          MaxSignals      \* bound: signals that interrupt a read

ASSUME SwitchBounds ==
    /\ Strings \in Nat
    /\ MaxTimeouts \in Nat /\ MaxEvents \in Nat /\ MaxSignals \in Nat

VARIABLES
    next,       \* host: the request it is at; behind the last one it is done
    waiting,    \* host: in a control transfer
    timeouts,   \* transfers that have timed out
    ep0,        \* FunctionFS: "none", "pending", "cancelled"
    setup,      \* FunctionFS: the request read last
    events,     \* FunctionFS: events not read, a request or Other
    others,     \* events that were no request
    loop,       \* AAServer: "read", "handle", "closed", "failed"
    buffer,     \* AAServer: events to be handled
    info,       \* history: the strings announced since the last request 51
    signals,    \* reads interrupted
    cancelled   \* history: a pending request has been cancelled

hostVars == <<next, waiting, timeouts>>
kernelVars == <<ep0, setup, events, others>>
historyVars == <<info, signals, cancelled>>
vars == <<hostVars, kernelVars, loop, buffer, historyVars>>

Other == 0
Version == 1                              \* request 51
Start == Strings + 2                      \* request 53; those between are 52
Requests == Version..Start
HostDone == next = Start + 1
StringRequests == Requests \ {Version, Start}

Init ==
    /\ next = Version /\ waiting = FALSE /\ timeouts = 0
    /\ ep0 = "none" /\ setup = Version /\ events = <<>> /\ others = 0
    /\ loop = "read" /\ buffer = <<>>
    /\ info = <<>> /\ signals = 0 /\ cancelled = FALSE

-----------------------------------------------------------------------------
(* The host, and what comes to ep0 from the bus.  The gadget exists as     *)
(* long as the loop runs.                                                  *)

Alive == loop \in {"read", "handle"}

\* A request drops the one before it: what is left are events that are alike.
WithoutRequests(q) == [i \in 1..Cardinality({j \in DOMAIN q : q[j] = Other}) |-> Other]

AddEvent(e) ==
    /\ Alive
    /\ events' = Append(IF e = Other THEN events ELSE WithoutRequests(events), e)
    /\ ep0' = IF ep0 = "pending" THEN "cancelled" ELSE ep0
    /\ cancelled' = (cancelled \/ ep0 = "pending")
    /\ UNCHANGED <<setup, loop, buffer, info, signals>>

\* libusb_control_transfer.
Request ==
    /\ ~waiting /\ ~HostDone
    /\ waiting' = TRUE
    /\ AddEvent(next)
    /\ UNCHANGED <<next, timeouts, others>>

\* A transfer fails: switchToAOA throws, and the next run begins anew.
StartOver ==
    /\ waiting' = FALSE /\ next' = Version
    /\ UNCHANGED <<kernelVars, loop, buffer, historyVars>>

\* It fails if the program is slow ...
RequestTimeout ==
    /\ waiting /\ timeouts < MaxTimeouts
    /\ timeouts' = timeouts + 1
    /\ StartOver

\* ... and sooner or later if the request was cancelled and is forgotten.
RequestLost ==
    /\ waiting /\ ep0 = "none" /\ next \notin ToSet(events)
    /\ UNCHANGED timeouts
    /\ StartOver

\* Enable, disable, suspend, resume.
BusEvent ==
    /\ others < MaxEvents
    /\ others' = others + 1
    /\ AddEvent(Other)
    /\ UNCHANGED hostVars

\* The program has answered the pending request, whose transfer ends well.
Answered ==
    /\ waiting /\ next = setup
    /\ waiting' = FALSE /\ next' = next + 1
    /\ ep0' = "none"
    /\ UNCHANGED <<timeouts, setup, events, others>>

-----------------------------------------------------------------------------
(* handleSwitchToAccessoryMode.                                            *)

EINTR == -1
EIDRM == -2

\* Mutant: a read of nothing is tried again.
AfterReadAgain(ret) == CASE ret > 0 -> "handle" [] ret = EIDRM -> "failed" [] OTHER -> "read"

\* checkError, and what the loop makes of its result: a read of nothing
\* ends the loop, an ignored error is tried again, any other is thrown.
AfterRead(ret) ==
    CASE ret > 0 -> "handle"
      [] ret = 0 -> "closed"
      [] ret = EINTR -> "read"
      [] OTHER -> "failed"

ReadEvents ==
    /\ loop = "read" /\ ep0 = "none" /\ events # <<>>
    /\ buffer' = events /\ events' = <<>>
    /\ loop' = AfterRead(Len(events))
    /\ LET asked == {e \in ToSet(events) : e # Other} IN
       /\ ep0' = IF asked = {} THEN "none" ELSE "pending"
       /\ setup' \in IF asked = {} THEN {setup} ELSE asked
    /\ UNCHANGED <<hostVars, others, historyVars>>

\* A pending request has its data read: text, which is then handled as if it
\* were events (what is shorter than one is none).
ReadString ==
    /\ loop = "read" /\ ep0 = "pending" /\ setup \in StringRequests
    /\ Answered
    /\ \E n \in 0..1 : buffer' = [i \in 1..n |-> Other]
    /\ loop' = AfterRead(1)
    /\ UNCHANGED historyVars

\* Request 53 has no data: this read ends the transfer and the loop.
ReadStart ==
    /\ loop = "read" /\ ep0 = "pending" /\ setup = Start
    /\ Answered
    /\ loop' = AfterRead(0)
    /\ UNCHANGED <<buffer, historyVars>>

\* The pending request was cancelled, or asks for data and not for a read.
ReadFails ==
    /\ loop = "read"
    /\ ep0 = "cancelled" \/ (ep0 = "pending" /\ setup = Version)
    /\ ep0' = "none"
    /\ loop' = AfterRead(EIDRM)
    /\ UNCHANGED <<hostVars, setup, events, others, buffer, historyVars>>

ReadInterrupted ==
    /\ loop = "read" /\ signals < MaxSignals
    /\ signals' = signals + 1
    /\ loop' = AfterRead(EINTR)
    /\ UNCHANGED <<hostVars, kernelVars, buffer, info, cancelled>>

\* handleSwitchMessage has looked at one event; behind the last one the loop
\* reads again, whatever the result.
NextEvent ==
    /\ buffer' = Tail(buffer)
    /\ loop' = IF Len(buffer) = 1 THEN "read" ELSE "handle"

Event(e) == loop = "handle" /\ buffer # <<>> /\ buffer[1] = e

\* Request 51: the answer is written, or the write fails, which is not tested.
HandleVersion ==
    /\ Event(Version)
    /\ NextEvent
    /\ info' = <<>>
    /\ \/ ep0 = "pending" /\ Answered
       \/ /\ ep0 = "cancelled"
          /\ ep0' = "none"
          /\ UNCHANGED <<hostVars, setup, events, others>>
    /\ UNCHANGED <<signals, cancelled>>

HandleString ==
    /\ \E e \in StringRequests : Event(e) /\ info' = Append(info, e)
    /\ NextEvent
    /\ UNCHANGED <<hostVars, kernelVars, signals, cancelled>>

\* Mutant: request 53 ends the loop at once.
HandleStartExit ==
    /\ Event(Start)
    /\ buffer' = <<>> /\ loop' = "closed"
    /\ UNCHANGED <<hostVars, kernelVars, historyVars>>

\* Request 53: the rest of the batch is dropped and 0 returned, but the loop
\* tests the length of the read, not this result.
HandleStart ==
    /\ Event(Start)
    /\ buffer' = <<>> /\ loop' = "read"
    /\ UNCHANGED <<hostVars, kernelVars, historyVars>>

HandleOther ==
    /\ \/ Event(Other) /\ NextEvent
       \/ loop = "handle" /\ buffer = <<>> /\ loop' = "read" /\ UNCHANGED buffer
    /\ UNCHANGED <<hostVars, kernelVars, historyVars>>

HandleSwitchMessage == HandleVersion \/ HandleString \/ HandleStart \/ HandleOther

Loop == ReadEvents \/ ReadString \/ ReadStart \/ ReadFails \/ HandleSwitchMessage

\* Without ReadInterrupted: Lifecycle has the signals.
Next == Request \/ RequestTimeout \/ RequestLost \/ BusEvent \/ Loop

-----------------------------------------------------------------------------
(* Properties.                                                             *)

\* Types of the host's, FunctionFS's and the loop's state.
SwitchTypeOK ==
    /\ next \in 1..Start + 1 /\ waiting \in BOOLEAN /\ timeouts \in 0..MaxTimeouts
    /\ ep0 \in {"none", "pending", "cancelled"} /\ setup \in Requests
    /\ events \in Seq({Other} \union Requests) /\ others \in 0..MaxEvents
    /\ loop \in {"read", "handle", "closed", "failed"}
    /\ buffer \in Seq({Other} \union Requests) /\ signals \in 0..MaxSignals
    /\ info \in Seq(StringRequests) /\ cancelled \in BOOLEAN

\* handleSwitchToAccessoryMode returns only after the host has said all its
\* strings, in order, none twice and none left out, and only when the host's
\* last request has succeeded: nothing else that makes a read return nothing,
\* no signal and no retry in the middle, takes the program further.
ReturnsSwitched ==
    loop = "closed" => /\ HostDone
                       /\ info = [i \in 1..Strings |-> Version + i]
=============================================================================
