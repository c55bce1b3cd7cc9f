---------------------------- MODULE InputChannel ----------------------------
(***************************************************************************)
(* The server's input channel, shared by several clients.  Each client has *)
(* a thread (SocketClient) that registers it, opens the channel and shakes *)
(* hands with the head unit, waiting for flags that all of them share; the *)
(* pump of ep2 brings the head unit's answers, and its events, which it    *)
(* writes to the socket of every registered client.  The way to the head   *)
(* unit and back is taken to be a FIFO: FrameLink shows it of a sender and *)
(* a receiver of these programs' own kind.                                 *)
(***************************************************************************)
EXTENDS Naturals, Sequences, FiniteSets

CONSTANTS Clients,
          MaxPackets,      \* bound: packets each client sends on the channel
          MaxEvents,       \* bound: events of the head unit
          MaxStrays,       \* bound: odd outcomes of races on registered_clients
          SocketBuffer     \* messages a socket holds before a write blocks

ASSUME InputBounds ==
    /\ IsFiniteSet(Clients)
    /\ MaxPackets \in Nat /\ MaxEvents \in Nat /\ MaxStrays \in Nat
    /\ SocketBuffer \in Nat \ {0}

VARIABLES
    peer,          \* the client's end: "open", "closed", or "reset", that is
                   \* closed with data unread and not yet reported to us
    packets,       \* packets of the client that its thread has not read yet
    inbox,         \* history: the events written to the client's socket
    unread,        \* how many of those the client has not read, if it is still open
    pc,            \* where the client's thread is
    registered,    \* registered_clients
    gotOpen,       \* gotChannelOpenResponse
    gotHandshake,  \* gotHandshakeResponse
    toHeadunit,    \* requests on their way to the head unit
    fromHeadunit,  \* answers and events on their way back
    events,        \* events the head unit has sent, numbered from 1
    shaken,        \* the head unit has answered a handshake
    ep2,           \* "idle", "loop" (writing an event to clients), "ended"
    current,       \* the event ep2 is writing
    visit,         \* registered clients the loop has still to write to
    torn,          \* the events whose loop had the set changed under it: a data race
    corrupt,       \* two threads changed registered_clients at once: another
    strays,        \* odd outcomes so far
    fresh,         \* history: an open answer came since this client's last reset
    firstEvent     \* history: the first event a client must get, 0 if none or
                   \* if the set is corrupt

clientVars == <<peer, packets>>
socketVars == <<inbox, unread>>
flagVars == <<gotOpen, gotHandshake, fresh>>
wireVars == <<toHeadunit, fromHeadunit, events, shaken>>
loopVars == <<ep2, current, visit>>
setVars == <<registered, torn, corrupt, strays, firstEvent>>
vars == <<clientVars, socketVars, pc, flagVars, wireVars, loopVars, setVars>>

OpenRequest == "open"
HandshakeRequest == "handshake"
OpenResponse == "openResponse"
HandshakeResponse == "handshakeResponse"
Event == "event"

Init ==
    /\ peer = [c \in Clients |-> "open"]
    /\ packets \in [Clients -> 0..MaxPackets]
    /\ inbox = [c \in Clients |-> <<>>]
    /\ unread = [c \in Clients |-> 0]
    /\ pc = [c \in Clients |-> "read"]
    /\ registered = {} /\ torn = {} /\ corrupt = FALSE /\ strays = 0
    /\ gotOpen \in BOOLEAN /\ gotHandshake \in BOOLEAN    \* not initialised
    /\ toHeadunit = <<>> /\ fromHeadunit = <<>> /\ events = 0 /\ shaken = FALSE
    /\ ep2 = "idle" /\ current = 0 /\ visit = {}
    /\ fresh = [c \in Clients |-> TRUE]
    /\ firstEvent = [c \in Clients |-> 0]

-----------------------------------------------------------------------------
(* The client program at the other end of the socket. *)

ClientRead(c) ==
    /\ peer[c] = "open" /\ unread[c] > 0
    /\ unread' = [unread EXCEPT ![c] = @ - 1]
    /\ UNCHANGED <<clientVars, inbox, pc, flagVars, wireVars, loopVars, setVars>>

ClientClose(c) ==
    /\ peer[c] = "open"
    /\ peer' = [peer EXCEPT ![c] = IF unread[c] > 0 THEN "reset" ELSE "closed"]
    /\ inbox' = [inbox EXCEPT ![c] = <<>>] /\ unread' = [unread EXCEPT ![c] = 0]
    /\ UNCHANGED <<packets, pc, flagVars, wireVars, loopVars, setVars>>

-----------------------------------------------------------------------------
(* The client's thread in the server: clientThreadMethod, and             *)
(* handleMessageFromClient for every packet.                              *)

Goto(c, place) == pc' = [pc EXCEPT ![c] = place]

\* Mutant: the end is taken for one more packet.
ReadPacketAtEnd(c) ==
    /\ pc[c] = "read" /\ peer[c] # "reset"
    /\ packets' = [packets EXCEPT ![c] = @ - 1]
    /\ Goto(c, "insert")
    /\ UNCHANGED <<peer, socketVars, flagVars, wireVars, loopVars, setVars>>

\* read: a packet; or ECONNRESET, which is taken for one more packet with the
\* header of the last; or the end.
ReadPacket(c) ==
    /\ pc[c] = "read"
    /\ \/ /\ peer[c] = "reset"
          /\ peer' = [peer EXCEPT ![c] = "closed"]
          /\ Goto(c, "insert")
          /\ UNCHANGED packets
       \/ /\ peer[c] # "reset" /\ packets[c] > 0
          /\ packets' = [packets EXCEPT ![c] = @ - 1]
          /\ Goto(c, "insert")
          /\ UNCHANGED peer
       \/ /\ peer[c] = "closed" /\ packets[c] = 0
          /\ Goto(c, "erase")
          /\ UNCHANGED <<peer, packets>>
    /\ UNCHANGED <<socketVars, flagVars, wireVars, loopVars, setVars>>

\* Changing the set has no defined outcome while another thread changes it or
\* the loop of ep2 is in it.  Two changes at once may lose any of it; the
\* loop may see the change or not, and may go astray until it ends (Stray).
Touch(c, change, visits) ==
    /\ \/ registered' = change /\ UNCHANGED <<corrupt, strays>>
       \/ /\ \E d \in Clients \ {c} : pc[d] \in {"insert", "erase"}
          /\ strays < MaxStrays
          /\ strays' = strays + 1
          /\ corrupt' = TRUE
          /\ registered' \in SUBSET (registered \union {c})
    /\ IF ep2 = "loop" /\ (registered' # registered \/ corrupt')
       THEN torn' = torn \union {current} /\ visit' \in visits
       ELSE UNCHANGED <<torn, visit>>

\* registered_clients.insert(clientId), without the lock.
Insert(c) ==
    /\ pc[c] = "insert"
    /\ Touch(c, registered \union {c}, {visit, visit \union {c}})
    /\ firstEvent' = [d \in Clients |-> IF corrupt' THEN 0
                                        ELSE IF d = c /\ d \notin registered
                                             THEN current + 1 ELSE firstEvent[d]]
    /\ Goto(c, "resetOpen")
    /\ UNCHANGED <<clientVars, socketVars, flagVars, wireVars, ep2, current>>

\* Mutant: the flag keeps its value.
ResetOpenNot(c) ==
    /\ pc[c] = "resetOpen"
    /\ fresh' = [fresh EXCEPT ![c] = FALSE]
    /\ Goto(c, "sendOpen")
    /\ UNCHANGED <<clientVars, socketVars, gotOpen, gotHandshake, wireVars, loopVars, setVars>>

\* openChannel.
ResetOpen(c) ==
    /\ pc[c] = "resetOpen"
    /\ gotOpen' = FALSE
    /\ fresh' = [fresh EXCEPT ![c] = FALSE]
    /\ Goto(c, "sendOpen")
    /\ UNCHANGED <<clientVars, socketVars, gotHandshake, wireVars, loopVars, setVars>>

SendOpen(c) ==
    /\ pc[c] = "sendOpen"
    /\ toHeadunit' = Append(toHeadunit, OpenRequest)
    /\ Goto(c, "waitOpen")
    /\ UNCHANGED <<clientVars, socketVars, flagVars, fromHeadunit, events, shaken, loopVars, setVars>>

ExpectOpen(c) ==
    /\ pc[c] = "waitOpen" /\ gotOpen
    /\ Goto(c, "resetHandshake")
    /\ UNCHANGED <<clientVars, socketVars, flagVars, wireVars, loopVars, setVars>>

ResetHandshake(c) ==
    /\ pc[c] = "resetHandshake"
    /\ gotHandshake' = FALSE
    /\ Goto(c, "sendHandshake")
    /\ UNCHANGED <<clientVars, socketVars, gotOpen, fresh, wireVars, loopVars, setVars>>

SendHandshake(c) ==
    /\ pc[c] = "sendHandshake"
    /\ toHeadunit' = Append(toHeadunit, HandshakeRequest)
    /\ Goto(c, "waitHandshake")
    /\ UNCHANGED <<clientVars, socketVars, flagVars, fromHeadunit, events, shaken, loopVars, setVars>>

\* Mutant: the waiting thread takes the flag down.
ExpectHandshakeAlone(c) ==
    /\ pc[c] = "waitHandshake" /\ gotHandshake /\ ep2 # "loop"
    /\ gotHandshake' = FALSE
    /\ Goto(c, "read")
    /\ UNCHANGED <<clientVars, socketVars, gotOpen, fresh, wireVars, loopVars, setVars>>

\* The flag is read under the mutex that ep2 holds while it writes an event.
ExpectHandshake(c) ==
    /\ pc[c] = "waitHandshake" /\ gotHandshake /\ ep2 # "loop"
    /\ Goto(c, "read")
    /\ UNCHANGED <<clientVars, socketVars, flagVars, wireVars, loopVars, setVars>>

\* Mutant: the client stays registered.
EraseNot(c) ==
    /\ pc[c] = "erase"
    /\ Goto(c, "gone")
    /\ UNCHANGED <<clientVars, socketVars, flagVars, wireVars, loopVars, setVars>>

\* The disconnected slots: registered_clients.erase, without the lock.
Erase(c) ==
    /\ pc[c] = "erase"
    /\ Touch(c, registered \ {c}, {visit, visit \ {c}})
    /\ firstEvent' = [d \in Clients |-> IF corrupt' \/ d = c THEN 0 ELSE firstEvent[d]]
    /\ Goto(c, "gone")
    /\ UNCHANGED <<clientVars, socketVars, flagVars, wireVars, ep2, current>>

ClientThread(c) ==
    \/ ReadPacket(c) \/ Insert(c) \/ ResetOpen(c) \/ SendOpen(c) \/ ExpectOpen(c)
    \/ ResetHandshake(c) \/ SendHandshake(c) \/ ExpectHandshake(c) \/ Erase(c)

-----------------------------------------------------------------------------
(* The head unit: answers requests in order, sends events once it has     *)
(* shaken hands.                                                          *)

Answer ==
    /\ toHeadunit # <<>>
    /\ fromHeadunit' = Append(fromHeadunit, IF toHeadunit[1] = OpenRequest
                                            THEN OpenResponse ELSE HandshakeResponse)
    /\ toHeadunit' = Tail(toHeadunit)
    /\ shaken' = (shaken \/ toHeadunit[1] = HandshakeRequest)
    /\ UNCHANGED <<clientVars, socketVars, pc, flagVars, events, loopVars, setVars>>

SendEvent ==
    /\ shaken /\ events < MaxEvents
    /\ events' = events + 1
    /\ fromHeadunit' = Append(fromHeadunit, Event)
    /\ UNCHANGED <<clientVars, socketVars, pc, flagVars, toHeadunit, shaken, loopVars, setVars>>

-----------------------------------------------------------------------------
(* The pump of ep2: handleMessageFromHeadunit. *)

HandleOpenResponse ==
    /\ ep2 = "idle" /\ fromHeadunit # <<>> /\ fromHeadunit[1] = OpenResponse
    /\ gotOpen' = TRUE
    /\ fresh' = [c \in Clients |-> TRUE]
    /\ fromHeadunit' = Tail(fromHeadunit)
    /\ UNCHANGED <<clientVars, socketVars, pc, gotHandshake, toHeadunit, events, shaken, loopVars, setVars>>

HandleHandshakeResponse ==
    /\ ep2 = "idle" /\ fromHeadunit # <<>> /\ fromHeadunit[1] = HandshakeResponse
    /\ gotHandshake' = TRUE
    /\ fromHeadunit' = Tail(fromHeadunit)
    /\ UNCHANGED <<clientVars, socketVars, pc, gotOpen, fresh, toHeadunit, events, shaken, loopVars, setVars>>

\* Mutant: only one of the clients is served.
HandleEventOnce ==
    /\ ep2 = "idle" /\ fromHeadunit # <<>>
    /\ fromHeadunit[1] = Event
    /\ ep2' = "loop" /\ current' = current + 1
    /\ visit' = IF registered = {} THEN {} ELSE {CHOOSE c \in registered : TRUE}
    /\ fromHeadunit' = Tail(fromHeadunit)
    /\ UNCHANGED <<clientVars, socketVars, pc, flagVars, toHeadunit, events, shaken, setVars>>

HandleEvent ==
    /\ ep2 = "idle" /\ fromHeadunit # <<>>
    /\ fromHeadunit[1] = Event
    /\ ep2' = "loop" /\ current' = current + 1
    /\ visit' = registered
    /\ torn' = IF corrupt THEN torn \union {current + 1} ELSE torn
    /\ fromHeadunit' = Tail(fromHeadunit)
    /\ UNCHANGED <<clientVars, socketVars, pc, flagVars, toHeadunit, events, shaken,
                   registered, corrupt, strays, firstEvent>>

\* The iterator of a loop whose set was changed is where the race has left it:
\* back at clients served already, past clients still to serve, or in memory
\* that was freed, which ends the pump and the program with it.
Stray ==
    /\ ep2 = "loop" /\ current \in torn
    /\ strays < MaxStrays
    /\ strays' = strays + 1
    /\ \/ visit' \in SUBSET Clients /\ UNCHANGED ep2
       \/ ep2' = "ended" /\ visit' = {}
    /\ UNCHANGED <<clientVars, socketVars, pc, flagVars, wireVars, current,
                   registered, torn, corrupt, firstEvent>>

\* Mutant: the loop does not move on.
WriteEventAgain(c) ==
    /\ ep2 = "loop" /\ c \in visit
    /\ peer[c] = "open" /\ unread[c] < SocketBuffer
    /\ inbox' = [inbox EXCEPT ![c] = Append(@, current)]
    /\ unread' = [unread EXCEPT ![c] = @ + 1]
    /\ UNCHANGED <<clientVars, pc, flagVars, wireVars, loopVars, setVars>>

\* sendToClient for one registered client: write to its socket, which blocks
\* while the socket is full.  ECONNRESET is a client_disconnected_error and is
\* swallowed; EPIPE is not, leaves the handler and ends the pump.  A client that
\* is gone from main's map is written nothing.
WriteEvent(c) ==
    /\ ep2 = "loop" /\ c \in visit
    /\ \/ /\ pc[c] # "gone" /\ peer[c] = "open" /\ unread[c] < SocketBuffer
          /\ inbox' = [inbox EXCEPT ![c] = Append(@, current)]
          /\ unread' = [unread EXCEPT ![c] = @ + 1]
          /\ visit' = visit \ {c}
          /\ UNCHANGED <<peer, ep2>>
       \/ /\ pc[c] # "gone" /\ peer[c] = "reset"
          /\ peer' = [peer EXCEPT ![c] = "closed"]
          /\ visit' = visit \ {c}
          /\ UNCHANGED <<socketVars, ep2>>
       \/ /\ pc[c] # "gone" /\ peer[c] = "closed"
          /\ ep2' = "ended" /\ visit' = {}
          /\ UNCHANGED <<peer, socketVars>>
       \/ /\ pc[c] = "gone"
          /\ visit' = visit \ {c}
          /\ UNCHANGED <<peer, socketVars, ep2>>
    /\ UNCHANGED <<packets, pc, flagVars, wireVars, current, setVars>>

EventDone ==
    /\ ep2 = "loop" /\ visit = {}
    /\ ep2' = "idle"
    /\ UNCHANGED <<clientVars, socketVars, pc, flagVars, wireVars, current, visit, setVars>>

Ep2 == HandleOpenResponse \/ HandleHandshakeResponse \/ HandleEvent \/ EventDone
       \/ \E c \in Clients : WriteEvent(c)

Next ==
    \/ \E c \in Clients : ClientRead(c) \/ ClientClose(c) \/ ClientThread(c)
    \/ Answer \/ SendEvent \/ Ep2 \/ Stray

Spec == Init /\ [][Next]_vars

\* Threads run, the head unit answers every request, clients read their socket:
\* as long as one of them can go on, one does, whichever it is.
Progress ==
    Ep2 \/ Answer \/ \E c \in Clients : ClientThread(c) \/ ClientRead(c)

FairSpec == Spec /\ WF_vars(Progress)

-----------------------------------------------------------------------------
(* Properties. *)

Places == {"read", "insert", "resetOpen", "sendOpen", "waitOpen",
           "resetHandshake", "sendHandshake", "waitHandshake", "erase", "gone"}

\* The types of the variables, and the bounds of the counters.
InputTypeOK ==
    /\ peer \in [Clients -> {"open", "closed", "reset"}]
    /\ packets \in [Clients -> 0..MaxPackets]
    /\ inbox \in [Clients -> Seq(1..MaxEvents)]
    /\ unread \in [Clients -> 0..SocketBuffer]
    /\ pc \in [Clients -> Places]
    /\ registered \subseteq Clients /\ visit \subseteq Clients
    /\ gotOpen \in BOOLEAN /\ gotHandshake \in BOOLEAN
    /\ shaken \in BOOLEAN /\ corrupt \in BOOLEAN
    /\ torn \subseteq 1..MaxEvents /\ strays \in 0..MaxStrays
    /\ toHeadunit \in Seq({OpenRequest, HandshakeRequest})
    /\ fromHeadunit \in Seq({OpenResponse, HandshakeResponse, Event})
    /\ events \in 0..MaxEvents /\ current \in 0..MaxEvents
    /\ ep2 \in {"idle", "loop", "ended"}
    /\ fresh \in [Clients -> BOOLEAN]
    /\ firstEvent \in [Clients -> 0..(MaxEvents + 1)]

\* However registrations, departures and blocked writes meet the loop, nobody
\* gets an event after a later one, nor any event twice but one whose loop had
\* the set of clients changed under it.
EventsInOrder ==
    \A c \in Clients : \A i \in 1..(Len(inbox[c]) - 1) :
        \/ inbox[c][i] < inbox[c][i + 1]
        \/ inbox[c][i] = inbox[c][i + 1] /\ inbox[c][i] \in torn

\* A client that is registered and listening has got every event since it
\* registered, and none before, except those whose loop had the set changed
\* under it: their race spoils no other event.
LastDue(c) == IF c \in visit THEN current - 1 ELSE current
Got(c) == {inbox[c][i] : i \in 1..Len(inbox[c])}
NoEventMissed ==
    ~corrupt /\ ep2 # "ended" =>
        \A c \in registered : peer[c] = "open" =>
            Got(c) \ torn = (firstEvent[c]..LastDue(c)) \ torn

\* A client's thread goes on to the handshake only after an open answer that
\* came after its own reset of the flag, although the flag is everybody's and
\* was perhaps set long ago, or never.
NoStaleOpen ==
    \A c \in Clients : pc[c] \in {"resetHandshake", "sendHandshake", "waitHandshake"}
                       => fresh[c]

\* Opening ends, although threads reset each other's flags while they wait: no
\* thread is in it for ever.
Opening == {"resetOpen", "sendOpen", "waitOpen",
            "resetHandshake", "sendHandshake", "waitHandshake"}
OpenCompletes ==
    \A c \in Clients : []<>(pc[c] \notin Opening \/ ep2 = "ended")

\* A client that left is forgotten, even if its thread was waiting, unless two
\* threads have spoilt the set: it is not both away and registered for ever.
DepartureNoticed ==
    \A c \in Clients :
        []<>(peer[c] = "open" \/ c \notin registered \/ ep2 = "ended" \/ corrupt)

\* A client that leaves does not stop the server: main.cpp catches
\* client_disconnected_error around the write to it.
ServerSurvivesClients == ep2 # "ended"
=============================================================================
