------------------------------ MODULE Shutdown ------------------------------
(***************************************************************************)
(* How AAServer stops.  Once setup has started the pumps, main connects    *)
(* itself to their error, opens the socket and waits for an event that     *)
(* SIGINT or the error sets; then it destroys, in this order, the socket   *)
(* communicator (joins the listening thread, cancels and joins every       *)
(* client's thread), its own locals, and the communicator of the head unit *)
(* (raises threadFinished, sends SIGUSR1 to the three pumps, joins them).  *)
(* The handler of SIGINT runs on main's thread and takes the same mutex as *)
(* main's wait.  Head unit and clients read, send and answer when they     *)
(* like, or never: the calls that wait for them have no timeout.           *)
(***************************************************************************)
EXTENDS Naturals, FiniteSets

CONSTANT Clients

Pumps == {"ep0", "ep1", "ep2"}

VARIABLES
    main,            \* "setup", "lock" (in mre.wait, with its mutex), "wait" (without),
                     \* "listen", "clients", "kill", "done"; "stuck" or "crashed"
    signaled,        \* the ManualResetEvent mre
    armed,           \* SIGINT has our handler: it gives way to SIG_DFL
    listen,          \* the listening thread: "none", "select", "accept", "ended"
    listenCancel,    \* listenThreadCancel
    client,          \* where the thread of each client is
    listed,          \* SocketCommunicator::clients
    cancelled,       \* clients whose clientThreadCancel is set
    toDelete,        \* what the destructor's loop over clients has still to visit
    deleting,        \* the client whose destructor main is in
    torn,            \* a client was erased under that loop
    pump,            \* where each pump is
    threadFinished,  \* AaCommunicator::threadFinished
    killed,          \* pumps that were sent SIGUSR1
    missed           \* history: a pump's error came before main was connected to it

serverVars == <<listen, listenCancel>>
clientVars == <<client, listed, cancelled>>
loopVars == <<toDelete, deleting, torn>>
pumpVars == <<pump, threadFinished, killed, missed>>
eventVars == <<signaled, armed>>
vars == <<main, eventVars, serverVars, clientVars, loopVars, pumpVars>>

Init ==
    /\ main = "setup" /\ signaled = FALSE /\ armed = TRUE
    /\ listen = "none" /\ listenCancel = FALSE
    /\ client = [c \in Clients |-> "none"]
    /\ listed = {} /\ cancelled = {}
    /\ toDelete = {} /\ deleting = {} /\ torn = FALSE
    /\ pump = [p \in Pumps |-> IF p = "ep1" THEN "get" ELSE "ready"]
    /\ threadFinished = FALSE /\ killed = {} /\ missed = FALSE

-----------------------------------------------------------------------------
(* The pumps.  A pump tests threadFinished (checkTerminate) after a read   *)
(* and after a write: "ready" lies between such a test and a call that     *)
(* blocks, the read of ep2 or the write of ep1; ep0 is read with select.   *)

PumpGoto(p, place) == pump' = [pump EXCEPT ![p] = place]

\* checkTerminate: leave the loop or go on to place.
CheckedGoto(p, place) == PumpGoto(p, IF threadFinished THEN "ended" ELSE place)

\* select on ep0 or getMessage's wait is over after a second at the latest.
Poll(p) ==
    /\ pump[p] = IF p = "ep1" THEN "get" ELSE "ready"
    /\ p # "ep2" /\ threadFinished
    /\ PumpGoto(p, "ended")
    /\ UNCHANGED <<main, eventVars, serverVars, clientVars, loopVars, threadFinished, killed, missed>>

\* getMessage has a frame.
GetFrame ==
    /\ pump["ep1"] = "get"
    /\ CheckedGoto("ep1", "ready")
    /\ UNCHANGED <<main, eventVars, serverVars, clientVars, loopVars, threadFinished, killed, missed>>

\* The read of ep2 or the write of ep1 is entered ...
Block(p) ==
    /\ p # "ep0" /\ pump[p] = "ready"
    /\ PumpGoto(p, "blocked")
    /\ UNCHANGED <<main, eventVars, serverVars, clientVars, loopVars, threadFinished, killed, missed>>

\* ... and left because the head unit has sent or taken something.
Transfer(p) ==
    /\ pump[p] = "blocked"
    /\ CheckedGoto(p, IF p = "ep1" THEN "get" ELSE "handle")
    /\ UNCHANGED <<main, eventVars, serverVars, clientVars, loopVars, threadFinished, killed, missed>>

\* handleMessage, which holds AaCommunicator::m: an answer ends a client's wait ...
Answer(c) ==
    /\ pump["ep2"] = "handle" /\ client[c] = "wait"
    /\ client' = [client EXCEPT ![c] = "poll"]
    /\ CheckedGoto("ep2", "ready")
    /\ UNCHANGED <<main, eventVars, serverVars, listed, cancelled, loopVars, threadFinished, killed, missed>>

\* ... other messages do not ...
HandleMessage ==
    /\ pump["ep2"] = "handle"
    /\ CheckedGoto("ep2", "ready")
    /\ UNCHANGED <<main, eventVars, serverVars, clientVars, loopVars, threadFinished, killed, missed>>

\* ... and any may have to be written to clients: a write that blocks as long as
\* one does not read its socket ...
WriteClient ==
    /\ pump["ep2"] = "handle"
    /\ PumpGoto("ep2", "write")
    /\ UNCHANGED <<main, eventVars, serverVars, clientVars, loopVars, threadFinished, killed, missed>>

\* ... until it does.  (One that goes makes the write throw.)
ClientTakes ==
    /\ pump["ep2"] = "write"
    /\ CheckedGoto("ep2", "ready")
    /\ UNCHANGED <<main, eventVars, serverVars, clientVars, loopVars, threadFinished, killed, missed>>

\* AaCommunicator::m, held by ep2 while it handles a message.
MutexFree(p) == p = "ep2" \/ pump["ep2"] \notin {"handle", "write"}

\* Where an exception can leave a pump's loop.
Throwing(p) == IF p = "ep0" THEN {"ready"} ELSE {"get", "blocked", "handle", "write"}

\* Mutant: the other pumps are not told.
ThrowAlone(p) ==
    /\ pump[p] \in Throwing(p)
    /\ PumpGoto(p, "failing")
    /\ UNCHANGED <<main, eventVars, serverVars, clientVars, loopVars, threadFinished, killed, missed>>

\* A suspend event, a failed transfer, an unknown message: the exception ends
\* the pump, and threadTerminated raises the flag under m ...
Throw(p) ==
    /\ pump[p] \in Throwing(p)
    /\ MutexFree(p)
    /\ PumpGoto(p, "failing")
    /\ threadFinished' = TRUE
    /\ UNCHANGED <<main, eventVars, serverVars, clientVars, loopVars, killed, missed>>

\* Mutant: main is not told.
ReportNobody(p) ==
    /\ pump[p] = "failing"
    /\ PumpGoto(p, "ended")
    /\ UNCHANGED <<main, eventVars, serverVars, clientVars, loopVars, threadFinished, killed, missed>>

\* The mutex of mre, which main has while it looks at signaled.
EventFree == main \notin {"lock", "stuck"}

\* ... and tells main (mre.set), if it listens already.
Report(p) ==
    /\ pump[p] = "failing" /\ EventFree
    /\ IF main = "setup" THEN missed' = TRUE /\ UNCHANGED signaled
                         ELSE signaled' = TRUE /\ UNCHANGED missed
    /\ PumpGoto(p, "ended")
    /\ UNCHANGED <<main, armed, serverVars, clientVars, loopVars, threadFinished, killed>>

Pump(p) == Poll(p) \/ Block(p) \/ Report(p)

-----------------------------------------------------------------------------
(* The listening thread and the clients' threads. *)

ListenWake ==
    /\ listen = "select"
    /\ listen' = IF listenCancel THEN "ended" ELSE "accept"
    /\ UNCHANGED <<main, eventVars, listenCancel, clientVars, loopVars, pumpVars>>

\* accept, insertion in clients, newClient, ready.
Accept(c) ==
    /\ listen = "accept" /\ client[c] = "none"
    /\ listen' = "select"
    /\ client' = [client EXCEPT ![c] = "poll"]
    /\ listed' = listed \union {c}
    /\ UNCHANGED <<main, eventVars, listenCancel, cancelled, loopVars, pumpVars>>

\* accept failed, or the connection was gone: the loop goes on.
AcceptFails ==
    /\ listen = "accept"
    /\ listen' = "select"
    /\ UNCHANGED <<main, eventVars, listenCancel, clientVars, loopVars, pumpVars>>

ClientGoto(c, place) == client' = [client EXCEPT ![c] = place]

\* select is over after a second at the latest; the flag comes before the socket.
SeeCancel(c) ==
    /\ client[c] = "poll" /\ c \in cancelled
    /\ ClientGoto(c, "ended")
    /\ UNCHANGED <<main, eventVars, serverVars, listed, cancelled, loopVars, pumpVars>>

\* The client has sent a packet, or has gone.
SocketReady(c) ==
    /\ client[c] = "poll" /\ c \notin cancelled
    /\ \E place \in {"packet", "unlist"} : ClientGoto(c, place)
    /\ UNCHANGED <<main, eventVars, serverVars, listed, cancelled, loopVars, pumpVars>>

\* gotPacket: done at once, or waits for an answer of the head unit, or writes an
\* answer that the client does not read, or throws, which ends the thread but
\* leaves the client listed.
HandlePacket(c) ==
    /\ client[c] = "packet"
    /\ \E place \in {"poll", "wait", "send", "ended"} : ClientGoto(c, place)
    /\ UNCHANGED <<main, eventVars, serverVars, listed, cancelled, loopVars, pumpVars>>

\* The client reads the answer after all, or goes, which throws.
ClientReads(c) ==
    /\ client[c] = "send"
    /\ \E place \in {"poll", "ended"} : ClientGoto(c, place)
    /\ UNCHANGED <<main, eventVars, serverVars, listed, cancelled, loopVars, pumpVars>>

\* The first slot of disconnected: clients.erase.  If the destructor's loop is
\* at this client or between two, its iterator is invalid afterwards: the loop
\* may miss clients, or run into memory that was freed (Crash).
Unlist(c) ==
    /\ client[c] = "unlist"
    /\ listed' = listed \ {c}
    /\ IF main = "clients" /\ deleting \subseteq {c} /\ c \in toDelete
       THEN toDelete' \in SUBSET toDelete /\ torn' = TRUE
       ELSE toDelete' = toDelete \ {c} /\ UNCHANGED torn
    /\ ClientGoto(c, "unmap")
    /\ UNCHANGED <<main, eventVars, serverVars, cancelled, deleting, pumpVars>>

\* The second slot: main's map of clients and the channel handlers.
Unmap(c) ==
    /\ client[c] = "unmap"
    /\ ClientGoto(c, "ended")
    /\ UNCHANGED <<main, eventVars, serverVars, listed, cancelled, loopVars, pumpVars>>

ClientThread(c) == SeeCancel(c) \/ HandlePacket(c) \/ Unlist(c) \/ Unmap(c)

-----------------------------------------------------------------------------
(* main. *)

\* aac.error.connect, the socket, mre.wait() up to its lock.
Connect ==
    /\ main = "setup"
    /\ main' = "lock"
    /\ listen' = "select"
    /\ UNCHANGED <<eventVars, listenCancel, clientVars, loopVars, pumpVars>>

\* signaled is not set: the condition variable lets the mutex go ...
Sleep ==
    /\ main = "lock" /\ ~signaled
    /\ main' = "wait"
    /\ UNCHANGED <<eventVars, serverVars, clientVars, loopVars, pumpVars>>

\* ... and takes it again.
Awake ==
    /\ main = "wait" /\ signaled
    /\ main' = "lock"
    /\ UNCHANGED <<eventVars, serverVars, clientVars, loopVars, pumpVars>>

\* SIGINT: the handler, on main's thread, calls mre.set.  If main is in mre.wait
\* and has the mutex, both wait for ever.
Interrupt ==
    /\ armed /\ main \in {"setup", "lock", "wait"}
    /\ IF EventFree THEN signaled' = TRUE /\ armed' = FALSE /\ UNCHANGED main
                    ELSE main' = "stuck" /\ UNCHANGED eventVars
    /\ UNCHANGED <<serverVars, clientVars, loopVars, pumpVars>>

\* Mutant: the listening thread is not told.
WakeAlone ==
    /\ main = "lock" /\ signaled
    /\ main' = "listen"
    /\ UNCHANGED <<eventVars, serverVars, clientVars, loopVars, pumpVars>>

\* mre.wait() returns; ~SocketCommunicator starts.
Wake ==
    /\ main = "lock" /\ signaled
    /\ main' = "listen"
    /\ listenCancel' = TRUE
    /\ UNCHANGED <<eventVars, listen, clientVars, loopVars, pumpVars>>

JoinListen ==
    /\ main = "listen" /\ listen = "ended"
    /\ main' = "clients"
    /\ toDelete' = listed
    /\ UNCHANGED <<eventVars, serverVars, clientVars, deleting, torn, pumpVars>>

\* Mutant: all clients are cancelled at once.
CancelClientNext(c) ==
    /\ main = "clients" /\ c \in toDelete
    /\ deleting' = deleting \union {c}
    /\ cancelled' = cancelled \union {c}
    /\ UNCHANGED <<main, eventVars, serverVars, client, listed, toDelete, torn, pumpVars>>

\* ~SocketClient: the flag, the join.
CancelClient(c) ==
    /\ main = "clients" /\ deleting = {} /\ c \in toDelete
    /\ deleting' = {c}
    /\ cancelled' = cancelled \union {c}
    /\ UNCHANGED <<main, eventVars, serverVars, client, listed, toDelete, torn, pumpVars>>

\* Mutant: the thread is not waited for.
JoinClientNot(c) ==
    /\ c \in deleting
    /\ deleting' = {}
    /\ toDelete' = toDelete \ {c}
    /\ UNCHANGED <<main, eventVars, serverVars, clientVars, torn, pumpVars>>

JoinClient(c) ==
    /\ c \in deleting /\ client[c] = "ended"
    /\ deleting' = {}
    /\ toDelete' = toDelete \ {c}
    /\ UNCHANGED <<main, eventVars, serverVars, clientVars, torn, pumpVars>>

\* The broken loop destroys something that is no client: the program ends.
Crash ==
    /\ main = "clients" /\ torn
    /\ main' = "crashed"
    /\ toDelete' = {} /\ deleting' = {}
    /\ client' = [c \in Clients |-> "ended"]
    /\ pump' = [p \in Pumps |-> "ended"] /\ threadFinished' = TRUE
    /\ UNCHANGED <<eventVars, serverVars, listed, cancelled, torn, killed, missed>>

\* main's locals go; ~AaCommunicator raises the flag under m.
FinishThreads ==
    /\ main = "clients" /\ toDelete = {} /\ deleting = {}
    /\ MutexFree("main")
    /\ main' = "kill"
    /\ threadFinished' = TRUE
    /\ UNCHANGED <<eventVars, serverVars, clientVars, loopVars, pump, killed, missed>>

\* SIGUSR1: its handler does nothing, but a call it finds blocked returns EINTR
\* and checkTerminate follows.
Kill(p) ==
    /\ main = "kill" /\ p \notin killed
    /\ killed' = killed \union {p}
    /\ IF pump[p] = "blocked" THEN PumpGoto(p, "ended") ELSE UNCHANGED pump
    /\ UNCHANGED <<main, eventVars, serverVars, clientVars, loopVars, threadFinished, missed>>

\* All joined: the endpoints are closed.
JoinPumps ==
    /\ main = "kill" /\ killed = Pumps
    /\ \A p \in Pumps : pump[p] = "ended"
    /\ main' = "done"
    /\ UNCHANGED <<eventVars, serverVars, clientVars, loopVars, pumpVars>>

Main ==
    \/ Connect \/ Sleep \/ Awake \/ Wake \/ JoinListen \/ FinishThreads \/ JoinPumps
    \/ \E c \in Clients : CancelClient(c) \/ JoinClient(c)
    \/ \E p \in Pumps : Kill(p)

Next ==
    \/ Main \/ Interrupt \/ Crash
    \/ ListenWake \/ AcceptFails
    \/ \E c \in Clients : Accept(c) \/ ClientThread(c) \/ SocketReady(c) \/ ClientReads(c) \/ Answer(c)
    \/ GetFrame \/ HandleMessage \/ WriteClient \/ ClientTakes
    \/ \E p \in Pumps : Pump(p) \/ Transfer(p) \/ Throw(p)

Spec == Init /\ [][Next]_vars

\* Every thread runs as far as the program alone takes it, and main gets the
\* mutex that ep2 takes and releases for every message.  Nothing is assumed of
\* the head unit and the clients.
FairSpec ==
    /\ Spec
    /\ WF_vars(Main) /\ SF_vars(FinishThreads)
    /\ WF_vars(ListenWake) /\ WF_vars(AcceptFails)
    /\ \A c \in Clients : WF_vars(ClientThread(c))
    /\ \A p \in Pumps : WF_vars(Pump(p))
    /\ WF_vars(HandleMessage)

-----------------------------------------------------------------------------
(* Properties. *)

\* The types of the variables.
ShutdownTypeOK ==
    /\ main \in {"setup", "lock", "wait", "stuck", "listen", "clients", "kill", "done", "crashed"}
    /\ signaled \in BOOLEAN /\ armed \in BOOLEAN /\ listenCancel \in BOOLEAN /\ torn \in BOOLEAN
    /\ listen \in {"none", "select", "accept", "ended"}
    /\ client \in [Clients -> {"none", "poll", "packet", "wait", "send", "unlist", "unmap", "ended"}]
    /\ listed \subseteq Clients /\ cancelled \subseteq Clients
    /\ toDelete \subseteq Clients /\ deleting \subseteq Clients /\ Cardinality(deleting) <= 1
    /\ pump \in [Pumps -> {"get", "ready", "blocked", "handle", "write", "failing", "ended"}]
    /\ threadFinished \in BOOLEAN /\ killed \subseteq Pumps /\ missed \in BOOLEAN

\* No pump dies in silence: while main waits, a pump that has ended means that
\* main is being told, unless the error came between setup and connect: then
\* main waits for a SIGINT.
NoSilentDeath ==
    main \in {"lock", "wait"} /\ (\E p \in Pumps : pump[p] = "ended")
        => signaled \/ missed \/ \E p \in Pumps : pump[p] = "failing"

\* Once the socket communicator is destroyed, the only client threads left are
\* those of clients that were leaving at that moment, and none of those still
\* needs the communicator's set: all others were joined, unless one that left
\* broke the destructor's loop.
Running(c) == client[c] \notin {"none", "ended"}
NoThreadLeftBehind ==
    main \in {"kill", "done"} /\ ~torn =>
        \A c \in Clients : Running(c) => client[c] = "unmap"

\* One pump down, all pumps down, even while main is kept elsewhere, unless some
\* pump stays for ever in a call that nobody ends: a transfer of an endpoint that
\* main does not interrupt, or has interrupted too early; a write to a client;
\* or mre.set, because the handler of SIGINT has blocked main.
Held(p) ==
    \/ pump[p] = "blocked" /\ (main # "kill" \/ p \in killed)
    \/ pump[p] = "write"
    \/ pump[p] = "failing" /\ main = "stuck"
AllPumpsEnd ==
    []<>(\A p \in Pumps : ~Held(p)) =>
        ((\E p \in Pumps : pump[p] = "failing") ~> \A p \in Pumps : pump[p] = "ended")

\* The server stops once it is told to, unless main is blocked in its own handler
\* or crashes in the broken loop, or waits for ever for what only others can end:
\* a client's thread that waits for its answer or writes to a client that does
\* not read; such a write on ep2, which has the mutex; or a transfer begun after
\* the signal that was to interrupt it.
Waits(c) == client[c] \in {"wait", "send"}
Quits ==
    /\ []<>(\A c \in deleting : ~Waits(c))
    /\ []<>(pump["ep2"] # "write")
    /\ []<>(\A p \in killed : pump[p] # "blocked")
    => (signaled ~> main \in {"done", "stuck", "crashed"})
=============================================================================
