------------------------------ MODULE Lifecycle ------------------------------
(***************************************************************************)
(* AAServer from start to end, and again: scripts/start runs it in a loop; *)
(* main builds the initial gadget in configfs, goes through the switch to  *)
(* accessory mode (ModeSwitch), takes that gadget down, builds the main    *)
(* gadget, opens the socket and serves until SIGINT or the error of a pump *)
(* ends it.  main catches nothing: an exception is std::terminate, which   *)
(* destroys nothing, and configfs keeps what the process has made; the     *)
(* destructors catch everything, and what they cannot remove stays, too.   *)
(***************************************************************************)
EXTENDS ModeSwitch

CONSTANT MaxFaults       \* bound: calls and removals that fail, kills, power cycles

ASSUME FaultsAssumption == MaxFaults \in Nat

VARIABLES
    at,          \* where main is
    gadgets,     \* configfs: the gadgets there are
    mounts,      \* functionfs mounts, by the gadget of the function
    keptGadgets, \* history: gadgets whose removal has failed
    keptMounts,  \* the same of mounts: whatever is mounted over one leaves it there
    bound,       \* the gadget the UDC is bound to
    socket,      \* the file ./socket exists
    quit,        \* the ManualResetEvent mre
    handler,     \* SIGINT goes to signal_handler
    faults,      \* how many there were
    hampered     \* history: the run found something left, or was cut short

keptVars == <<keptGadgets, keptMounts>>
systemVars == <<gadgets, mounts, bound, socket, keptVars>>
processVars == <<at, quit, handler>>
faultVars == <<faults, hampered>>
lifeVars == <<systemVars, processVars, faultVars>>
allVars == <<vars, lifeVars>>

\* "input + run random": the name as it is.
rr(name) == name

Initial == rr("initial_state")
Main == rr("main_state")
None == "none"

\* The places of main at which a gadget is not there yet, is there, has its
\* functions, is complete.
Before == [g \in {Initial, Main} |-> IF g = Initial THEN "started" ELSE "setup"]
Made   == [g \in {Initial, Main} |-> IF g = Initial THEN "initialMade" ELSE "mainMade"]
Mounted == [g \in {Initial, Main} |-> IF g = Initial THEN "initialMounted" ELSE "mainMounted"]
Ready  == [g \in {Initial, Main} |-> IF g = Initial THEN "initialReady" ELSE "mainReady"]
Places == {"down", "switch", "context", "listen", "serving", "stuck", "closing", "removing"}
          \union {p[g] : p \in {Before, Made, Mounted, Ready}, g \in {Initial, Main}}

LifeInit ==
    /\ Init
    /\ at = "down" /\ gadgets = {} /\ mounts = {} /\ bound = None /\ socket = FALSE
    /\ keptGadgets = {} /\ keptMounts = {}
    /\ quit = FALSE /\ handler = FALSE /\ faults = 0 /\ hampered = FALSE

Goto(from, to) == at = from /\ at' = to

-----------------------------------------------------------------------------
(* The end of a process that nobody has prepared: its descriptors are      *)
(* closed, and with ep0 the UDC is free again.                             *)

Terminate ==
    /\ at' = "down" /\ bound' = None
    /\ quit' = FALSE /\ handler' = FALSE
    /\ UNCHANGED <<vars, gadgets, mounts, socket, keptVars>>

Fault ==
    /\ faults < MaxFaults
    /\ faults' = faults + 1
    /\ hampered' = TRUE

\* A libusbg call, mount, open, write of descriptors, or a certificate that
\* cannot be read: an exception.
SystemCallFails ==
    /\ at \notin {"down", "switch", "serving", "stuck", "closing", "removing"}
    /\ Fault /\ Terminate

\* SIGKILL at any time, SIGINT once signal_handler has reset it, and a destructor
\* that crashes (Shutdown).
Kill ==
    /\ at # "down"
    /\ Fault /\ Terminate

\* Configfs and mounts are in memory, the socket is a file.
PowerCycle ==
    /\ Fault
    /\ at' = "down" /\ gadgets' = {} /\ mounts' = {} /\ bound' = None
    /\ keptGadgets' = {} /\ keptMounts' = {}
    /\ quit' = FALSE /\ handler' = FALSE
    /\ UNCHANGED <<vars, socket>>

-----------------------------------------------------------------------------
(* main.                                                                   *)

\* Mutant: the loop does not remove the socket.
RunOnly ==
    /\ Goto("down", "started")
    /\ handler' = TRUE /\ hampered' = (gadgets \union mounts # {})
    /\ UNCHANGED <<vars, systemVars, quit, faults>>

\* The loop of scripts/start: rm -f socket, ./AAServer.
Run ==
    /\ Goto("down", "started")
    /\ socket' = FALSE
    /\ handler' = TRUE /\ hampered' = (gadgets \union mounts # {})
    /\ UNCHANGED <<vars, gadgets, mounts, bound, keptVars, quit, faults>>

\* Gadget: the name is free, or libusbg says EXIST.
CreateGadget(g) ==
    /\ at = Before[g]
    /\ \/ /\ g \notin gadgets
          /\ gadgets' = gadgets \union {g}
          /\ at' = Made[g]
          /\ UNCHANGED <<vars, mounts, bound, socket, keptVars, quit, handler>>
       \/ g \in gadgets /\ Terminate
    /\ UNCHANGED faultVars

\* MassStorageFunction, FfsFunction and its mount, which may fail if an older one
\* is still there ...
AddFunctions(g) ==
    /\ at = Made[g]
    /\ \/ /\ mounts' = mounts \union {g}
          /\ at' = Mounted[g]
          /\ UNCHANGED <<vars, gadgets, bound, socket, keptVars, quit, handler>>
       \/ g \in mounts /\ Terminate
    /\ UNCHANGED faultVars

\* ... which Configuration takes; ep0 is given the descriptors.
AddConfiguration(g) ==
    /\ Goto(Mounted[g], Ready[g])
    /\ UNCHANGED <<vars, systemVars, quit, handler, faultVars>>

\* The host begins anew with the new device.
BeginSwitch ==
    /\ next' = Version /\ waiting' = FALSE
    /\ ep0' = "none" /\ setup' = Version /\ events' = <<>>
    /\ loop' = "read" /\ buffer' = <<>> /\ info' = <<>> /\ cancelled' = FALSE
    /\ UNCHANGED <<timeouts, others, signals>>

Enable(g) ==
    /\ Goto(Ready[g], IF g = Initial THEN "switch" ELSE "listen")
    /\ bound' = g
    /\ IF g = Initial THEN BeginSwitch ELSE UNCHANGED vars
    /\ UNCHANGED <<gadgets, mounts, socket, keptVars, quit, handler, faultVars>>

\* ~FfsFunction and ~Gadget: either may fail, says so and goes on.
RemoveGadget(g) ==
    /\ \E unmounted, removed \in BOOLEAN :
        /\ keptMounts' = IF unmounted THEN keptMounts ELSE keptMounts \union {g}
        /\ mounts' = mounts \ ({g} \ keptMounts')
        /\ keptGadgets' = IF removed THEN keptGadgets ELSE keptGadgets \union {g}
        /\ gadgets' = gadgets \ ({g} \ keptGadgets')
        /\ IF unmounted /\ removed THEN UNCHANGED faults
                                   ELSE faults < MaxFaults /\ faults' = faults + 1
    /\ UNCHANGED hampered

\* handleSwitchToAccessoryMode closes ep0 and returns ...
LeaveSwitch ==
    /\ loop = "closed"
    /\ Goto("switch", "context")
    /\ bound' = None /\ RemoveGadget(Initial)
    /\ UNCHANGED <<vars, socket, quit, handler>>

\* ... or throws.
SwitchFails ==
    /\ at = "switch" /\ loop = "failed"
    /\ Terminate
    /\ hampered' = (hampered \/ cancelled)
    /\ UNCHANGED faults

\* AaCommunicator's constructor: initializeSslContext.
LoadContext ==
    /\ Goto("context", "setup")
    /\ UNCHANGED <<vars, systemVars, quit, handler, faultVars>>

\* Mutant: an interrupt that came before is forgotten.
ServeAfresh ==
    /\ Goto("listen", "serving")
    /\ socket' = TRUE /\ quit' = FALSE
    /\ UNCHANGED <<vars, gadgets, mounts, bound, keptVars, handler, faultVars>>

\* The listening thread binds the socket; its exception ends the process, too.
Serve ==
    /\ at = "listen"
    /\ \/ /\ ~socket
          /\ socket' = TRUE /\ at' = "serving"
          /\ UNCHANGED <<vars, gadgets, mounts, bound, keptVars, quit, handler>>
       \/ socket /\ Terminate
    /\ UNCHANGED faultVars

\* mre.wait returns: ~SocketCommunicator joins the listening thread and removes
\* the socket, ...
CloseSocket ==
    /\ quit /\ Goto("serving", "closing")
    /\ socket' = FALSE
    /\ UNCHANGED <<vars, gadgets, mounts, bound, keptVars, quit, handler, faultVars>>

\* Mutant: ep0 stays open.
CloseEndpointsNot ==
    /\ Goto("closing", "removing")
    /\ UNCHANGED <<vars, systemVars, quit, handler, faultVars>>

\* ... joins the clients' threads; ~AaCommunicator joins the pumps and closes ep0,
\* if all these threads end (Shutdown), ...
CloseEndpoints ==
    /\ Goto("closing", "removing")
    /\ bound' = None
    /\ UNCHANGED <<vars, gadgets, mounts, socket, keptVars, quit, handler, faultVars>>

\* ... and its members, ffs_function and mainGadget.
Exit ==
    /\ Goto("removing", "down")
    /\ RemoveGadget(Main)
    /\ quit' = FALSE /\ handler' = FALSE
    /\ UNCHANGED <<vars, bound, socket>>

MainStep ==
    \/ Run \/ LeaveSwitch \/ SwitchFails \/ LoadContext \/ Serve
    \/ CloseSocket \/ Exit
    \/ \E g \in {Initial, Main} : CreateGadget(g) \/ AddFunctions(g) \/ AddConfiguration(g)
                                     \/ Enable(g)

-----------------------------------------------------------------------------
\* signal_handler: the first SIGINT is noted, also in the switch, whose read it
\* only interrupts; then the signal is reset.  But the handler, on main's thread,
\* needs the mutex of mre: if main has it in mre.wait, nothing goes on.
Interrupt ==
    /\ at \notin {"down", "stuck"} /\ handler
    /\ \/ /\ quit' = TRUE /\ handler' = FALSE
          /\ IF at = "switch" /\ loop = "read" THEN ReadInterrupted ELSE UNCHANGED vars
          /\ UNCHANGED at
       \/ Goto("serving", "stuck") /\ UNCHANGED <<vars, quit, handler>>
    /\ UNCHANGED <<systemVars, faultVars>>

\* The error of a pump: the host has gone, a client was fatal, ...
PumpError ==
    /\ at = "serving"
    /\ quit' = TRUE
    /\ UNCHANGED <<vars, systemVars, at, handler, faultVars>>

InSwitch == at = "switch" /\ UNCHANGED lifeVars

LifeNext ==
    \/ MainStep \/ CloseEndpoints
    \/ (InSwitch /\ Next)
    \/ Interrupt \/ PumpError \/ SystemCallFails \/ Kill \/ PowerCycle

LifeSpec == LifeInit /\ [][LifeNext]_allVars

\* main goes on, and so does the loop of scripts/start, but whether the joins of
\* the destructors end is left open: Shutdown says when they do not.  The loop of
\* the switch has nothing else to do.  The host need not come, nor go on to its
\* next request; a request that it has begun has a timeout.
FairLifeSpec ==
    /\ LifeSpec /\ WF_allVars(MainStep)
    /\ WF_allVars(InSwitch /\ Loop) /\ WF_allVars(InSwitch /\ RequestLost)

-----------------------------------------------------------------------------
(* Properties.                                                             *)

\* Types of main's and the system's state; the UDC is bound to a gadget that is
\* there and mounted.
LifecycleTypeOK ==
    /\ SwitchTypeOK
    /\ at \in Places /\ gadgets \subseteq {Initial, Main} /\ mounts \subseteq {Initial, Main}
    /\ keptGadgets \subseteq gadgets /\ keptMounts \subseteq mounts
    /\ bound \in (gadgets \intersect mounts) \union {None} /\ socket \in BOOLEAN
    /\ quit \in BOOLEAN /\ handler \in BOOLEAN
    /\ faults \in 0..MaxFaults /\ hampered \in BOOLEAN

\* A run that finds nothing and is not cut short leaves no socket, and no gadget
\* and no mount but those whose own removal has failed: not the other gadget, nor
\* the gadget of such a mount.  A run is cut short from outside, or by a request
\* that the host or the bus cancelled while it was pending.
NothingLeft ==
    at = "down" /\ ~hampered => gadgets = keptGadgets /\ mounts = keptMounts /\ ~socket

\* The host is in no request and has not said everything: it may stay away, and the
\* switch waits, in a read or with the answer to a request that has timed out.
HostAway == at = "switch" /\ ~waiting /\ ~HostDone

\* The server comes up again and again, as soon as a host lets it, unless a run
\* has left a gadget whose name the next one needs.
ServesAgain ==
    []<>~HostAway =>
        ((at = "down") ~> (at = "serving" \/ (at = "down" /\ gadgets # {})))

\* The first SIGINT ends the run wherever it comes, after the switch at the latest,
\* and so does an error; unless the host never ends the switch, a thread that main
\* joins never ends, or the handler itself has blocked main.
InterruptEnds ==
    []<>~HostAway /\ []<>(at # "closing") => (quit ~> at \in {"down", "stuck"})

\* utils.cpp says "input + run random" of the names: those of a run are its own.
NamesOfThisRun == \A g \in {Initial, Main} : at = Before[g] => g \notin gadgets
=============================================================================
