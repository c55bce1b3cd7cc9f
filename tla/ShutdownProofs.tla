--------------------------- MODULE ShutdownProofs ---------------------------
(***************************************************************************)
(* Proofs about Shutdown, for any set of clients: its types, that no pump  *)
(* dies unheard, and which threads are left when main goes on to the       *)
(* pumps.                                                                  *)
(***************************************************************************)
EXTENDS Shutdown, FiniteSetTheorems, TLAPS

-----------------------------------------------------------------------------
(* The inductive invariant.                                                *)

\* A pump leaves its loop only after one has raised the flag, or main has, and
\* while main waits, or sets up, it is being told, or has been, or missed it.
FlagRaised ==
    /\ \A p \in Pumps : pump[p] \in {"failing", "ended"} => threadFinished
    /\ main \in {"kill", "done"} => threadFinished
FlagHeard ==
    main \in {"setup", "lock", "wait"} /\ threadFinished
        => signaled \/ missed \/ \E p \in Pumps : pump[p] = "failing"
PumpsHeard == FlagRaised /\ FlagHeard

\* From the clients on, the listening thread has been joined: nobody comes any more.
Beyond == {"clients", "kill", "done", "crashed"}
ListenJoined ==
    /\ main = "setup" => listen = "none"
    /\ main \in Beyond => listen = "ended"

\* A client's thread runs as long as the client is listed, but for the last slot.
Unlisted ==
    \A c \in Clients : Running(c) /\ c \notin listed => client[c] = "unmap"

\* The destructor's loop: until something breaks it, whoever is listed and runs is
\* still to be visited.
Visited ==
    /\ main \in Beyond /\ ~torn => \A c \in listed : Running(c) => c \in toDelete
    /\ main # "clients" => toDelete = {} /\ deleting = {}
ClientsJoined == ListenJoined /\ Unlisted /\ Visited

IInv == ShutdownTypeOK /\ PumpsHeard /\ ClientsJoined

-----------------------------------------------------------------------------
(* Types.                                                                  *)

\* The destructor's loop is in at most one client's destructor.
LEMMA AtMostOne == Cardinality({}) <= 1 /\ \A c \in Clients : Cardinality({c}) <= 1
<1>1. Cardinality({}) = 0
  BY FS_EmptySet
<1>2. ASSUME NEW c \in Clients
      PROVE  Cardinality({c}) = 1
  BY FS_Singleton
<1>. QED BY <1>1, <1>2

ClientPlaces == {"none", "poll", "packet", "wait", "send", "unlist", "unmap", "ended"}
PumpPlaces == {"get", "ready", "blocked", "handle", "write", "failing", "ended"}

\* Every step keeps the types.
LEMMA ShutdownTypeStep ==
    ASSUME ShutdownTypeOK, [Next]_vars
    PROVE  ShutdownTypeOK'
<1>. USE DEF ShutdownTypeOK, eventVars, serverVars, clientVars, loopVars, pumpVars, PumpGoto, CheckedGoto, ClientGoto
<1>1. ASSUME NEW p \in Pumps, Poll(p)
      PROVE  ShutdownTypeOK'
  BY <1>1 DEF Poll
<1>2. ASSUME NEW p \in Pumps, Block(p)
      PROVE  ShutdownTypeOK'
  BY <1>2 DEF Block
<1>3. ASSUME NEW p \in Pumps, Transfer(p)
      PROVE  ShutdownTypeOK'
  BY <1>3 DEF Transfer
<1>4. ASSUME NEW p \in Pumps, Throw(p)
      PROVE  ShutdownTypeOK'
  BY <1>4 DEF Throw
<1>5. ASSUME NEW p \in Pumps, Report(p)
      PROVE  ShutdownTypeOK'
  BY <1>5 DEF Report
<1>6. ASSUME NEW p \in Pumps, Kill(p)
      PROVE  ShutdownTypeOK'
  BY <1>6 DEF Kill
<1>7. ASSUME NEW c \in Clients, Answer(c)
      PROVE  ShutdownTypeOK'
  BY <1>7 DEF Answer, Pumps
<1>8. ASSUME NEW c \in Clients, Accept(c)
      PROVE  ShutdownTypeOK'
  BY <1>8 DEF Accept
<1>9. ASSUME NEW c \in Clients, SeeCancel(c)
      PROVE  ShutdownTypeOK'
  BY <1>9 DEF SeeCancel
<1>10. ASSUME NEW c \in Clients, SocketReady(c)
      PROVE  ShutdownTypeOK'
  BY <1>10 DEF SocketReady
<1>11. ASSUME NEW c \in Clients, HandlePacket(c)
      PROVE  ShutdownTypeOK'
  BY <1>11 DEF HandlePacket
<1>12. ASSUME NEW c \in Clients, Unlist(c)
      PROVE  ShutdownTypeOK'
  BY <1>12 DEF Unlist
<1>13. ASSUME NEW c \in Clients, Unmap(c)
      PROVE  ShutdownTypeOK'
  BY <1>13 DEF Unmap
<1>14. ASSUME NEW c \in Clients, CancelClient(c)
      PROVE  ShutdownTypeOK'
  BY <1>14, AtMostOne DEF CancelClient
<1>15. ASSUME NEW c \in Clients, JoinClient(c)
      PROVE  ShutdownTypeOK'
  BY <1>15, AtMostOne DEF JoinClient
<1>16. GetFrame => ShutdownTypeOK'
  BY DEF GetFrame, Pumps
<1>17. HandleMessage => ShutdownTypeOK'
  BY DEF HandleMessage, Pumps
<1>18. ListenWake => ShutdownTypeOK'
  BY DEF ListenWake
<1>19. AcceptFails => ShutdownTypeOK'
  BY DEF AcceptFails
<1>20. Connect => ShutdownTypeOK'
  BY DEF Connect
<1>21. Interrupt => ShutdownTypeOK'
  BY DEF Interrupt
<1>22. Wake => ShutdownTypeOK'
  BY DEF Wake
<1>23. JoinListen => ShutdownTypeOK'
  BY DEF JoinListen
<1>24. FinishThreads => ShutdownTypeOK'
  BY DEF FinishThreads
<1>25. JoinPumps => ShutdownTypeOK'
  BY DEF JoinPumps
<1>26. UNCHANGED vars => ShutdownTypeOK'
  BY DEF vars
<1>27. ASSUME NEW c \in Clients, ClientReads(c)
      PROVE  ShutdownTypeOK'
  BY <1>27 DEF ClientReads
<1>28. WriteClient \/ ClientTakes => ShutdownTypeOK'
  BY DEF WriteClient, ClientTakes, Pumps
<1>29. Sleep \/ Awake => ShutdownTypeOK'
  BY DEF Sleep, Awake
<1>30. Crash => ShutdownTypeOK'
  BY AtMostOne DEF Crash
<1>. QED
  BY <1>1, <1>2, <1>3, <1>4, <1>5, <1>6, <1>7, <1>8, <1>9, <1>10, <1>11, <1>12, <1>13, <1>14, <1>15, <1>16, <1>17, <1>18, <1>19, <1>20, <1>21, <1>22, <1>23, <1>24, <1>25, <1>26, <1>27, <1>28, <1>29, <1>30 DEF Next, Main, Pump, ClientThread
-----------------------------------------------------------------------------
(* The pumps and what main hears of them.                                  *)

\* A step that leaves main and the flag, and no pump's place is such that it was
\* not such before.
LEMMA QuietPumps ==
    ASSUME PumpsHeard, UNCHANGED <<main, threadFinished>>,
           signaled => signaled', missed => missed',
           \A p \in Pumps : pump'[p] \in {"failing", "ended"} => threadFinished,
           \A p \in Pumps : pump[p] = "failing" => pump'[p] = "failing"
    PROVE  PumpsHeard'
BY DEF PumpsHeard, FlagRaised, FlagHeard

\* Every step keeps it that a pump's end is heard.
LEMMA PumpsStep ==
    ASSUME ShutdownTypeOK, PumpsHeard, [Next]_vars
    PROVE  PumpsHeard'
<1>1. pump \in [Pumps -> PumpPlaces] /\ \A p \in Pumps : pump[p] \in {"failing", "ended"} => threadFinished
  BY DEF ShutdownTypeOK, PumpPlaces, PumpsHeard, FlagRaised
<1>. USE DEF eventVars, serverVars, clientVars, loopVars, pumpVars, PumpGoto, CheckedGoto
<1>2. ASSUME NEW p \in Pumps, Poll(p) \/ Block(p) \/ Transfer(p)
      PROVE  PumpsHeard'
  BY <1>1, <1>2, QuietPumps DEF Poll, Block, Transfer
<1>3. ASSUME NEW p \in Pumps, Throw(p)
      PROVE  PumpsHeard'
  BY <1>1, <1>3 DEF Throw, PumpsHeard, FlagRaised, FlagHeard
<1>4. ASSUME NEW p \in Pumps, Report(p)
      PROVE  PumpsHeard'
  BY <1>1, <1>4 DEF Report, PumpsHeard, FlagRaised, FlagHeard
<1>5. ASSUME NEW p \in Pumps, Kill(p)
      PROVE  PumpsHeard'
  BY <1>1, <1>5 DEF Kill, PumpsHeard, FlagRaised, FlagHeard
<1>6. ASSUME NEW c \in Clients, Answer(c)
      PROVE  PumpsHeard'
  BY <1>1, <1>6, QuietPumps DEF Answer, Pumps
<1>7. GetFrame \/ HandleMessage \/ WriteClient \/ ClientTakes => PumpsHeard'
  BY <1>1, QuietPumps DEF GetFrame, HandleMessage, WriteClient, ClientTakes, Pumps
<1>8. ASSUME NEW c \in Clients,
             \/ Accept(c) \/ ClientThread(c) \/ SocketReady(c) \/ ClientReads(c)
             \/ CancelClient(c) \/ JoinClient(c)
      PROVE  PumpsHeard'
  BY <1>1, <1>8, QuietPumps DEF Accept, ClientThread, SeeCancel, HandlePacket, Unlist, Unmap,
     SocketReady, ClientReads, CancelClient, JoinClient
<1>9. ListenWake \/ AcceptFails \/ UNCHANGED vars => PumpsHeard'
  BY <1>1, QuietPumps DEF ListenWake, AcceptFails, vars
<1>10. Connect \/ Sleep \/ Awake \/ Interrupt \/ Wake \/ JoinListen \/ FinishThreads \/ JoinPumps => PumpsHeard'
  BY DEF Connect, Sleep, Awake, Interrupt, Wake, JoinListen, FinishThreads, JoinPumps, PumpsHeard, FlagRaised, FlagHeard
<1>11. Crash => PumpsHeard'
  BY DEF Crash, PumpsHeard, FlagRaised, FlagHeard
<1>. QED BY <1>2, <1>3, <1>4, <1>5, <1>6, <1>7, <1>8, <1>9, <1>10, <1>11 DEF Next, Main, Pump

-----------------------------------------------------------------------------
(* The threads of the clients.                                             *)

\* A step that leaves main, the listening thread, the set and the loop, and by
\* which no thread begins or is at its last slot and goes on.
LEMMA QuietClients ==
    ASSUME ClientsJoined, listed \subseteq Clients,
           UNCHANGED <<main, listen, listed, toDelete, deleting, torn>>,
           \A c \in Clients : Running(c)' => Running(c),
           \A c \in Clients : client[c] = "unmap" => client'[c] \in {"unmap", "ended"}
    PROVE  ClientsJoined'
<1>1. ListenJoined'
  BY DEF ClientsJoined, ListenJoined, Beyond
<1>2. Unlisted'
  BY DEF ClientsJoined, Unlisted, Running
<1>3. Visited'
  BY DEF ClientsJoined, Visited, Beyond, Running
<1>. QED BY <1>1, <1>2, <1>3 DEF ClientsJoined

\* Every step keeps it that threads that run are listed, and those listed visited.
LEMMA ClientsStep ==
    ASSUME ShutdownTypeOK, ClientsJoined, [Next]_vars
    PROVE  ClientsJoined'
<1>1. client \in [Clients -> ClientPlaces] /\ listed \subseteq Clients
  BY DEF ShutdownTypeOK, ClientPlaces
<1>. USE DEF eventVars, serverVars, clientVars, loopVars, pumpVars, ClientGoto
<1>2. ASSUME NEW c \in Clients, Accept(c)
      PROVE  ClientsJoined'
  BY <1>1, <1>2 DEF Accept, ClientsJoined, ListenJoined, Unlisted, Visited, Beyond, Running
<1>3. ASSUME NEW c \in Clients, Unlist(c)
      PROVE  ClientsJoined'
  BY <1>1, <1>3 DEF Unlist, ClientsJoined, ListenJoined, Unlisted, Visited, Beyond, Running
<1>4. ASSUME NEW c \in Clients,
             SeeCancel(c) \/ SocketReady(c) \/ HandlePacket(c) \/ ClientReads(c) \/ Unmap(c) \/ Answer(c)
      PROVE  ClientsJoined'
  <2>1. /\ UNCHANGED <<main, listen, listed, toDelete, deleting, torn>>
        /\ client[c] \in {"poll", "packet", "unmap", "wait", "send"}
        /\ \E place \in {"poll", "packet", "unlist", "wait", "send", "ended"} :
              client' = [client EXCEPT ![c] = place] /\ (client[c] = "unmap" => place = "ended")
    BY <1>4 DEF SeeCancel, SocketReady, HandlePacket, ClientReads, Unmap, Answer
  <2>. QED BY <1>1, <2>1, QuietClients DEF Running
<1>5. ASSUME NEW c \in Clients, CancelClient(c)
      PROVE  ClientsJoined'
  BY <1>5 DEF CancelClient, ClientsJoined, ListenJoined, Unlisted, Visited, Beyond, Running
<1>6. ASSUME NEW c \in Clients, JoinClient(c)
      PROVE  ClientsJoined'
  BY <1>6 DEF JoinClient, ClientsJoined, ListenJoined, Unlisted, Visited, Beyond, Running
<1>7. ListenWake \/ AcceptFails => ClientsJoined'
  BY DEF ListenWake, AcceptFails, ClientsJoined, ListenJoined, Unlisted, Visited, Beyond, Running
<1>8. Connect \/ Sleep \/ Awake \/ Interrupt \/ Wake \/ JoinListen \/ FinishThreads \/ JoinPumps => ClientsJoined'
  BY DEF Connect, Sleep, Awake, Interrupt, Wake, JoinListen, FinishThreads, JoinPumps, ClientsJoined, ListenJoined,
     Unlisted, Visited, Beyond, Running
<1>9. ASSUME NEW p \in Pumps, Pump(p) \/ Transfer(p) \/ Throw(p) \/ Kill(p)
      PROVE  ClientsJoined'
  BY <1>1, <1>9, QuietClients DEF Pump, Poll, Block, Report, Transfer, Throw, Kill, Running
<1>10. GetFrame \/ HandleMessage \/ WriteClient \/ ClientTakes \/ UNCHANGED vars => ClientsJoined'
  BY <1>1, QuietClients DEF GetFrame, HandleMessage, WriteClient, ClientTakes, vars, Running
<1>11. Crash => ClientsJoined'
  BY <1>1 DEF Crash, ClientsJoined, ListenJoined, Unlisted, Visited, Beyond, Running
<1>. QED BY <1>2, <1>3, <1>4, <1>5, <1>6, <1>7, <1>8, <1>9, <1>10, <1>11 DEF Next, Main, ClientThread

-----------------------------------------------------------------------------
(* The theorems.                                                           *)

\* The inductive invariant.
THEOREM ShutdownInvariant == Spec => []IInv
<1>1. Init => IInv
  <2>. SUFFICES ASSUME Init PROVE IInv
    OBVIOUS
  <2>1. ShutdownTypeOK
    BY AtMostOne DEF Init, ShutdownTypeOK
  <2>2. PumpsHeard
    BY DEF Init, PumpsHeard, FlagRaised, FlagHeard
  <2>3. ClientsJoined
    BY DEF Init, ClientsJoined, ListenJoined, Unlisted, Visited, Beyond, Running
  <2>. QED BY <2>1, <2>2, <2>3 DEF IInv
<1>2. IInv /\ [Next]_vars => IInv'
  BY ShutdownTypeStep, PumpsStep, ClientsStep DEF IInv
<1>. QED BY <1>1, <1>2, PTL DEF Spec

\* The types of all variables; main is never in two clients' destructors.
THEOREM ShutdownTypeCorrect == Spec => []ShutdownTypeOK
<1>1. IInv => ShutdownTypeOK
  BY DEF IInv
<1>. QED BY <1>1, ShutdownInvariant, PTL

\* No pump dies in silence, except before main is connected.
THEOREM NoSilence == Spec => []NoSilentDeath
<1>1. IInv => NoSilentDeath
  BY DEF IInv, PumpsHeard, FlagRaised, FlagHeard, NoSilentDeath
<1>. QED BY <1>1, ShutdownInvariant, PTL

\* Behind the destructor's loop only threads in their last slot are left, unless
\* a client that left broke the loop.
THEOREM NobodyLeftBehind == Spec => []NoThreadLeftBehind
<1>1. IInv => NoThreadLeftBehind
  BY DEF IInv, ClientsJoined, Unlisted, Visited, Beyond, NoThreadLeftBehind
<1>. QED BY <1>1, ShutdownInvariant, PTL
=============================================================================
