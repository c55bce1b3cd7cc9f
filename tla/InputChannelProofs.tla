------------------------- MODULE InputChannelProofs -------------------------
(***************************************************************************)
(* Proofs about InputChannel, for any clients, any bounds and any size of  *)
(* the sockets' buffers: its types, that events come in order, that no     *)
(* registered client misses one, and that nobody goes on over a stale      *)
(* answer.                                                                 *)
(***************************************************************************)
EXTENDS InputChannel, Integers, SequenceTheorems, TLAPS

-----------------------------------------------------------------------------
(* The inductive invariant.                                                *)

\* places lists where the n events of queue q are, in order.
Lists(places, n, q) ==
    /\ places \in [1..n -> 1..Len(q)]
    /\ \A j, k \in 1..n : j < k => places[j] < places[k]
    /\ \A i \in 1..Len(q) : q[i] = Event <=> \E k \in 1..n : places[k] = i

\* The events on their way are those sent and not yet taken by the pump.
EventsCounted ==
    /\ current <= events
    /\ \E places : Lists(places, events - current, fromHeadunit)

\* The loop visits clients only while it runs, and, unless the set has been
\* changed under it, registered ones.
LoopSound ==
    /\ ep2 # "loop" => visit = {}
    /\ ep2 = "loop" => current >= 1
    /\ ep2 = "loop" /\ current \notin torn => ~corrupt /\ visit \subseteq registered

\* Who is not registered has got nothing but what a torn loop wrote, or has
\* left for good.
Unregistered ==
    ~corrupt => \A c \in Clients : IF pc[c] = "gone" THEN c \notin registered
                                  ELSE c \notin registered => Got(c) \subseteq torn

\* Nobody has got an event that is still to come, nor the one he is still to
\* be visited for, unless its loop is torn.
NothingAhead ==
    \A c \in Clients : \A i \in 1..Len(inbox[c]) :
        /\ inbox[c][i] <= current
        /\ c \in visit /\ current \notin torn => inbox[c][i] < current

\* Registered clients are due events from their first on.
FirstDue ==
    ~corrupt => \A c \in registered :
        /\ firstEvent[c] <= current + 1
        /\ c \in visit /\ current \notin torn => firstEvent[c] <= current

\* The shared flag, set, is fresh for all who wait for it.
FlagFresh ==
    \A c \in Clients : pc[c] \in {"sendOpen", "waitOpen"} /\ gotOpen => fresh[c]

\* What the loop of the pump and the set of clients keep, and the flags.
Delivery ==
    LoopSound /\ Unregistered /\ NothingAhead /\ EventsInOrder /\ FirstDue /\ NoEventMissed
Flags == FlagFresh /\ NoStaleOpen

IInv == InputTypeOK /\ EventsCounted /\ Delivery /\ Flags

-----------------------------------------------------------------------------
(* Types.                                                                  *)

\* The pump takes only events that were sent.
LEMMA EventDue ==
    ASSUME InputTypeOK, EventsCounted, fromHeadunit # <<>>, fromHeadunit[1] = Event
    PROVE  current + 1 <= events
<1>1. PICK places : Lists(places, events - current, fromHeadunit)
  BY DEF EventsCounted
<1>2. 1 \in 1..Len(fromHeadunit)
  BY DEF InputTypeOK
<1>3. \E k \in 1..(events - current) : places[k] = 1
  BY <1>1, <1>2 DEF Lists
<1>. QED BY <1>3 DEF InputTypeOK

\* The types of the set of clients, the loop over it and their races.
SetTypes ==
    /\ registered \subseteq Clients /\ visit \subseteq Clients
    /\ torn \subseteq 1..MaxEvents /\ strays \in 0..MaxStrays /\ corrupt \in BOOLEAN

\* A change of the set keeps them.
LEMMA TouchTypes ==
    ASSUME InputTypeOK, Delivery, NEW c \in Clients,
           NEW change \in SUBSET Clients, NEW visits \in SUBSET SUBSET Clients,
           Touch(c, change, visits)
    PROVE  SetTypes'
<1>1. corrupt' \in BOOLEAN
  BY Zenon DEF Touch, InputTypeOK
<1>2. registered' \subseteq Clients /\ visit' \subseteq Clients
  BY DEF Touch, InputTypeOK
<1>3. ep2 = "loop" => current \in 1..MaxEvents
  BY DEF InputTypeOK, Delivery, LoopSound
<1>4. torn' \subseteq 1..MaxEvents
  BY <1>3 DEF Touch, InputTypeOK
<1>5. strays' \in 0..MaxStrays
  <2>1. strays' = strays \/ (strays < MaxStrays /\ strays' = strays + 1)
    BY DEF Touch
  <2>. QED BY <2>1, InputBounds DEF InputTypeOK
<1>. QED BY <1>1, <1>2, <1>4, <1>5 DEF SetTypes

\* Every step keeps the types.
LEMMA InputTypeStep ==
    ASSUME IInv, [Next]_vars
    PROVE  InputTypeOK'
<1>. USE InputBounds DEF InputTypeOK, clientVars, socketVars, flagVars, wireVars, loopVars, setVars, Goto, Places
<1>. InputTypeOK
  BY DEF IInv
<1>1. ASSUME NEW c \in Clients, ClientRead(c)
      PROVE  InputTypeOK'
  BY <1>1 DEF ClientRead
<1>2. ASSUME NEW c \in Clients, ClientClose(c)
      PROVE  InputTypeOK'
  BY <1>2 DEF ClientClose
<1>3. ASSUME NEW c \in Clients, ReadPacket(c)
      PROVE  InputTypeOK'
  <2>1. \/ UNCHANGED packets
        \/ packets[c] > 0 /\ packets' = [packets EXCEPT ![c] = @ - 1]
    BY <1>3 DEF ReadPacket
  <2>3. packets' \in [Clients -> 0..MaxPackets]
    <3>1. packets[c] \in 0..MaxPackets
      OBVIOUS
    <3>2. packets[c] > 0 => packets[c] - 1 \in 0..MaxPackets
      BY <3>1
    <3>. QED BY <2>1, <3>2
  <2>2. pc' \in [Clients -> Places] /\ peer' \in [Clients -> {"open", "closed", "reset"}]
    BY <1>3 DEF ReadPacket
  <2>. QED BY <1>3, <2>2, <2>3 DEF ReadPacket
<1>4. ASSUME NEW c \in Clients, Insert(c)
      PROVE  InputTypeOK'
  <2>. DEFINE change == registered \union {c}
              visits == {visit, visit \union {c}}
  <2>1. change \in SUBSET Clients /\ visits \in SUBSET SUBSET Clients
    OBVIOUS
  <2>2. SetTypes'
    <3>1. Touch(c, change, visits) /\ Delivery
      BY <1>4 DEF Insert, IInv
    <3>. HIDE DEF change, visits
    <3>. QED BY <2>1, <3>1, TouchTypes
  <2>3. firstEvent' \in [Clients -> 0..(MaxEvents + 1)]
    BY <1>4 DEF Insert
  <2>. QED BY <1>4, <2>2, <2>3 DEF Insert, SetTypes
<1>5. ASSUME NEW c \in Clients, ResetOpen(c)
      PROVE  InputTypeOK'
  BY <1>5 DEF ResetOpen
<1>6. ASSUME NEW c \in Clients, SendOpen(c)
      PROVE  InputTypeOK'
  BY <1>6 DEF SendOpen
<1>7. ASSUME NEW c \in Clients, ExpectOpen(c)
      PROVE  InputTypeOK'
  BY <1>7 DEF ExpectOpen
<1>8. ASSUME NEW c \in Clients, ResetHandshake(c)
      PROVE  InputTypeOK'
  BY <1>8 DEF ResetHandshake
<1>9. ASSUME NEW c \in Clients, SendHandshake(c)
      PROVE  InputTypeOK'
  BY <1>9 DEF SendHandshake
<1>10. ASSUME NEW c \in Clients, ExpectHandshake(c)
      PROVE  InputTypeOK'
  BY <1>10 DEF ExpectHandshake
<1>11. ASSUME NEW c \in Clients, Erase(c)
      PROVE  InputTypeOK'
  <2>. DEFINE change == registered \ {c}
              visits == {visit, visit \ {c}}
  <2>1. change \in SUBSET Clients /\ visits \in SUBSET SUBSET Clients
    OBVIOUS
  <2>2. SetTypes'
    <3>1. Touch(c, change, visits) /\ Delivery
      BY <1>11 DEF Erase, IInv
    <3>. HIDE DEF change, visits
    <3>. QED BY <2>1, <3>1, TouchTypes
  <2>. QED BY <1>11, <2>2 DEF Erase, SetTypes
<1>12. Answer => InputTypeOK'
  BY DEF Answer
<1>13. SendEvent => InputTypeOK'
  BY DEF SendEvent
<1>14. HandleOpenResponse => InputTypeOK'
  BY DEF HandleOpenResponse
<1>15. HandleHandshakeResponse => InputTypeOK'
  BY DEF HandleHandshakeResponse
<1>16. HandleEvent => InputTypeOK'
  <2>1. HandleEvent => current + 1 \in 1..MaxEvents
    BY EventDue DEF HandleEvent, IInv
  <2>2. HandleEvent => torn' \subseteq 1..MaxEvents
    BY <2>1 DEF HandleEvent
  <2>. QED BY <2>1, <2>2 DEF HandleEvent
<1>17. EventDone => InputTypeOK'
  BY DEF EventDone
<1>18. ASSUME NEW c \in Clients, WriteEvent(c)
      PROVE  InputTypeOK'
  <2>1. current \in 1..MaxEvents /\ inbox[c] \in Seq(1..MaxEvents) /\ peer[c] \in {"open", "closed", "reset"}
    BY <1>18 DEF WriteEvent, IInv, Delivery, LoopSound
  <2>2. Append(inbox[c], current) \in Seq(1..MaxEvents)
    BY <2>1
  <2>3. inbox' \in [Clients -> Seq(1..MaxEvents)]
    BY <1>18, <2>2 DEF WriteEvent
  <2>4. unread' \in [Clients -> 0..SocketBuffer]
    <3>1. \/ UNCHANGED unread
          \/ unread[c] < SocketBuffer /\ unread' = [unread EXCEPT ![c] = @ + 1]
      BY <1>18 DEF WriteEvent
    <3>2. unread[c] < SocketBuffer => unread[c] + 1 \in 0..SocketBuffer
      OBVIOUS
    <3>. QED BY <3>1, <3>2
  <2>5. peer' \in [Clients -> {"open", "closed", "reset"}]
    BY <1>18 DEF WriteEvent
  <2>6. visit' \subseteq Clients /\ ep2' \in {"idle", "loop", "ended"}
    BY <1>18 DEF WriteEvent
  <2>. QED BY <1>18, <2>3, <2>4, <2>5, <2>6 DEF WriteEvent
<1>19. Stray => InputTypeOK'
  <2>1. Stray => strays' \in 0..MaxStrays
    BY DEF Stray
  <2>2. Stray => visit' \subseteq Clients /\ ep2' \in {"idle", "loop", "ended"}
    BY DEF Stray
  <2>. QED BY <2>1, <2>2 DEF Stray
<1>20. UNCHANGED vars => InputTypeOK'
  BY DEF vars
<1>. QED
  BY <1>1, <1>2, <1>3, <1>4, <1>5, <1>6, <1>7, <1>8, <1>9, <1>10, <1>11, <1>12, <1>13, <1>14, <1>15, <1>16, <1>17, <1>18, <1>19, <1>20 DEF Next, ClientThread, Ep2

-----------------------------------------------------------------------------
(* The events on their way.                                                *)

\* All that a step does to them: an answer or an event is sent, or taken.
LEMMA WireStep ==
    ASSUME InputTypeOK, [Next]_vars
    PROVE  \/ UNCHANGED <<events, current, fromHeadunit>>
           \/ /\ \E m \in {OpenResponse, HandshakeResponse} : fromHeadunit' = Append(fromHeadunit, m)
              /\ UNCHANGED <<events, current>>
           \/ /\ fromHeadunit' = Append(fromHeadunit, Event)
              /\ events' = events + 1 /\ current' = current
           \/ /\ fromHeadunit # <<>> /\ fromHeadunit[1] # Event
              /\ fromHeadunit' = Tail(fromHeadunit)
              /\ UNCHANGED <<events, current>>
           \/ /\ fromHeadunit # <<>> /\ fromHeadunit[1] = Event
              /\ fromHeadunit' = Tail(fromHeadunit)
              /\ events' = events /\ current' = current + 1
<1>. USE DEF wireVars, loopVars
<1>1. ASSUME NEW c \in Clients, ClientRead(c) \/ ClientClose(c) \/ ClientThread(c)
      PROVE  UNCHANGED <<events, current, fromHeadunit>>
  BY <1>1 DEF ClientRead, ClientClose, ClientThread, ReadPacket, Insert, ResetOpen, SendOpen,
     ExpectOpen, ResetHandshake, SendHandshake, ExpectHandshake, Erase
<1>2. Answer => /\ \E m \in {OpenResponse, HandshakeResponse} : fromHeadunit' = Append(fromHeadunit, m)
                /\ UNCHANGED <<events, current>>
  BY DEF Answer
<1>3. SendEvent => /\ fromHeadunit' = Append(fromHeadunit, Event)
                   /\ events' = events + 1 /\ current' = current
  BY DEF SendEvent
<1>4. HandleOpenResponse \/ HandleHandshakeResponse
        => /\ fromHeadunit # <<>> /\ fromHeadunit[1] # Event
           /\ fromHeadunit' = Tail(fromHeadunit)
           /\ UNCHANGED <<events, current>>
  BY DEF HandleOpenResponse, HandleHandshakeResponse, OpenResponse, HandshakeResponse, Event
<1>5. HandleEvent => /\ fromHeadunit # <<>> /\ fromHeadunit[1] = Event
                     /\ fromHeadunit' = Tail(fromHeadunit)
                     /\ events' = events /\ current' = current + 1
  BY DEF HandleEvent
<1>6. EventDone => UNCHANGED <<events, current, fromHeadunit>>
  BY DEF EventDone
<1>7. ASSUME NEW c \in Clients, WriteEvent(c)
      PROVE  UNCHANGED <<events, current, fromHeadunit>>
  BY <1>7 DEF WriteEvent
<1>8. Stray \/ UNCHANGED vars => UNCHANGED <<events, current, fromHeadunit>>
  BY DEF Stray, vars
<1>. QED BY <1>1, <1>2, <1>3, <1>4, <1>5, <1>6, <1>7, <1>8, Zenon DEF Next, Ep2

\* They stay counted.
LEMMA EventsCountedStep ==
    ASSUME InputTypeOK, EventsCounted, [Next]_vars
    PROVE  EventsCounted'
<1>. DEFINE Due == 1..(events - current)
<1>1. PICK places : Lists(places, events - current, fromHeadunit)
  BY DEF EventsCounted
<1>2. /\ events \in Nat /\ current \in Nat /\ current <= events
      /\ fromHeadunit \in Seq({OpenResponse, HandshakeResponse, Event})
      /\ OpenResponse # Event /\ HandshakeResponse # Event
  BY DEF InputTypeOK, EventsCounted, OpenResponse, HandshakeResponse, Event
<1>3. CASE UNCHANGED <<events, current, fromHeadunit>>
  BY <1>1, <1>2, <1>3 DEF Lists, EventsCounted
<1>4. ASSUME NEW m \in {OpenResponse, HandshakeResponse},
             fromHeadunit' = Append(fromHeadunit, m), UNCHANGED <<events, current>>
      PROVE  EventsCounted'
  <2>1. /\ Len(fromHeadunit') = Len(fromHeadunit) + 1
        /\ fromHeadunit'[Len(fromHeadunit) + 1] # Event
        /\ \A i \in 1..Len(fromHeadunit) : fromHeadunit'[i] = fromHeadunit[i]
    BY <1>2, <1>4
  <2>2. places \in [1..(events' - current') -> 1..Len(fromHeadunit')]
    BY <1>1, <1>2, <1>4, <2>1 DEF Lists
  <2>3. Lists(places, events' - current', fromHeadunit')
    BY <1>1, <1>2, <1>4, <2>1, <2>2 DEF Lists
  <2>. QED BY <1>2, <1>4, <2>2, <2>3 DEF EventsCounted
<1>5. CASE fromHeadunit' = Append(fromHeadunit, Event) /\ events' = events + 1 /\ current' = current
  <2>. DEFINE last == Len(fromHeadunit) + 1
              more == [k \in 1..(events' - current') |-> IF k \in Due THEN places[k] ELSE last]
  <2>1. /\ Len(fromHeadunit') = last
        /\ fromHeadunit'[last] = Event
        /\ \A i \in 1..Len(fromHeadunit) : fromHeadunit'[i] = fromHeadunit[i]
    BY <1>2, <1>5
  <2>2. /\ 1..(events' - current') = Due \union {events - current + 1}
        /\ events - current + 1 \notin Due /\ events' - current' = events - current + 1
    <3>1. events - current \in Nat /\ events' - current' = events - current + 1
      BY <1>2, <1>5
    <3>. QED BY <3>1
  <2>3. more \in [1..(events' - current') -> 1..Len(fromHeadunit')]
    BY <1>1, <1>2, <2>1 DEF Lists
  <2>4. \A j, k \in 1..(events' - current') : j < k => more[j] < more[k]
    BY <1>1, <1>2, <1>5, <2>2 DEF Lists
  <2>5. ASSUME NEW i \in 1..Len(fromHeadunit')
        PROVE  fromHeadunit'[i] = Event <=> \E k \in 1..(events' - current') : more[k] = i
    <3>1. CASE i = last
      BY <2>1, <2>2, <3>1
    <3>2. CASE i \in 1..Len(fromHeadunit)
      BY <1>1, <1>2, <2>1, <2>2, <3>2 DEF Lists
    <3>. QED BY <1>2, <2>1, <3>1, <3>2
  <2>6. Lists(more, events' - current', fromHeadunit')
    BY <2>3, <2>4, <2>5 DEF Lists
  <2>. QED BY <1>2, <1>5, <2>3, <2>6 DEF EventsCounted
<1>6. CASE /\ fromHeadunit # <<>> /\ fromHeadunit[1] # Event
           /\ fromHeadunit' = Tail(fromHeadunit) /\ UNCHANGED <<events, current>>
  <2>. DEFINE less == [k \in Due |-> places[k] - 1]
  <2>1. /\ Len(fromHeadunit') = Len(fromHeadunit) - 1
        /\ \A i \in 1..Len(fromHeadunit') : fromHeadunit'[i] = fromHeadunit[i + 1]
    BY <1>2, <1>6
  <2>2. \A k \in Due : places[k] > 1
    BY <1>1, <1>2, <1>6 DEF Lists
  <2>3. less \in [Due -> 1..Len(fromHeadunit')]
    BY <1>1, <1>2, <2>1, <2>2 DEF Lists
  <2>4. \A j, k \in Due : j < k => less[j] < less[k]
    BY <1>1, <1>2 DEF Lists
  <2>5. ASSUME NEW i \in 1..Len(fromHeadunit')
        PROVE  fromHeadunit'[i] = Event <=> \E k \in Due : less[k] = i
    <3>0. i + 1 \in 1..Len(fromHeadunit) /\ fromHeadunit'[i] = fromHeadunit[i + 1]
      BY <1>2, <2>1
    <3>1. fromHeadunit'[i] = Event <=> \E k \in Due : places[k] = i + 1
      BY <1>1, <3>0 DEF Lists
    <3>. QED BY <1>1, <1>2, <3>1 DEF Lists
  <2>6. Lists(less, events' - current', fromHeadunit')
    BY <1>6, <2>3, <2>4, <2>5 DEF Lists
  <2>. QED BY <1>2, <1>6, <2>3, <2>6 DEF EventsCounted
<1>7. CASE /\ fromHeadunit # <<>> /\ fromHeadunit[1] = Event
           /\ fromHeadunit' = Tail(fromHeadunit) /\ events' = events /\ current' = current + 1
  <2>. DEFINE rest == 1..(events' - current')
              less == [k \in rest |-> places[k + 1] - 1]
  <2>1. /\ Len(fromHeadunit') = Len(fromHeadunit) - 1 /\ Len(fromHeadunit) \in Nat \ {0}
        /\ \A i \in 1..Len(fromHeadunit') : fromHeadunit'[i] = fromHeadunit[i + 1]
    BY <1>2, <1>7
  <2>2. current + 1 <= events
    BY <1>7, EventDue
  <2>3. 1 \in Due /\ \A k \in rest : k + 1 \in Due
    BY <1>2, <1>7, <2>2
  <2>4. \A k \in rest : places[k + 1] > 1
    BY <1>1, <1>2, <2>3 DEF Lists
  <2>5. less \in [rest -> 1..Len(fromHeadunit')]
    BY <1>1, <1>2, <2>1, <2>3, <2>4 DEF Lists
  <2>6. \A j, k \in rest : j < k => less[j] < less[k]
    BY <1>1, <1>2, <2>3 DEF Lists
  <2>7. places[1] = 1
    <3>1. \E k \in Due : places[k] = 1
      BY <1>1, <1>2, <1>7, <2>1 DEF Lists
    <3>. QED BY <1>1, <1>2, <2>3, <3>1 DEF Lists
  <2>8. ASSUME NEW i \in 1..Len(fromHeadunit')
        PROVE  fromHeadunit'[i] = Event <=> \E k \in rest : less[k] = i
    <3>0. i + 1 \in 1..Len(fromHeadunit) /\ fromHeadunit'[i] = fromHeadunit[i + 1]
      BY <1>2, <2>1
    <3>1. fromHeadunit'[i] = Event <=> \E k \in Due : places[k] = i + 1
      BY <1>1, <3>0 DEF Lists
    <3>2. ASSUME NEW k \in Due, places[k] = i + 1
          PROVE  k - 1 \in rest /\ less[k - 1] = i
      BY <1>1, <1>2, <1>7, <2>1, <2>7, <3>2
    <3>3. ASSUME NEW k \in rest, less[k] = i
          PROVE  places[k + 1] = i + 1
      BY <1>1, <1>2, <2>3, <3>3 DEF Lists
    <3>. QED BY <2>3, <3>1, <3>2, <3>3
  <2>9. Lists(less, events' - current', fromHeadunit')
    BY <2>5, <2>6, <2>8 DEF Lists
  <2>. QED BY <1>2, <1>7, <2>2, <2>5, <2>9 DEF EventsCounted
<1>. QED BY <1>3, <1>4, <1>5, <1>6, <1>7, WireStep
-----------------------------------------------------------------------------
(* The delivery of events.                                                 *)

\* An element of a sequence.
LEMMA Element ==
    ASSUME NEW S, NEW s \in Seq(S), NEW i \in 1..Len(s)
    PROVE  s[i] \in S
OBVIOUS

\* What was written to a client are numbers of events.
LEMMA WrittenNumbers ==
    ASSUME InputTypeOK, NEW d \in Clients
    PROVE  /\ inbox[d] \in Seq(1..MaxEvents) /\ Len(inbox[d]) \in Nat
           /\ \A i \in 1..Len(inbox[d]) : inbox[d][i] \in Nat
<1>1. inbox[d] \in Seq(1..MaxEvents)
  BY DEF InputTypeOK
<1>2. \A i \in 1..Len(inbox[d]) : inbox[d][i] \in 1..MaxEvents
  BY <1>1, Element
<1>. QED BY <1>1, <1>2, InputBounds

\* Steps that leave the loop, the set and what was written as they are: nobody
\* becomes or ceases to be gone, and no socket opens again.
LEMMA QuietStep ==
    ASSUME InputTypeOK, Delivery, UNCHANGED <<inbox, ep2, current, visit, setVars>>,
           pc' \in [Clients -> Places], \A c \in Clients : pc'[c] = "gone" <=> pc[c] = "gone",
           \A c \in Clients : peer'[c] = "open" => peer[c] = "open"
    PROVE  Delivery'
<1>. USE DEF setVars, Delivery
<1>1. LoopSound'
  BY DEF LoopSound
<1>2. Unregistered'
  BY DEF Unregistered, Got
<1>3. NothingAhead' /\ EventsInOrder'
  BY DEF NothingAhead, EventsInOrder
<1>4. FirstDue'
  BY DEF FirstDue
<1>5. NoEventMissed'
  BY DEF NoEventMissed, LastDue, Got, InputTypeOK
<1>. QED BY <1>1, <1>2, <1>3, <1>4, <1>5

\* A client that closes its socket is owed nothing any more.
LEMMA CloseStep ==
    ASSUME InputTypeOK, Delivery, NEW c \in Clients, ClientClose(c)
    PROVE  Delivery'
<1>. USE DEF Delivery
<1>1. /\ inbox' = [inbox EXCEPT ![c] = <<>>] /\ inbox \in [Clients -> Seq(1..MaxEvents)]
      /\ \A d \in Clients : peer'[d] = "open" => peer[d] = "open" /\ d # c
      /\ UNCHANGED <<ep2, current, visit, registered, torn, corrupt, firstEvent, pc>>
  BY DEF ClientClose, loopVars, setVars, InputTypeOK
<1>2. Got(c)' = {} /\ \A d \in Clients \ {c} : inbox'[d] = inbox[d] /\ Got(d)' = Got(d)
  BY <1>1 DEF Got
<1>3. LoopSound' /\ FirstDue'
  BY <1>1 DEF LoopSound, FirstDue
<1>4. Unregistered'
  BY <1>1, <1>2 DEF Unregistered
<1>5. NothingAhead' /\ EventsInOrder'
  BY <1>1, <1>2 DEF NothingAhead, EventsInOrder
<1>6. NoEventMissed'
  BY <1>1, <1>2 DEF NoEventMissed, LastDue, InputTypeOK
<1>. QED BY <1>3, <1>4, <1>5, <1>6

\* A change of the set of clients by one of them: all the rest stands, and what
\* the race could spoil is this event, or everything.
LEMMA TouchStep ==
    ASSUME InputTypeOK, Delivery, NEW c \in Clients,
           NEW change \in SUBSET Clients, NEW visits,
           Touch(c, change, visits), UNCHANGED <<inbox, peer, ep2, current>>,
           pc' \in [Clients -> Places],
           ~corrupt' => Unregistered',
           ~corrupt' => \A d \in Clients \ {c} : firstEvent'[d] = firstEvent[d],
           \A d \in Clients \ {c} : d \in registered <=> d \in change,
           c \in change /\ ~corrupt' =>
                IF c \in registered THEN firstEvent'[c] = firstEvent[c]
                ELSE firstEvent'[c] = current + 1 /\ Got(c) \subseteq torn,
           \A v \in visits : \A d \in Clients \ {c} : d \in v <=> d \in visit
    PROVE  Delivery'
<1>. USE DEF Delivery
<1>1. current \in Nat /\ current' = current /\ ep2' = ep2 /\ inbox' = inbox /\ peer' = peer
  BY DEF InputTypeOK
<1>2. /\ ~corrupt' => ~corrupt /\ registered' = change
      /\ torn \subseteq torn' /\ torn' \subseteq torn \union {current}
      /\ current \notin torn' /\ ep2 = "loop" => ~corrupt' /\ registered' = registered
      /\ current \notin torn' \/ ep2 # "loop" => visit' = visit
      /\ ep2 # "loop" => torn' = torn
  BY DEF Touch
<1>3. LoopSound'
  BY <1>1, <1>2 DEF LoopSound
<1>4. Unregistered'
  BY Zenon DEF Unregistered
<1>5. NothingAhead'
  BY <1>1, <1>2 DEF NothingAhead, LoopSound
<1>6. EventsInOrder'
  BY <1>1, <1>2 DEF EventsInOrder
<1>7. FirstDue'
  <2>. SUFFICES ASSUME ~corrupt', NEW d \in registered'
                PROVE  /\ firstEvent'[d] <= current + 1
                       /\ d \in visit' /\ current \notin torn' => firstEvent'[d] <= current
    BY <1>1 DEF FirstDue
  <2>1. ~corrupt /\ d \in change /\ d \in Clients
    BY <1>2
  <2>2. CASE d \in registered
    <3>1. firstEvent'[d] = firstEvent[d]
      BY <2>1, <2>2
    <3>2. current \notin torn' => current \notin torn /\ visit' = visit
      BY <1>2
    <3>. QED BY <2>1, <2>2, <3>1, <3>2 DEF FirstDue
  <2>3. CASE d \notin registered
    <3>1. d = c /\ firstEvent'[d] = current + 1
      BY <2>1, <2>3
    <3>2. current \notin torn' => d \notin visit'
      BY <1>2, <2>3 DEF LoopSound
    <3>. QED BY <1>1, <3>1, <3>2
  <2>. QED BY <2>2, <2>3
<1>8. NoEventMissed'
  <2>. SUFFICES ASSUME ~corrupt', ep2 # "ended", NEW d \in registered', peer[d] = "open"
                PROVE  Got(d)' \ torn' = (firstEvent'[d]..LastDue(d)') \ torn'
    BY <1>1 DEF NoEventMissed
  <2>1. ~corrupt /\ d \in change /\ d \in Clients /\ Got(d)' = Got(d)
    BY <1>1, <1>2 DEF Got
  <2>2. /\ LastDue(d) \in Int /\ LastDue(d)' \in {current - 1, current}
        /\ LastDue(d)' = LastDue(d) \/ (current \in torn' /\ LastDue(d) \in {current - 1, current})
    BY <1>1, <1>2 DEF LastDue
  <2>3. firstEvent'[d] \in Int
    BY <1>1, <2>1 DEF InputTypeOK
  <2>4. CASE d \in registered
    <3>1. firstEvent'[d] = firstEvent[d]
      BY <2>1, <2>4
    <3>2. Got(d) \ torn = (firstEvent[d]..LastDue(d)) \ torn
      BY <2>1, <2>4 DEF NoEventMissed
    <3>3. \A n \in Int \ torn' : n \in firstEvent[d]..LastDue(d) <=> n \in firstEvent[d]..LastDue(d)'
      BY <1>1, <2>2, <2>3, <3>1
    <3>4. (firstEvent[d]..LastDue(d)) \ torn' = (firstEvent[d]..LastDue(d)') \ torn'
      BY <2>2, <2>3, <3>1, <3>3
    <3>. QED BY <1>2, <2>1, <3>1, <3>2, <3>4
  <2>5. CASE d \notin registered
    <3>1. d = c /\ firstEvent'[d] = current + 1 /\ Got(d) \subseteq torn
      BY <2>1, <2>5
    <3>2. firstEvent'[d]..LastDue(d)' = {}
      BY <1>1, <2>2, <3>1
    <3>. QED BY <1>2, <2>1, <3>1, <3>2
  <2>. QED BY <2>4, <2>5
<1>. QED BY <1>3, <1>4, <1>5, <1>6, <1>7, <1>8

\* A client's thread inserts it, perhaps under the loop.
LEMMA InsertStep ==
    ASSUME InputTypeOK, InputTypeOK', Delivery, NEW c \in Clients, Insert(c)
    PROVE  Delivery'
<1>1. /\ pc[c] = "insert" /\ pc' = [pc EXCEPT ![c] = "resetOpen"] /\ pc' \in [Clients -> Places]
      /\ UNCHANGED <<inbox, peer, ep2, current>>
      /\ ~corrupt' => /\ \A d \in Clients \ {c} : firstEvent'[d] = firstEvent[d]
                      /\ firstEvent'[c] = IF c \in registered THEN firstEvent[c] ELSE current + 1
      /\ registered \subseteq Clients
  BY DEF Insert, Goto, clientVars, socketVars, InputTypeOK
<1>2. Touch(c, registered \union {c}, {visit, visit \union {c}})
  BY DEF Insert
<1>3. /\ ~corrupt' => ~corrupt /\ registered' = registered \union {c}
      /\ torn \subseteq torn'
  BY <1>2 DEF Touch
<1>4. ~corrupt /\ c \notin registered => Got(c) \subseteq torn
  BY <1>1 DEF Delivery, Unregistered
<1>5. ~corrupt' => Unregistered'
  <2>. SUFFICES ASSUME ~corrupt', NEW d \in Clients
                PROVE  IF pc'[d] = "gone" THEN d \notin registered'
                       ELSE d \notin registered' => Got(d)' \subseteq torn'
    BY DEF Unregistered
  <2>1. Got(d)' = Got(d)
    BY <1>1 DEF Got
  <2>2. CASE d = c
    BY <1>1, <1>3, <2>2 DEF InputTypeOK
  <2>3. CASE d # c
    <3>1. pc'[d] = pc[d] /\ (d \in registered' <=> d \in registered)
      BY <1>1, <1>3, <2>3 DEF InputTypeOK
    <3>. QED BY <1>3, <2>1, <3>1 DEF Delivery, Unregistered
  <2>. QED BY <2>2, <2>3
<1>. QED BY <1>1, <1>2, <1>3, <1>4, <1>5, TouchStep

\* A client is forgotten, perhaps under the loop.
LEMMA EraseStep ==
    ASSUME InputTypeOK, InputTypeOK', Delivery, NEW c \in Clients, Erase(c)
    PROVE  Delivery'
<1>1. /\ pc' = [pc EXCEPT ![c] = "gone"] /\ pc' \in [Clients -> Places]
      /\ UNCHANGED <<inbox, peer, ep2, current>>
      /\ ~corrupt' => \A d \in Clients \ {c} : firstEvent'[d] = firstEvent[d]
      /\ registered \subseteq Clients
  BY DEF Erase, Goto, clientVars, socketVars, InputTypeOK
<1>2. Touch(c, registered \ {c}, {visit, visit \ {c}})
  BY DEF Erase
<1>3. /\ ~corrupt' => ~corrupt /\ registered' = registered \ {c}
      /\ torn \subseteq torn'
  BY <1>2 DEF Touch
<1>4. ~corrupt' => Unregistered'
  <2>. SUFFICES ASSUME ~corrupt', NEW d \in Clients
                PROVE  IF pc'[d] = "gone" THEN d \notin registered'
                       ELSE d \notin registered' => Got(d)' \subseteq torn'
    BY DEF Unregistered
  <2>1. Got(d)' = Got(d)
    BY <1>1 DEF Got
  <2>2. CASE d = c
    BY <1>1, <1>3, <2>2 DEF InputTypeOK
  <2>3. CASE d # c
    <3>1. pc'[d] = pc[d] /\ (d \in registered' <=> d \in registered)
      BY <1>1, <1>3, <2>3 DEF InputTypeOK
    <3>. QED BY <1>3, <2>1, <3>1 DEF Delivery, Unregistered
  <2>. QED BY <2>2, <2>3
<1>. QED BY <1>1, <1>2, <1>3, <1>4, TouchStep

\* A torn loop goes astray: it may visit anybody, for the event in torn.
LEMMA StrayStep ==
    ASSUME InputTypeOK, Delivery, Stray
    PROVE  Delivery'
<1>. USE DEF Delivery
<1>1. /\ ep2 = "loop" /\ current \in torn /\ current \in Nat
      /\ ep2' \in {"loop", "ended"} /\ (ep2' = "ended" => visit' = {})
      /\ UNCHANGED <<inbox, peer, pc, registered, torn, corrupt, firstEvent, current>>
  BY DEF Stray, clientVars, socketVars, InputTypeOK
<1>2. LoopSound' /\ Unregistered' /\ EventsInOrder'
  BY <1>1 DEF LoopSound, Unregistered, EventsInOrder, Got
<1>3. NothingAhead' /\ FirstDue'
  BY <1>1 DEF NothingAhead, FirstDue
<1>4. NoEventMissed'
  <2>. SUFFICES ASSUME ~corrupt, NEW d \in registered, peer[d] = "open"
                PROVE  Got(d) \ torn = (firstEvent[d]..LastDue(d)') \ torn
    BY <1>1 DEF NoEventMissed, Got
  <2>1. Got(d) \ torn = (firstEvent[d]..LastDue(d)) \ torn
    BY <1>1 DEF NoEventMissed
  <2>2. LastDue(d) \in {current - 1, current} /\ LastDue(d)' \in {current - 1, current}
    BY <1>1 DEF LastDue
  <2>3. firstEvent[d] \in Int
    BY DEF InputTypeOK
  <2>. QED BY <1>1, <2>1, <2>2, <2>3
<1>. QED BY <1>2, <1>3, <1>4

\* The loop begins: one more event is due for all who are registered.
LEMMA HandleEventStep ==
    ASSUME InputTypeOK, Delivery, HandleEvent
    PROVE  Delivery'
<1>. USE DEF Delivery
<1>1. /\ ep2 = "idle" /\ ep2' = "loop" /\ current' = current + 1 /\ visit' = registered
      /\ UNCHANGED <<inbox, peer, pc, registered, corrupt, firstEvent>> /\ current \in Nat
      /\ torn \subseteq torn' /\ (~corrupt => torn' = torn)
      /\ corrupt => current' \in torn'
  BY DEF HandleEvent, clientVars, socketVars, InputTypeOK
<1>2. visit = {}
  BY <1>1 DEF LoopSound
<1>3. LoopSound'
  BY <1>1 DEF LoopSound
<1>4. Unregistered'
  BY <1>1 DEF Unregistered, Got
<1>5. \A c \in Clients : LastDue(c) = current /\ (c \in registered => LastDue(c)' = current)
  BY <1>1, <1>2 DEF LastDue
<1>6. NothingAhead'
  <2>. SUFFICES ASSUME NEW d \in Clients, NEW i \in 1..Len(inbox[d])
                PROVE  inbox[d][i] <= current + 1 /\ inbox[d][i] < current + 1
    BY <1>1 DEF NothingAhead
  <2>1. inbox[d][i] \in Nat
    BY WrittenNumbers
  <2>. QED BY <1>1, <2>1 DEF NothingAhead
<1>7. EventsInOrder'
  BY <1>1 DEF EventsInOrder
<1>8. FirstDue'
  BY <1>1 DEF FirstDue, InputTypeOK
<1>9. NoEventMissed'
  BY <1>1, <1>5 DEF NoEventMissed, Got, InputTypeOK
<1>. QED BY <1>3, <1>4, <1>6, <1>7, <1>8, <1>9

\* The loop ends.
LEMMA EventDoneStep ==
    ASSUME InputTypeOK, Delivery, EventDone
    PROVE  Delivery'
<1>. USE DEF Delivery
<1>1. /\ ep2' = "idle" /\ visit = {} /\ ep2 # "ended"
      /\ UNCHANGED <<inbox, peer, pc, registered, torn, corrupt, firstEvent, current, visit>>
  BY DEF EventDone, clientVars, socketVars, setVars
<1>2. LoopSound' /\ Unregistered'
  BY <1>1 DEF LoopSound, Unregistered, Got
<1>3. NothingAhead' /\ EventsInOrder'
  BY <1>1 DEF NothingAhead, EventsInOrder
<1>4. FirstDue' /\ NoEventMissed'
  BY <1>1 DEF FirstDue, NoEventMissed, LastDue, Got
<1>. QED BY <1>2, <1>3, <1>4

\* The loop drops one client without writing: it has left, or the pump ends.
LEMMA DropStep ==
    ASSUME InputTypeOK, Delivery, NEW c \in Clients,
           ep2 = "loop", c \in visit,
           UNCHANGED <<inbox, pc, registered, torn, corrupt, firstEvent, current>>,
           \A d \in Clients : peer'[d] = "open" => peer[d] = "open",
           \/ ep2' = "loop" /\ visit' = visit \ {c} /\ (peer'[c] = "open" => pc[c] = "gone")
           \/ ep2' = "ended" /\ visit' = {}
    PROVE  Delivery'
<1>. USE DEF Delivery
<1>1. current \in Nat /\ current >= 1 /\ visit' \subseteq visit
  BY DEF InputTypeOK, LoopSound
<1>2. LoopSound' /\ Unregistered' /\ EventsInOrder'
  BY <1>1 DEF LoopSound, Unregistered, EventsInOrder, Got
<1>3. NothingAhead' /\ FirstDue'
  BY <1>1 DEF NothingAhead, FirstDue
<1>4. NoEventMissed'
  <2>. SUFFICES ASSUME ~corrupt, ep2' # "ended", NEW d \in registered, peer'[d] = "open"
                PROVE  Got(d) \ torn = (firstEvent[d]..LastDue(d)') \ torn
    BY DEF NoEventMissed, Got
  <2>1. d \in Clients /\ peer[d] = "open" /\ pc[d] # "gone"
    BY DEF InputTypeOK, Unregistered
  <2>2. d # c
    BY <2>1
  <2>3. LastDue(d)' = LastDue(d)
    BY <2>1, <2>2 DEF LastDue
  <2>. QED BY <2>1, <2>3 DEF NoEventMissed
<1>. QED BY <1>2, <1>3, <1>4

\* The loop writes to one client: the event is appended to what it has got.
LEMMA WrittenStep ==
    ASSUME InputTypeOK, Delivery, NEW c \in Clients,
           ep2 = "loop", c \in visit,
           pc[c] # "gone", inbox' = [inbox EXCEPT ![c] = Append(@, current)],
           visit' = visit \ {c},
           UNCHANGED <<peer, ep2, pc, registered, torn, corrupt, firstEvent, current>>
    PROVE  Delivery'
<1>. USE DEF Delivery
<1>1. current \in Nat /\ current >= 1 /\ inbox[c] \in Seq(1..MaxEvents)
  BY DEF InputTypeOK, LoopSound
<1>2. /\ inbox'[c] = Append(inbox[c], current) /\ Len(inbox[c]) \in Nat
      /\ Len(inbox'[c]) = Len(inbox[c]) + 1 /\ inbox'[c][Len(inbox[c]) + 1] = current
      /\ \A i \in 1..Len(inbox[c]) : inbox'[c][i] = inbox[c][i] /\ inbox[c][i] \in Nat
      /\ \A d \in Clients \ {c} : inbox'[d] = inbox[d]
  <2>1. inbox'[c] = Append(inbox[c], current) /\ \A d \in Clients \ {c} : inbox'[d] = inbox[d]
    BY DEF InputTypeOK
  <2>2. inbox[c] \in Seq(Nat)
    BY <1>1, InputBounds
  <2>. QED BY <1>1, <2>1, <2>2, WrittenNumbers
<1>3. /\ Got(c)' = Got(c) \union {current}
      /\ \A d \in Clients \ {c} : Got(d)' = Got(d)
  <2>1. 1..Len(inbox'[c]) = (1..Len(inbox[c])) \union {Len(inbox[c]) + 1}
    BY <1>2
  <2>. QED BY <1>2, <2>1 DEF Got
<1>4. LoopSound'
  BY <1>1 DEF LoopSound
<1>5. Unregistered'
  BY <1>3 DEF Unregistered, LoopSound
<1>6. NothingAhead'
  <2>. SUFFICES ASSUME NEW d \in Clients, NEW i \in 1..Len(inbox'[d])
                PROVE  /\ inbox'[d][i] <= current
                       /\ d \in visit' /\ current \notin torn => inbox'[d][i] < current
    BY DEF NothingAhead
  <2>1. CASE d = c
    BY <1>1, <1>2, <2>1 DEF NothingAhead
  <2>2. CASE d # c
    BY <1>2, <2>2 DEF NothingAhead
  <2>. QED BY <2>1, <2>2
<1>7. EventsInOrder'
  <2>. SUFFICES ASSUME NEW d \in Clients, NEW i \in 1..(Len(inbox'[d]) - 1)
                PROVE  \/ inbox'[d][i] < inbox'[d][i + 1]
                       \/ inbox'[d][i] = inbox'[d][i + 1] /\ inbox'[d][i] \in torn
    BY DEF EventsInOrder
  <2>1. CASE d = c /\ i = Len(inbox[c])
    <3>1. i \in 1..Len(inbox[c]) /\ inbox'[c][i + 1] = current /\ inbox'[c][i] = inbox[c][i]
      BY <1>2, <2>1
    <3>2. inbox[c][i] <= current /\ (current \notin torn => inbox[c][i] < current)
      BY <3>1 DEF NothingAhead
    <3>. QED BY <1>1, <1>2, <2>1, <3>1, <3>2
  <2>2. CASE d = c /\ i < Len(inbox[c])
    <3>1. i \in 1..(Len(inbox[c]) - 1) /\ i \in 1..Len(inbox[c]) /\ i + 1 \in 1..Len(inbox[c])
      BY <1>2, <2>2
    <3>. QED BY <1>2, <2>2, <3>1 DEF EventsInOrder
  <2>3. CASE d # c
    BY <1>2, <2>3 DEF EventsInOrder
  <2>. QED BY <1>2, <2>1, <2>2, <2>3
<1>8. FirstDue'
  BY DEF FirstDue
<1>9. NoEventMissed'
  <2>. SUFFICES ASSUME ~corrupt, NEW d \in registered, peer[d] = "open"
                PROVE  Got(d)' \ torn = (firstEvent[d]..LastDue(d)') \ torn
    BY DEF NoEventMissed
  <2>1. d \in Clients /\ firstEvent[d] \in Int /\ Got(d) \ torn = (firstEvent[d]..LastDue(d)) \ torn
    BY DEF NoEventMissed, InputTypeOK
  <2>2. CASE d = c
    <3>1. LastDue(c) = current - 1 /\ LastDue(c)' = current
      BY DEF LastDue
    <3>2. CASE current \in torn
      BY <1>1, <1>3, <2>1, <2>2, <3>1, <3>2
    <3>3. CASE current \notin torn
      <4>1. firstEvent[c] <= current
        BY <2>2, <3>3 DEF FirstDue
      <4>2. firstEvent[c]..current = (firstEvent[c]..(current - 1)) \union {current}
        BY <1>1, <2>1, <2>2, <4>1
      <4>. QED BY <1>3, <2>1, <2>2, <3>1, <4>2
    <3>. QED BY <3>2, <3>3
  <2>3. CASE d # c
    <3>1. LastDue(d)' = LastDue(d)
      BY <2>3 DEF LastDue
    <3>. QED BY <1>3, <2>1, <2>3, <3>1
  <2>. QED BY <2>2, <2>3
<1>. QED BY <1>4, <1>5, <1>6, <1>7, <1>8, <1>9

\* The loop is done with one client.
LEMMA WriteEventStep ==
    ASSUME InputTypeOK, Delivery, NEW c \in Clients, WriteEvent(c)
    PROVE  Delivery'
<1>1. /\ ep2 = "loop" /\ c \in visit
      /\ UNCHANGED <<pc, registered, torn, corrupt, firstEvent, current>>
      /\ peer \in [Clients -> {"open", "closed", "reset"}]
  BY DEF WriteEvent, setVars, InputTypeOK
<1>2. CASE /\ pc[c] # "gone" /\ inbox' = [inbox EXCEPT ![c] = Append(@, current)]
           /\ visit' = visit \ {c} /\ UNCHANGED <<peer, ep2>>
  BY <1>1, <1>2, WrittenStep
<1>3. CASE /\ peer[c] = "reset" /\ peer' = [peer EXCEPT ![c] = "closed"]
           /\ visit' = visit \ {c} /\ UNCHANGED <<inbox, unread, ep2>>
  <2>1. peer'[c] # "open" /\ \A d \in Clients : peer'[d] = "open" => peer[d] = "open"
    BY <1>1, <1>3
  <2>. QED BY <1>1, <1>3, <2>1, DropStep
<1>4. CASE ep2' = "ended" /\ visit' = {} /\ UNCHANGED <<peer, inbox, unread>>
  BY <1>1, <1>4, DropStep
<1>5. CASE pc[c] = "gone" /\ visit' = visit \ {c} /\ UNCHANGED <<peer, inbox, unread, ep2>>
  BY <1>1, <1>5, DropStep
<1>. QED BY <1>2, <1>3, <1>4, <1>5 DEF WriteEvent, socketVars

\* Every step keeps the delivery in order.
LEMMA DeliveryStep ==
    ASSUME IInv, [Next]_vars
    PROVE  Delivery'
<1>. InputTypeOK /\ InputTypeOK' /\ Delivery
  BY InputTypeStep DEF IInv
<1>1. pc \in [Clients -> Places] /\ pc' \in [Clients -> Places]
  BY DEF InputTypeOK
<1>. USE DEF clientVars, socketVars, loopVars, Goto, InputTypeOK
<1>2. ASSUME NEW c \in Clients, ClientRead(c)
      PROVE  Delivery'
  BY <1>1, <1>2, QuietStep DEF ClientRead
<1>3. ASSUME NEW c \in Clients, ReadPacket(c)
      PROVE  Delivery'
  <2>1. /\ UNCHANGED <<inbox, ep2, current, visit, setVars>>
        /\ \A d \in Clients : pc'[d] = "gone" <=> pc[d] = "gone"
    BY <1>1, <1>3 DEF ReadPacket
  <2>2. \A d \in Clients : peer'[d] = "open" => peer[d] = "open"
    BY <1>1, <1>3 DEF ReadPacket
  <2>. QED BY <1>1, <2>1, <2>2, QuietStep
<1>4. ASSUME NEW c \in Clients,
             ResetOpen(c) \/ SendOpen(c) \/ ExpectOpen(c) \/ ResetHandshake(c)
               \/ SendHandshake(c) \/ ExpectHandshake(c)
      PROVE  Delivery'
  <2>1. /\ UNCHANGED <<inbox, ep2, current, visit, setVars, peer>>
        /\ \A d \in Clients : pc'[d] = "gone" <=> pc[d] = "gone"
    BY <1>1, <1>4 DEF ResetOpen, SendOpen, ExpectOpen, ResetHandshake, SendHandshake, ExpectHandshake
  <2>. QED BY <1>1, <2>1, QuietStep
<1>5. ASSUME Answer \/ SendEvent \/ HandleOpenResponse \/ HandleHandshakeResponse \/ UNCHANGED vars
      PROVE  Delivery'
  <2>1. UNCHANGED <<inbox, ep2, current, visit, setVars, pc, peer>>
    BY <1>5 DEF Answer, SendEvent, HandleOpenResponse, HandleHandshakeResponse, vars
  <2>. QED BY <1>1, <2>1, QuietStep
<1>. QED BY <1>2, <1>3, <1>4, <1>5, CloseStep, InsertStep, EraseStep, StrayStep, HandleEventStep, EventDoneStep, WriteEventStep
         DEF Next, ClientThread, Ep2
-----------------------------------------------------------------------------
(* The shared flag.                                                        *)

\* A step that sets no flag, and by which nobody comes to wait.
LEMMA SameFlagsStep ==
    ASSUME Flags, UNCHANGED flagVars,
           \A c \in Clients : pc'[c] \in {"sendOpen", "waitOpen"} => pc[c] \in {"sendOpen", "waitOpen"},
           \A c \in Clients : pc'[c] \in {"resetHandshake", "sendHandshake", "waitHandshake"} => fresh[c]
    PROVE  Flags'
<1>1. gotOpen' = gotOpen /\ fresh' = fresh
  BY DEF flagVars
<1>2. FlagFresh'
  <2>. SUFFICES ASSUME NEW c \in Clients, pc'[c] \in {"sendOpen", "waitOpen"}, gotOpen
                PROVE  fresh[c]
    BY <1>1, Zenon DEF FlagFresh
  <2>1. pc[c] \in {"sendOpen", "waitOpen"}
    BY Zenon
  <2>. QED BY <2>1, Zenon DEF Flags, FlagFresh
<1>3. NoStaleOpen'
  BY <1>1 DEF NoStaleOpen
<1>. QED BY <1>2, <1>3 DEF Flags

\* The flag is fresh for whoever goes on over it.
LEMMA FlagsStep ==
    ASSUME IInv, [Next]_vars
    PROVE  Flags'
<1>. Flags /\ InputTypeOK
  BY DEF IInv
<1>1. pc \in [Clients -> Places] /\ fresh \in [Clients -> BOOLEAN]
  BY DEF InputTypeOK
<1>2. \A c \in Clients : /\ pc[c] \in {"sendOpen", "waitOpen"} /\ gotOpen => fresh[c]
                         /\ pc[c] \in {"resetHandshake", "sendHandshake", "waitHandshake"} => fresh[c]
  BY DEF Flags, FlagFresh, NoStaleOpen
<1>. USE DEF clientVars, flagVars, wireVars, loopVars, Goto
<1>3. ASSUME NEW c \in Clients, ClientRead(c) \/ ClientClose(c)
      PROVE  Flags'
  BY <1>2, <1>3, SameFlagsStep DEF ClientRead, ClientClose
<1>4. ASSUME NEW c \in Clients,
             ReadPacket(c) \/ Insert(c) \/ SendOpen(c) \/ SendHandshake(c) \/ ExpectHandshake(c) \/ Erase(c)
      PROVE  Flags'
  <2>1. /\ UNCHANGED flagVars
        /\ \/ pc' \in {[pc EXCEPT ![c] = place] : place \in {"insert", "erase", "resetOpen", "read", "gone"}}
           \/ pc[c] = "sendOpen" /\ pc' = [pc EXCEPT ![c] = "waitOpen"]
           \/ pc[c] = "sendHandshake" /\ pc' = [pc EXCEPT ![c] = "waitHandshake"]
    BY <1>4 DEF ReadPacket, Insert, SendOpen, SendHandshake, ExpectHandshake, Erase
  <2>. QED BY <1>1, <1>2, <2>1, SameFlagsStep
<1>5. ASSUME NEW c \in Clients, ResetOpen(c)
      PROVE  Flags'
  BY <1>1, <1>2, <1>5 DEF ResetOpen, Flags, FlagFresh, NoStaleOpen
<1>6. ASSUME NEW c \in Clients, ExpectOpen(c)
      PROVE  Flags'
  BY <1>1, <1>2, <1>6, SameFlagsStep DEF ExpectOpen
<1>7. ASSUME NEW c \in Clients, ResetHandshake(c)
      PROVE  Flags'
  BY <1>1, <1>2, <1>7 DEF ResetHandshake, Flags, FlagFresh, NoStaleOpen
<1>8. ASSUME Answer \/ SendEvent \/ HandleEvent \/ EventDone \/ Stray \/ UNCHANGED vars
      PROVE  Flags'
  BY <1>2, <1>8, SameFlagsStep DEF Answer, SendEvent, HandleEvent, EventDone, Stray, vars
<1>9. HandleOpenResponse => Flags'
  BY DEF HandleOpenResponse, Flags, FlagFresh, NoStaleOpen
<1>10. HandleHandshakeResponse => Flags'
  BY <1>2 DEF HandleHandshakeResponse, Flags, FlagFresh, NoStaleOpen
<1>11. ASSUME NEW c \in Clients, WriteEvent(c)
      PROVE  Flags'
  BY <1>2, <1>11, SameFlagsStep DEF WriteEvent
<1>. QED BY <1>3, <1>4, <1>5, <1>6, <1>7, <1>8, <1>9, <1>10, <1>11 DEF Next, ClientThread, Ep2

-----------------------------------------------------------------------------
(* The theorems.                                                           *)

\* The inductive invariant: types, the events on their way, their delivery, and
\* the shared flag.
THEOREM InputInvariant == Spec => []IInv
<1>1. Init => IInv
  <2>. SUFFICES ASSUME Init PROVE IInv
    OBVIOUS
  <2>1. InputTypeOK
    <3>1. gotOpen \in BOOLEAN /\ gotHandshake \in BOOLEAN /\ shaken \in BOOLEAN /\ corrupt \in BOOLEAN
      BY Zenon DEF Init
    <3>2. inbox \in [Clients -> Seq(1..MaxEvents)]
      BY DEF Init
    <3>3. /\ fresh \in [Clients -> BOOLEAN] /\ pc \in [Clients -> Places]
          /\ peer \in [Clients -> {"open", "closed", "reset"}]
      BY DEF Init, Places
    <3>. QED BY <3>1, <3>2, <3>3, InputBounds DEF Init, InputTypeOK
  <2>2. EventsCounted
    <3>1. Lists(<<>>, 0, <<>>)
      BY DEF Lists
    <3>. QED BY <3>1 DEF Init, EventsCounted
  <2>3. LoopSound /\ Unregistered /\ NothingAhead /\ EventsInOrder
    BY DEF Init, LoopSound, Unregistered, NothingAhead, EventsInOrder, Got
  <2>4. FirstDue /\ NoEventMissed
    BY DEF Init, FirstDue, NoEventMissed
  <2>5. Flags
    BY DEF Init, Flags, FlagFresh, NoStaleOpen
  <2>. QED BY <2>1, <2>2, <2>3, <2>4, <2>5 DEF IInv, Delivery
<1>2. IInv /\ [Next]_vars => IInv'
  <2>. SUFFICES ASSUME IInv, [Next]_vars PROVE IInv'
    OBVIOUS
  <2>. QED BY InputTypeStep, EventsCountedStep, DeliveryStep, FlagsStep DEF IInv
<1>. QED BY <1>1, <1>2, PTL DEF Spec

\* The types of all variables: the pump handles no more events than were sent,
\* and a socket never holds more than it can.
THEOREM InputTypeCorrect == Spec => []InputTypeOK
<1>1. IInv => InputTypeOK
  BY DEF IInv
<1>. QED BY <1>1, InputInvariant, PTL

\* Nobody gets an event after a later one, nor twice but one whose loop had
\* registered_clients changed under it, whatever that race makes of the loop.
THEOREM OrderHolds == Spec => []EventsInOrder
<1>1. IInv => EventsInOrder
  BY DEF IInv, Delivery
<1>. QED BY <1>1, InputInvariant, PTL

\* As long as no two threads changed the set at once, a registered client that
\* listens has got, of the events whose loop was left alone, exactly those since
\* it registered.
THEOREM NothingMissed == Spec => []NoEventMissed
<1>1. IInv => NoEventMissed
  BY DEF IInv, Delivery
<1>. QED BY <1>1, InputInvariant, PTL

\* A thread goes on only over an answer that came after its own reset of the
\* flag that all threads share.
THEOREM NoStaleAnswer == Spec => []NoStaleOpen
<1>1. IInv => NoStaleOpen
  BY DEF IInv, Flags
<1>. QED BY <1>1, InputInvariant, PTL
=============================================================================
