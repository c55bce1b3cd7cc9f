--------------------------- MODULE LifecycleProofs ---------------------------
(***************************************************************************)
(* Proofs about Lifecycle and ModeSwitch, for any number of strings,       *)
(* timeouts, events, signals and faults: that AAServer leaves the switch   *)
(* only when the host has said everything, in order, and that a run which  *)
(* was not cut short leaves only what the system would not remove.         *)
(***************************************************************************)
EXTENDS Lifecycle, FiniteSetTheorems, SequenceTheorems, TLAPS

-----------------------------------------------------------------------------
(* The inductive invariant of the switch.                                  *)

\* Constant-level, so that they can be said of a primed sequence, too.
HasRequest(q) == \E i \in DOMAIN q : q[i] # Other
OneRequest(q) == \A i, j \in DOMAIN q : q[i] # Other /\ q[j] # Other => i = j
RequestsAre(q, r) == \A i \in DOMAIN q : q[i] # Other => q[i] = r
Announced(n) == [i \in 1..n |-> Version + i]

\* The batch the loop handles: the request in it is the one FunctionFS has not
\* seen answered, which nothing but its handling makes disappear.
Batch ==
    /\ OneRequest(buffer) /\ RequestsAre(buffer, setup)
    /\ HasRequest(buffer) => ep0 # "none"
    /\ ep0 # "none" /\ setup = Version => HasRequest(buffer)
    /\ loop # "handle" => buffer = <<>>

\* What is not read yet: the request is the host's, if it still waits.
Unread ==
    /\ OneRequest(events)
    /\ waiting => RequestsAre(events, next)
    /\ ~waiting /\ next # Version => ~HasRequest(events)
    /\ ep0 = "pending" => events = <<>>

\* A request that is not answered is the host's, unless it has begun anew.
Unanswered ==
    /\ next # Version /\ ep0 # "none" => waiting /\ setup = next
    /\ waiting /\ ep0 = "pending" => setup = next
    /\ ep0 = "cancelled" => cancelled
    /\ loop = "failed" => cancelled
    /\ HostDone => loop = "closed" /\ ~waiting
    /\ loop = "closed" => HostDone

\* The strings announced are those of the host's requests before the one it is
\* at, and that one's if it has been handled and not been answered yet.
Told ==
    next # Version /\ loop # "failed" =>
        info = Announced(IF HostDone THEN Strings
                         ELSE IF ep0 # "none" /\ next # Start /\ ~HasRequest(buffer) THEN next - 1
                                                                                  ELSE next - 2)

SwitchInv == SwitchTypeOK /\ Batch /\ Unread /\ Unanswered /\ Told

-----------------------------------------------------------------------------
(* The inductive invariant of the program's life.                          *)

\* The places at which a gadget, and its mount, are main's: they have been made
\* and not been removed.  The switch lies behind the first, the end behind the second.
Owned(g) == IF g = Initial THEN {"initialMade", "initialMounted", "initialReady", "switch"}
                           ELSE {"mainMade", "mainMounted", "mainReady", "listen", "serving",
                                 "stuck", "closing", "removing"}
InSecond == {"context", "setup"} \union Owned(Main)

\* What main owns is there; the UDC is bound only while ep0 is open.
InPlace ==
    /\ \A g \in {Initial, Main} : /\ at \in Owned(g) => g \in gadgets
                                  /\ at \in Owned(g) \ {Made[g]} => g \in mounts
    /\ at \notin {"switch", "listen", "serving", "stuck", "closing"} => bound = None

\* In a run that found nothing and was not cut short there is nothing but what main
\* owns and what its removals have left, which may be the first gadget's in the
\* second part and anything behind the end.
Clean ==
    ~hampered =>
        /\ gadgets = {g \in {Initial, Main} : at \in Owned(g)} \union keptGadgets
        /\ mounts = {g \in {Initial, Main} : at \in Owned(g) \ {Made[g]}} \union keptMounts
        /\ at \in {"started"} \union Owned(Initial) => keptGadgets = {} /\ keptMounts = {}
        /\ at \in InSecond => keptGadgets \subseteq {Initial} /\ keptMounts \subseteq {Initial}
        /\ socket => at \in {"serving", "stuck"}

IInv == LifecycleTypeOK /\ SwitchInv /\ InPlace /\ Clean

-----------------------------------------------------------------------------
(* Batches of events.                                                      *)

Kinds == {Other} \union Requests

LEMMA Numbers ==
    /\ Start \in Nat /\ Start >= 2 /\ Other = 0 /\ Version = 1
    /\ Requests = 1..Start /\ Requests \subseteq Int /\ Kinds \subseteq Int
    /\ StringRequests = {r \in Requests : r # 1 /\ r # Start}
    /\ \A r \in Requests : r # Other
  BY SwitchBounds DEF Start, Other, Version, Requests, StringRequests, Kinds

\* What the loop makes of the results of read there are.
LEMMA AfterReads ==
    /\ \A n \in Nat : n > 0 => AfterRead(n) = "handle"
    /\ AfterRead(0) = "closed" /\ AfterRead(EINTR) = "read" /\ AfterRead(EIDRM) = "failed"
<1>1. ASSUME NEW n \in Nat, n > 0 PROVE AfterRead(n) = "handle"
  <2>1. n # 0 /\ n # -1
    BY <1>1
  <2>. QED BY <1>1, <2>1 DEF AfterRead, EINTR
<1>2. AfterRead(0) = "closed"
  BY DEF AfterRead, EINTR
<1>3. AfterRead(EINTR) = "read"
  BY DEF AfterRead, EINTR
<1>4. AfterRead(EIDRM) = "failed"
  BY DEF AfterRead, EINTR, EIDRM
<1>. QED BY <1>1, <1>2, <1>3, <1>4

\* What is left of a batch when its first event has been looked at.
LEMMA TailOfBatch ==
    ASSUME NEW q \in Seq(Kinds), q # <<>>
    PROVE  /\ Tail(q) \in Seq(Kinds) /\ q[1] \in Kinds
           /\ OneRequest(q) => OneRequest(Tail(q))
           /\ \A r : RequestsAre(q, r) => RequestsAre(Tail(q), r)
           /\ q[1] = Other => (HasRequest(Tail(q)) <=> HasRequest(q))
           /\ q[1] # Other => HasRequest(q)
           /\ OneRequest(q) /\ q[1] # Other => ~HasRequest(Tail(q))
           /\ Len(q) = 1 <=> Tail(q) = <<>>
<1>1. /\ Tail(q) \in Seq(Kinds) /\ Len(q) \in Nat /\ Len(q) > 0 /\ Len(Tail(q)) = Len(q) - 1
      /\ DOMAIN q = 1..Len(q) /\ DOMAIN Tail(q) = 1..Len(q) - 1
      /\ \A i \in 1..Len(q) - 1 : Tail(q)[i] = q[i + 1]
  OBVIOUS
<1>2. 1 \in DOMAIN q /\ q[1] \in Kinds
  BY <1>1
<1>3. \A i \in DOMAIN Tail(q) : i + 1 \in DOMAIN q /\ i + 1 # 1 /\ Tail(q)[i] = q[i + 1]
  BY <1>1
<1>4. \A i, j \in DOMAIN Tail(q) : i + 1 = j + 1 => i = j
  <2>1. \A i, j \in Nat : i + 1 = j + 1 => i = j
    OBVIOUS
  <2>. QED BY <1>1, <2>1
<1>5. \A i \in DOMAIN q : i = 1 \/ (i - 1 \in DOMAIN Tail(q) /\ Tail(q)[i - 1] = q[i])
  <2>. TAKE i \in DOMAIN q
  <2>. SUFFICES ASSUME i # 1 PROVE i - 1 \in DOMAIN Tail(q) /\ Tail(q)[i - 1] = q[i]
    OBVIOUS
  <2>1. i \in Nat /\ i - 1 \in 1..Len(q) - 1 /\ (i - 1) + 1 = i
    BY <1>1
  <2>. QED BY <1>1, <2>1
<1>6. OneRequest(q) => OneRequest(Tail(q))
  BY <1>3, <1>4 DEF OneRequest
<1>7. \A r : RequestsAre(q, r) => RequestsAre(Tail(q), r)
  BY <1>3 DEF RequestsAre
<1>8. q[1] = Other => (HasRequest(Tail(q)) <=> HasRequest(q))
  BY <1>3, <1>5 DEF HasRequest
<1>9. OneRequest(q) /\ q[1] # Other => ~HasRequest(Tail(q))
  BY <1>2, <1>3 DEF OneRequest, HasRequest
<1>10. Len(q) = 1 <=> Tail(q) = <<>>
  <2>1. Tail(q) = <<>> <=> Len(Tail(q)) = 0
    BY <1>1, EmptySeq
  <2>2. Len(q) = 1 <=> Len(q) - 1 = 0
    BY <1>1
  <2>. QED BY <1>1, <2>1, <2>2
<1>. QED BY <1>1, <1>2, <1>6, <1>7, <1>8, <1>9, <1>10 DEF HasRequest

\* An event that is no request comes behind the batch.
LEMMA OtherComes ==
    ASSUME NEW q \in Seq(Kinds)
    PROVE  /\ Append(q, Other) \in Seq(Kinds)
           /\ OneRequest(q) => OneRequest(Append(q, Other))
           /\ \A r : RequestsAre(q, r) => RequestsAre(Append(q, Other), r)
           /\ HasRequest(Append(q, Other)) => HasRequest(q)
<1>1. /\ Append(q, Other) \in Seq(Kinds)
      /\ \A i \in DOMAIN Append(q, Other) : \/ i \in DOMAIN q /\ Append(q, Other)[i] = q[i]
                                            \/ Append(q, Other)[i] = Other
  BY DEF Kinds
<1>. QED BY <1>1 DEF OneRequest, RequestsAre, HasRequest

\* Events that are no requests, and a request behind them.
LEMMA NoRequests ==
    ASSUME NEW n \in Nat
    PROVE  LET q == [i \in 1..n |-> Other]
           IN  q \in Seq(Kinds) /\ ~HasRequest(q) /\ OneRequest(q) /\ \A r : RequestsAre(q, r)
  BY DEF Kinds, HasRequest, OneRequest, RequestsAre

LEMMA RequestComes ==
    ASSUME NEW q \in Seq(Kinds), NEW e \in Kinds
    PROVE  /\ Append(WithoutRequests(q), e) \in Seq(Kinds)
           /\ OneRequest(Append(WithoutRequests(q), e))
           /\ RequestsAre(Append(WithoutRequests(q), e), e)
<1>. DEFINE places == {j \in DOMAIN q : q[j] = Other}
            w == [i \in 1..Cardinality(places) |-> Other]
<1>1. Cardinality(places) \in Nat
  <2>1. IsFiniteSet(1..Len(q))
    BY FS_Interval
  <2>2. places \subseteq 1..Len(q)
    OBVIOUS
  <2>. QED BY <2>1, <2>2, FS_Subset, FS_CardinalityType
<1>2. w = WithoutRequests(q)
  BY DEF WithoutRequests
<1>. HIDE DEF places
<1>3. w \in Seq(Kinds) /\ Len(w) = Cardinality(places) /\ \A i \in 1..Len(w) : w[i] = Other
  BY <1>1 DEF Kinds
<1>. HIDE DEF w
<1>4. /\ Append(w, e) \in Seq(Kinds)
      /\ \A i \in DOMAIN Append(w, e) : i = Len(w) + 1 \/ Append(w, e)[i] = Other
      /\ Append(w, e)[Len(w) + 1] = e
  BY <1>3
<1>. QED BY <1>2, <1>4 DEF OneRequest, RequestsAre

LEMMA OneMoreAnnounced ==
    ASSUME NEW e \in Nat, e >= 2
    PROVE  Append(Announced(e - 2), e) = Announced(e - 1)
<1>. DEFINE n == e - 2
<1>1. n \in Nat /\ e = n + 2 /\ e - 1 = n + 1
  OBVIOUS
<1>. HIDE DEF n
<1>2. /\ Announced(n) \in Seq(Int) /\ Len(Announced(n)) = n /\ \A i \in 1..n : Announced(n)[i] = 1 + i
      /\ Announced(n + 1) \in Seq(Int) /\ Len(Announced(n + 1)) = n + 1
      /\ \A i \in 1..n + 1 : Announced(n + 1)[i] = 1 + i
  BY <1>1 DEF Announced, Version
<1>3. /\ Append(Announced(n), n + 2) \in Seq(Int) /\ Len(Append(Announced(n), n + 2)) = n + 1
      /\ \A i \in 1..n + 1 : Append(Announced(n), n + 2)[i] = 1 + i
  BY <1>1, <1>2
<1>4. Append(Announced(n), n + 2) = Announced(n + 1)
  BY <1>1, <1>2, <1>3, SeqEqual
<1>. QED BY <1>1, <1>4 DEF n

-----------------------------------------------------------------------------
(* The steps of the switch.                                                *)

\* What a step that is no step of the switch leaves as it is.
LEMMA SwitchRests ==
    ASSUME SwitchInv, UNCHANGED vars
    PROVE  SwitchInv'
  BY DEF SwitchInv, SwitchTypeOK, Batch, Unread, Unanswered, Told, HostDone,
         vars, hostVars, kernelVars, historyVars

LEMMA RequestStep ==
    ASSUME SwitchInv, Request
    PROVE  SwitchInv'
<1>. USE DEF hostVars, kernelVars, historyVars, HostDone
<1>0. /\ SwitchTypeOK /\ Batch /\ Unread /\ Unanswered /\ Told
      /\ ~waiting /\ next # Start + 1 /\ waiting' = TRUE /\ loop \in {"read", "handle"}
      /\ UNCHANGED <<next, timeouts, others, setup, loop, buffer, info, signals>>
  BY DEF SwitchInv, Request, AddEvent, Alive
<1>1. next \in Requests /\ next # Other /\ next \in Kinds /\ events \in Seq(Kinds)
  BY <1>0, Numbers DEF SwitchTypeOK, Kinds
<1>2. /\ events' = Append(WithoutRequests(events), next)
      /\ ep0' = IF ep0 = "pending" THEN "cancelled" ELSE ep0
      /\ cancelled' = (cancelled \/ ep0 = "pending")
  BY <1>1 DEF Request, AddEvent
<1>3. events' \in Seq(Kinds) /\ OneRequest(events') /\ RequestsAre(events', next)
  BY <1>1, <1>2, RequestComes
<1>4. SwitchTypeOK'
  BY <1>0, <1>2, <1>3 DEF SwitchTypeOK, Kinds
<1>5. Batch'
  BY <1>0, <1>2 DEF Batch
<1>6. Unread'
  BY <1>0, <1>2, <1>3 DEF Unread
<1>7. Unanswered'
  BY <1>0, <1>2 DEF Unanswered
<1>8. Told'
  BY <1>0, <1>2 DEF Told, Unanswered
<1>. QED BY <1>4, <1>5, <1>6, <1>7, <1>8 DEF SwitchInv

\* The host begins anew, after a timeout or when its request has been lost.
LEMMA StartOverStep ==
    ASSUME SwitchInv, waiting, StartOver, timeouts' \in 0..MaxTimeouts
    PROVE  SwitchInv'
<1>. USE DEF hostVars, kernelVars, historyVars, HostDone
<1>0. /\ SwitchTypeOK /\ Batch /\ Unread /\ Unanswered
      /\ waiting' = FALSE /\ next' = Version
      /\ UNCHANGED <<ep0, setup, events, others, loop, buffer, info, signals, cancelled>>
  BY DEF SwitchInv, StartOver
<1>1. SwitchTypeOK'
  <2>1. Version \in 1..Start + 1
    BY Numbers
  <2>. QED BY <1>0, <2>1 DEF SwitchTypeOK
<1>2. Batch' /\ Unread'
  BY <1>0 DEF Batch, Unread
<1>3. Unanswered'
  BY <1>0, Numbers DEF Unanswered
<1>. QED BY <1>0, <1>1, <1>2, <1>3 DEF SwitchInv, Told

LEMMA BusEventStep ==
    ASSUME SwitchInv, BusEvent
    PROVE  SwitchInv'
<1>. USE DEF hostVars, kernelVars, historyVars, HostDone
<1>0. /\ SwitchTypeOK /\ Batch /\ Unread /\ Unanswered /\ Told
      /\ loop \in {"read", "handle"}
      /\ events' = Append(events, Other)
      /\ ep0' = IF ep0 = "pending" THEN "cancelled" ELSE ep0
      /\ cancelled' = (cancelled \/ ep0 = "pending")
      /\ UNCHANGED <<next, waiting, timeouts, setup, loop, buffer, info, signals>>
  BY DEF SwitchInv, BusEvent, AddEvent, Alive
<1>1. events \in Seq(Kinds) /\ others' \in 0..MaxEvents
  BY <1>0, SwitchBounds DEF SwitchTypeOK, Kinds, BusEvent
<1>2. /\ events' \in Seq(Kinds) /\ OneRequest(events')
      /\ \A r : RequestsAre(events, r) => RequestsAre(events', r)
      /\ HasRequest(events') => HasRequest(events)
  BY <1>0, <1>1, OtherComes DEF Unread
<1>3. SwitchTypeOK'
  BY <1>0, <1>1, <1>2 DEF SwitchTypeOK, Kinds
<1>4. Batch'
  BY <1>0 DEF Batch
<1>5. Unread'
  BY <1>0, <1>2 DEF Unread
<1>6. Unanswered'
  BY <1>0 DEF Unanswered
<1>7. Told'
  BY <1>0 DEF Told
<1>. QED BY <1>3, <1>4, <1>5, <1>6, <1>7 DEF SwitchInv

\* The batch is read: the request in it, if any, is pending from now on.
LEMMA ReadEventsStep ==
    ASSUME SwitchInv, ReadEvents
    PROVE  SwitchInv'
<1>. USE DEF hostVars, kernelVars, historyVars, HostDone
<1>. DEFINE asked == {e \in ToSet(events) : e # Other}
<1>0. /\ SwitchTypeOK /\ Batch /\ Unread /\ Unanswered /\ Told
      /\ loop = "read" /\ ep0 = "none" /\ events # <<>>
      /\ buffer' = events /\ events' = <<>>
      /\ UNCHANGED <<next, waiting, timeouts, others, info, signals, cancelled>>
      /\ ep0' = IF asked = {} THEN "none" ELSE "pending"
      /\ setup' \in IF asked = {} THEN {setup} ELSE asked
  BY DEF SwitchInv, ReadEvents
<1>1. events \in Seq(Kinds) /\ Len(events) \in Nat /\ Len(events) > 0
  BY <1>0 DEF SwitchTypeOK, Kinds
<1>2. loop' = "handle"
  BY <1>1, AfterReads DEF ReadEvents
<1>3. asked # {} <=> HasRequest(events)
  BY DEF HasRequest, ToSet
<1>4. setup' \in Requests
  <2>1. \A i \in DOMAIN events : events[i] \in Kinds
    BY <1>1
  <2>. QED BY <1>0, <2>1 DEF ToSet, Kinds, SwitchTypeOK
<1>5. RequestsAre(events, setup')
  BY <1>0, <1>3 DEF ToSet, HasRequest, Unread, OneRequest, RequestsAre
<1>6. HasRequest(events) => setup' \in asked /\ (waiting => setup' = next)
  BY <1>0, <1>3 DEF ToSet, Unread, RequestsAre
<1>. HIDE DEF asked
<1>7. SwitchTypeOK'
  <2>1. <<>> \in Seq(Kinds)
    OBVIOUS
  <2>. QED BY <1>0, <1>1, <1>2, <1>4, <2>1 DEF SwitchTypeOK, Kinds
<1>8. Batch'
  BY <1>0, <1>2, <1>3, <1>5 DEF Batch, Unread
<1>9. Unread'
  BY <1>0, <1>3 DEF Unread, OneRequest, RequestsAre, HasRequest
<1>10. Unanswered'
  BY <1>0, <1>2, <1>3, <1>6 DEF Unanswered, Unread
<1>11. Told'
  BY <1>0, <1>2, <1>3 DEF Told, Unanswered
<1>. QED BY <1>7, <1>8, <1>9, <1>10, <1>11 DEF SwitchInv

LEMMA ReadStringStep ==
    ASSUME SwitchInv, ReadString
    PROVE  SwitchInv'
<1>. USE DEF hostVars, kernelVars, historyVars, HostDone
<1>0. /\ SwitchTypeOK /\ Batch /\ Unread /\ Unanswered /\ Told
      /\ loop = "read" /\ ep0 = "pending" /\ setup \in StringRequests
      /\ waiting /\ next = setup /\ waiting' = FALSE /\ next' = next + 1 /\ ep0' = "none"
      /\ UNCHANGED <<timeouts, setup, events, others, info, signals, cancelled>>
  BY DEF SwitchInv, ReadString, Answered
<1>1. buffer = <<>> /\ ~HasRequest(buffer) /\ events = <<>>
  BY <1>0 DEF Batch, Unread, HasRequest
<1>2. next \in Nat /\ next # Version /\ next # Start /\ next < Start /\ next' \in Requests /\ next' # Version
  BY <1>0, Numbers DEF SwitchTypeOK
<1>3. PICK n \in 0..1 : buffer' = [i \in 1..n |-> Other]
  BY DEF ReadString
<1>4. buffer' \in Seq(Kinds) /\ ~HasRequest(buffer') /\ OneRequest(buffer') /\ \A r : RequestsAre(buffer', r)
  BY <1>3, NoRequests
<1>5. loop' = "handle"
  BY AfterReads DEF ReadString
<1>6. SwitchTypeOK'
  <2>1. next' \in 1..Start + 1
    BY <1>2, Numbers
  <2>. QED BY <1>0, <1>4, <1>5, <2>1 DEF SwitchTypeOK, Kinds
<1>7. Batch'
  BY <1>0, <1>4, <1>5 DEF Batch
<1>8. Unread'
  BY <1>0, <1>1 DEF Unread, OneRequest, RequestsAre, HasRequest
<1>9. Unanswered'
  BY <1>0, <1>2, <1>5, Numbers DEF Unanswered
<1>10. Told'
  BY <1>0, <1>1, <1>2, <1>5, Numbers DEF Told
<1>. QED BY <1>6, <1>7, <1>8, <1>9, <1>10 DEF SwitchInv

LEMMA ReadStartStep ==
    ASSUME SwitchInv, ReadStart
    PROVE  SwitchInv'
<1>. USE DEF hostVars, kernelVars, historyVars, HostDone
<1>0. /\ SwitchTypeOK /\ Batch /\ Unread /\ Unanswered /\ Told
      /\ loop = "read" /\ ep0 = "pending" /\ setup = Start /\ loop' = "closed"
      /\ waiting /\ next = setup /\ waiting' = FALSE /\ next' = next + 1 /\ ep0' = "none"
      /\ UNCHANGED <<timeouts, setup, events, others, buffer, info, signals, cancelled>>
  BY AfterReads DEF SwitchInv, ReadStart, Answered
<1>1. buffer = <<>> /\ ~HasRequest(buffer) /\ events = <<>>
  BY <1>0 DEF Batch, Unread, HasRequest
<1>2. next' = Start + 1 /\ next' # Version /\ next # Version /\ next # Start + 1 /\ Start - 2 = Strings
  BY <1>0, Numbers, SwitchBounds DEF Start
<1>3. SwitchTypeOK'
  <2>1. next' \in 1..Start + 1
    BY <1>2, Numbers
  <2>. QED BY <1>0, <2>1 DEF SwitchTypeOK
<1>4. Batch'
  BY <1>0, <1>1 DEF Batch
<1>5. Unread'
  BY <1>0, <1>1 DEF Unread, OneRequest, RequestsAre, HasRequest
<1>6. Unanswered'
  BY <1>0, <1>2 DEF Unanswered
<1>7. Told'
  BY <1>0, <1>1, <1>2 DEF Told
<1>. QED BY <1>3, <1>4, <1>5, <1>6, <1>7 DEF SwitchInv

LEMMA ReadFailsStep ==
    ASSUME SwitchInv, ReadFails
    PROVE  SwitchInv'
<1>. USE DEF hostVars, kernelVars, historyVars, HostDone
<1>0. /\ SwitchTypeOK /\ Batch /\ Unread /\ Unanswered
      /\ loop = "read" /\ ep0' = "none" /\ loop' = "failed"
      /\ UNCHANGED <<next, waiting, timeouts, setup, events, others, buffer, info, signals, cancelled>>
  BY AfterReads DEF SwitchInv, ReadFails
\* A pending request for the version is handled before anything is read again.
<1>1. buffer = <<>> /\ cancelled
  BY <1>0 DEF ReadFails, Batch, HasRequest, Unanswered
<1>2. SwitchTypeOK' /\ Batch' /\ Unread' /\ Unanswered' /\ Told'
  BY <1>0, <1>1 DEF SwitchTypeOK, Batch, Unread, Unanswered, Told, HasRequest
<1>. QED BY <1>2 DEF SwitchInv

LEMMA InterruptedStep ==
    ASSUME SwitchInv, ReadInterrupted
    PROVE  SwitchInv'
<1>. USE DEF hostVars, kernelVars, historyVars, HostDone
<1>0. /\ SwitchTypeOK /\ Batch /\ Unread /\ Unanswered /\ Told
      /\ loop' = loop /\ signals' = signals + 1 /\ signals < MaxSignals
      /\ UNCHANGED <<next, waiting, timeouts, ep0, setup, events, others, buffer, info, cancelled>>
  BY AfterReads DEF SwitchInv, ReadInterrupted
<1>1. SwitchTypeOK'
  <2>1. signals' \in 0..MaxSignals
    BY <1>0, SwitchBounds DEF SwitchTypeOK
  <2>. QED BY <1>0, <2>1 DEF SwitchTypeOK
<1>. QED BY <1>0, <1>1 DEF SwitchInv, Batch, Unread, Unanswered, Told

\* An event has been looked at that was not the host's request.
LEMMA LookedAt ==
    ASSUME SwitchTypeOK, loop = "handle", buffer # <<>>, NextEvent
    PROVE  /\ buffer \in Seq(Kinds) /\ buffer' = Tail(buffer) /\ buffer' \in Seq(Kinds)
           /\ loop' \in {"read", "handle"} /\ (loop' # "handle" => buffer' = <<>>)
<1>1. buffer \in Seq(Kinds)
  BY DEF SwitchTypeOK, Kinds
<1>. QED BY <1>1, TailOfBatch DEF NextEvent

LEMMA HandleVersionStep ==
    ASSUME SwitchInv, HandleVersion
    PROVE  SwitchInv'
<1>. USE DEF hostVars, kernelVars, historyVars, HostDone
<1>0. /\ SwitchTypeOK /\ Batch /\ Unread /\ Unanswered
      /\ loop = "handle" /\ buffer # <<>> /\ buffer[1] = Version /\ NextEvent
      /\ info' = <<>> /\ ep0' = "none"
      /\ UNCHANGED <<timeouts, setup, events, others, signals, cancelled>>
  BY DEF SwitchInv, HandleVersion, Event, Answered
<1>1. /\ buffer \in Seq(Kinds) /\ buffer' = Tail(buffer) /\ buffer' \in Seq(Kinds)
      /\ loop' \in {"read", "handle"} /\ (loop' # "handle" => buffer' = <<>>)
  BY <1>0, LookedAt
<1>2. OneRequest(buffer') /\ ~HasRequest(buffer') /\ \A r : RequestsAre(buffer, r) => RequestsAre(buffer', r)
  BY <1>0, <1>1, TailOfBatch, Numbers DEF Batch
\* The batch's request is the one FunctionFS waits for an answer to.
<1>3. setup = Version /\ next = Version
  <2>1. 1 \in DOMAIN buffer
    BY <1>0, <1>1
  <2>2. setup = Version
    BY <1>0, <2>1, Numbers DEF Batch, RequestsAre
  <2>3. ep0 # "none"
    BY DEF HandleVersion, Answered
  <2>. QED BY <1>0, <2>2, <2>3 DEF Unanswered
<1>4. \/ ep0 = "pending" /\ waiting' = FALSE /\ next' = 2
      \/ ep0 = "cancelled" /\ UNCHANGED <<waiting, next>>
  BY <1>3, Numbers DEF HandleVersion, Answered
<1>5. Announced(0) = <<>>
  BY DEF Announced
<1>6. 2 # Version /\ 2 # Start + 1 /\ 2 \in 1..Start + 1 /\ 2 - 2 = 0 /\ Version # Start + 1
  BY Numbers
<1>7. SwitchTypeOK'
  <2>1. <<>> \in Seq(StringRequests)
    OBVIOUS
  <2>. QED BY <1>0, <1>1, <1>4, <1>6, <2>1 DEF SwitchTypeOK, Kinds
<1>8. Batch'
  BY <1>0, <1>1, <1>2 DEF Batch
<1>9. Unread'
  BY <1>0, <1>3, <1>4 DEF Unread, OneRequest, RequestsAre, HasRequest
<1>10. Unanswered'
  BY <1>0, <1>1, <1>3, <1>4, <1>6 DEF Unanswered
<1>11. Told'
  BY <1>0, <1>3, <1>4, <1>5, <1>6 DEF Told
<1>. QED BY <1>7, <1>8, <1>9, <1>10, <1>11 DEF SwitchInv

LEMMA HandleStringStep ==
    ASSUME SwitchInv, HandleString
    PROVE  SwitchInv'
<1>. USE DEF hostVars, kernelVars, historyVars, HostDone
<1>0. /\ SwitchTypeOK /\ Batch /\ Unread /\ Unanswered /\ Told
      /\ NextEvent /\ loop = "handle" /\ buffer # <<>>
      /\ UNCHANGED <<next, waiting, timeouts, ep0, setup, events, others, signals, cancelled>>
  BY DEF SwitchInv, HandleString, Event
<1>1. PICK e \in StringRequests : buffer[1] = e /\ info' = Append(info, e)
  BY DEF HandleString, Event
<1>2. /\ buffer \in Seq(Kinds) /\ buffer' = Tail(buffer) /\ buffer' \in Seq(Kinds)
      /\ loop' \in {"read", "handle"} /\ (loop' # "handle" => buffer' = <<>>)
  BY <1>0, LookedAt
<1>3. e \in Nat /\ e >= 2 /\ e < Start /\ e # Other /\ e # Version /\ e # Start
  BY Numbers
<1>4. /\ OneRequest(buffer') /\ HasRequest(buffer) /\ ~HasRequest(buffer')
      /\ \A r : RequestsAre(buffer, r) => RequestsAre(buffer', r)
  BY <1>0, <1>1, <1>2, <1>3, TailOfBatch DEF Batch
<1>5. setup = e /\ ep0 # "none"
  <2>1. 1 \in DOMAIN buffer
    BY <1>0, <1>2
  <2>. QED BY <1>0, <1>1, <1>3, <1>4, <2>1 DEF Batch, RequestsAre
<1>6. SwitchTypeOK'
  <2>1. info' \in Seq(StringRequests)
    BY <1>0, <1>1 DEF SwitchTypeOK
  <2>. QED BY <1>0, <1>2, <2>1 DEF SwitchTypeOK, Kinds
<1>7. Batch'
  BY <1>0, <1>2, <1>3, <1>4, <1>5 DEF Batch
<1>8. Unread'
  BY <1>0 DEF Unread
<1>9. Unanswered'
  BY <1>0, <1>2 DEF Unanswered
<1>10. Told'
  <2>. SUFFICES ASSUME next # Version PROVE info' = Announced(next - 1) /\ next # Start + 1 /\ next # Start
    BY <1>0, <1>4, <1>5 DEF Told
  <2>1. next = e
    BY <1>0, <1>5 DEF Unanswered
  <2>2. next # Start + 1 /\ next # Start
    BY <1>3, <2>1, Numbers
  <2>3. info = Announced(e - 2)
    BY <1>0, <1>4, <2>1, <2>2 DEF Told
  <2>4. Append(Announced(e - 2), e) = Announced(e - 1)
    BY <1>3, OneMoreAnnounced
  <2>. QED BY <1>1, <2>1, <2>2, <2>3, <2>4
<1>. QED BY <1>6, <1>7, <1>8, <1>9, <1>10 DEF SwitchInv

LEMMA HandleStartStep ==
    ASSUME SwitchInv, HandleStart
    PROVE  SwitchInv'
<1>. USE DEF hostVars, kernelVars, historyVars, HostDone
<1>0. /\ SwitchTypeOK /\ Batch /\ Unread /\ Unanswered /\ Told
      /\ loop = "handle" /\ buffer # <<>> /\ buffer[1] = Start /\ buffer' = <<>> /\ loop' = "read"
      /\ UNCHANGED <<next, waiting, timeouts, ep0, setup, events, others, info, signals, cancelled>>
  BY DEF SwitchInv, HandleStart, Event
<1>1. Start # Other /\ Start # Version
  BY Numbers
<1>2. setup = Start /\ HasRequest(buffer)
  <2>1. buffer \in Seq(Kinds)
    BY <1>0 DEF SwitchTypeOK, Kinds
  <2>2. 1 \in DOMAIN buffer
    BY <1>0, <2>1
  <2>. QED BY <1>0, <1>1, <2>2 DEF Batch, RequestsAre, HasRequest
<1>3. SwitchTypeOK'
  <2>1. <<>> \in Seq(Kinds)
    OBVIOUS
  <2>. QED BY <1>0, <2>1 DEF SwitchTypeOK, Kinds
<1>4. Batch'
  BY <1>0, <1>1, <1>2 DEF Batch, OneRequest, RequestsAre, HasRequest
<1>5. Unread' /\ Unanswered'
  BY <1>0 DEF Unread, Unanswered
<1>6. Told'
  BY <1>0, <1>2 DEF Told, Batch, Unanswered
<1>. QED BY <1>3, <1>4, <1>5, <1>6 DEF SwitchInv

LEMMA HandleOtherStep ==
    ASSUME SwitchInv, HandleOther
    PROVE  SwitchInv'
<1>. USE DEF hostVars, kernelVars, historyVars, HostDone
<1>0. /\ SwitchTypeOK /\ Batch /\ Unread /\ Unanswered /\ Told /\ loop = "handle"
      /\ UNCHANGED <<next, waiting, timeouts, ep0, setup, events, others, info, signals, cancelled>>
  BY DEF SwitchInv, HandleOther, Event
<1>1. /\ buffer' \in Seq(Kinds) /\ OneRequest(buffer') /\ RequestsAre(buffer', setup)
      /\ HasRequest(buffer') <=> HasRequest(buffer)
      /\ loop' \in {"read", "handle"} /\ (loop' # "handle" => buffer' = <<>>)
  <2>1. CASE buffer # <<>> /\ buffer[1] = Other /\ NextEvent
    <3>1. /\ buffer \in Seq(Kinds) /\ buffer' = Tail(buffer) /\ buffer' \in Seq(Kinds)
          /\ loop' \in {"read", "handle"} /\ (loop' # "handle" => buffer' = <<>>)
      BY <1>0, <2>1, LookedAt
    <3>. QED BY <1>0, <2>1, <3>1, TailOfBatch DEF Batch
  <2>2. CASE buffer = <<>> /\ loop' = "read" /\ buffer' = buffer
    BY <1>0, <2>2 DEF Batch, SwitchTypeOK, Kinds
  <2>. QED BY <2>1, <2>2 DEF HandleOther, Event
<1>2. SwitchTypeOK'
  BY <1>0, <1>1 DEF SwitchTypeOK, Kinds
<1>3. Batch'
  BY <1>0, <1>1 DEF Batch
<1>4. Unread' /\ Unanswered'
  BY <1>0, <1>1 DEF Unread, Unanswered
<1>5. Told'
  BY <1>0, <1>1 DEF Told
<1>. QED BY <1>2, <1>3, <1>4, <1>5 DEF SwitchInv

LEMMA SwitchStep ==
    ASSUME SwitchInv, Next
    PROVE  SwitchInv'
<1>1. CASE RequestTimeout
  <2>1. waiting /\ StartOver /\ timeouts' \in 0..MaxTimeouts
    BY <1>1, SwitchBounds DEF RequestTimeout, SwitchInv, SwitchTypeOK
  <2>. QED BY <2>1, StartOverStep
<1>2. CASE RequestLost
  <2>1. waiting /\ StartOver /\ timeouts' \in 0..MaxTimeouts
    BY <1>2 DEF RequestLost, SwitchInv, SwitchTypeOK
  <2>. QED BY <2>1, StartOverStep
<1>. QED BY <1>1, <1>2, RequestStep, BusEventStep, ReadEventsStep, ReadStringStep, ReadStartStep,
            ReadFailsStep, HandleVersionStep, HandleStringStep, HandleStartStep, HandleOtherStep
         DEF Next, Loop, HandleSwitchMessage

\* A switch that is about to begin.
LEMMA SwitchBegins ==
    ASSUME SwitchInv, BeginSwitch
    PROVE  SwitchInv'
<1>1. Version \in 1..Start + 1 /\ Version \in Requests /\ Version # Start + 1
  BY Numbers
<1>2. /\ next' = Version /\ waiting' = FALSE /\ ep0' = "none" /\ setup' = Version /\ events' = <<>>
      /\ loop' = "read" /\ buffer' = <<>> /\ info' = <<>> /\ cancelled' = FALSE
      /\ UNCHANGED <<timeouts, others, signals>>
  BY DEF BeginSwitch
<1>3. SwitchTypeOK'
  <2>1. <<>> \in Seq(Kinds) /\ <<>> \in Seq(StringRequests)
    OBVIOUS
  <2>. QED BY <1>1, <1>2, <2>1 DEF SwitchInv, SwitchTypeOK, Kinds
<1>4. Batch' /\ Unread'
  BY <1>2 DEF Batch, Unread, OneRequest, RequestsAre, HasRequest
<1>5. Unanswered' /\ Told'
  BY <1>1, <1>2 DEF Unanswered, Told, HostDone
<1>. QED BY <1>3, <1>4, <1>5 DEF SwitchInv

-----------------------------------------------------------------------------
(* The steps of the program's life.                                        *)

LEMMA PlaceNames ==
    /\ Initial = "initial_state" /\ Main = "main_state" /\ None = "none"
    /\ Before[Initial] = "started" /\ Before[Main] = "setup"
    /\ Made[Initial] = "initialMade" /\ Made[Main] = "mainMade"
    /\ Mounted[Initial] = "initialMounted" /\ Mounted[Main] = "mainMounted"
    /\ Ready[Initial] = "initialReady" /\ Ready[Main] = "mainReady"
    /\ Places = {"down", "switch", "context", "listen", "serving", "stuck", "closing", "removing",
                 "started", "setup", "initialMade", "mainMade", "initialMounted", "mainMounted",
                 "initialReady", "mainReady"}
<1>1. Initial = "initial_state" /\ Main = "main_state" /\ None = "none"
  BY DEF Initial, Main, None, rr
<1>2. /\ Before[Initial] = "started" /\ Before[Main] = "setup"
      /\ Made[Initial] = "initialMade" /\ Made[Main] = "mainMade"
      /\ Mounted[Initial] = "initialMounted" /\ Mounted[Main] = "mainMounted"
      /\ Ready[Initial] = "initialReady" /\ Ready[Main] = "mainReady"
  BY <1>1 DEF Before, Made, Mounted, Ready
<1>3. {p[g] : p \in {Before, Made, Mounted, Ready}, g \in {Initial, Main}}
      = {"started", "setup", "initialMade", "mainMade", "initialMounted", "mainMounted",
         "initialReady", "mainReady"}
  BY <1>2
<1>. QED BY <1>1, <1>2, <1>3 DEF Places

\* The state of main and of the system, apart from the switch's.
LifeTypes ==
    /\ at \in Places /\ gadgets \subseteq {Initial, Main} /\ mounts \subseteq {Initial, Main}
    /\ keptGadgets \subseteq gadgets /\ keptMounts \subseteq mounts
    /\ bound \in (gadgets \intersect mounts) \union {None} /\ socket \in BOOLEAN
    /\ quit \in BOOLEAN /\ handler \in BOOLEAN
    /\ faults \in 0..MaxFaults /\ hampered \in BOOLEAN

LifeInv == LifeTypes /\ InPlace /\ Clean

LEMMA InvariantParts == IInv <=> SwitchInv /\ LifeInv
  BY DEF IInv, LifeInv, LifecycleTypeOK, LifeTypes, SwitchInv

LEMMA LifeRests ==
    ASSUME LifeInv, UNCHANGED lifeVars
    PROVE  LifeInv'
  BY DEF LifeInv, LifeTypes, InPlace, Clean, lifeVars, systemVars, keptVars, processVars, faultVars

\* The end of a process, if it was not the first thing that went wrong.
LEMMA TerminateStep ==
    ASSUME LifeInv, Terminate, faults' \in 0..MaxFaults, hampered' = TRUE
    PROVE  LifeInv'
<1>. USE PlaceNames DEF Owned, InSecond, keptVars
<1>1. LifeTypes'
  BY DEF LifeInv, LifeTypes, Terminate
<1>2. InPlace'
  BY DEF InPlace, Terminate
<1>3. Clean'
  BY DEF Clean
<1>. QED BY <1>1, <1>2, <1>3 DEF LifeInv

LEMMA FaultStep ==
    ASSUME LifeInv, Fault
    PROVE  faults' \in 0..MaxFaults /\ hampered' = TRUE
  BY FaultsAssumption DEF Fault, LifeInv, LifeTypes

LEMMA PowerCycleStep ==
    ASSUME LifeInv, PowerCycle
    PROVE  LifeInv'
<1>. USE PlaceNames DEF Owned, InSecond, keptVars
<1>0. faults' \in 0..MaxFaults /\ hampered' = TRUE
  BY FaultStep DEF PowerCycle
<1>1. LifeTypes'
  BY <1>0 DEF LifeInv, LifeTypes, PowerCycle
<1>2. InPlace'
  BY DEF InPlace, PowerCycle
<1>3. Clean'
  BY <1>0 DEF Clean
<1>. QED BY <1>1, <1>2, <1>3 DEF LifeInv

LEMMA RunStep ==
    ASSUME LifeInv, Run
    PROVE  LifeInv'
<1>. USE PlaceNames DEF Owned, InSecond, keptVars
<1>1. LifeTypes'
  BY DEF LifeInv, LifeTypes, Run, Goto
<1>2. InPlace'
  BY DEF LifeInv, InPlace, Run, Goto
<1>3. Clean'
  <2>1. at' = "started" /\ ~socket' /\ UNCHANGED <<gadgets, mounts, keptGadgets, keptMounts>>
    BY DEF Run, Goto
  <2>2. ~hampered' => gadgets = {} /\ mounts = {} /\ keptGadgets = {} /\ keptMounts = {}
    BY DEF Run, LifeInv, LifeTypes
  <2>. QED BY <2>1, <2>2 DEF Clean
<1>. QED BY <1>1, <1>2, <1>3 DEF LifeInv

\* A gadget is built: it is made, its functions are, it is complete and enabled.
LEMMA GadgetStep ==
    ASSUME LifeInv, NEW g \in {Initial, Main},
           CreateGadget(g) \/ AddFunctions(g) \/ AddConfiguration(g) \/ Enable(g)
    PROVE  LifeInv'
<1>. USE PlaceNames DEF Owned, InSecond, keptVars
<1>1. ASSUME CreateGadget(g), g \notin gadgets, gadgets' = gadgets \union {g}, at' = Made[g],
             UNCHANGED <<mounts, bound, socket, keptVars, quit, handler>>
      PROVE  LifeInv'
  BY <1>1 DEF LifeInv, LifeTypes, InPlace, Clean, CreateGadget, faultVars
\* The name is taken: an earlier run has left the gadget.
<1>2. ASSUME CreateGadget(g), g \in gadgets, Terminate
      PROVE  LifeInv'
  <2>1. hampered
    BY <1>2 DEF LifeInv, LifeTypes, Clean, CreateGadget
  <2>2. faults' \in 0..MaxFaults /\ hampered' = TRUE
    BY <1>2, <2>1 DEF LifeInv, LifeTypes, CreateGadget, faultVars
  <2>. QED BY <1>2, <2>2, TerminateStep
<1>3. ASSUME AddFunctions(g), mounts' = mounts \union {g}, at' = Mounted[g],
             UNCHANGED <<gadgets, bound, socket, keptVars, quit, handler>>
      PROVE  LifeInv'
  BY <1>3 DEF LifeInv, LifeTypes, InPlace, Clean, AddFunctions, faultVars
\* An earlier run has left a mount.
<1>7. ASSUME AddFunctions(g), g \in mounts, Terminate
      PROVE  LifeInv'
  <2>1. hampered
    BY <1>7 DEF LifeInv, LifeTypes, Clean, AddFunctions
  <2>2. faults' \in 0..MaxFaults /\ hampered' = TRUE
    BY <1>7, <2>1 DEF LifeInv, LifeTypes, AddFunctions, faultVars
  <2>. QED BY <1>7, <2>2, TerminateStep
<1>8. CASE AddFunctions(g)
  BY <1>3, <1>7, <1>8 DEF AddFunctions
<1>4. CASE AddConfiguration(g)
  BY <1>4 DEF LifeInv, LifeTypes, InPlace, Clean, AddConfiguration, Goto, faultVars, systemVars
<1>5. CASE Enable(g)
  BY <1>5 DEF LifeInv, LifeTypes, InPlace, Clean, Enable, Goto, faultVars
<1>6. CASE CreateGadget(g)
  BY <1>1, <1>2, <1>6 DEF CreateGadget
<1>. QED BY <1>4, <1>5, <1>6, <1>8

\* The destructors leave nothing but what they could not remove.
LEMMA RemovalStep ==
    ASSUME LifeTypes, NEW g \in gadgets \intersect mounts, RemoveGadget(g)
    PROVE  /\ gadgets' = (gadgets \ {g}) \union keptGadgets' /\ keptGadgets' \subseteq keptGadgets \union {g}
           /\ mounts' = (mounts \ {g}) \union keptMounts' /\ keptMounts' \subseteq keptMounts \union {g}
           /\ keptGadgets \subseteq keptGadgets' /\ keptMounts \subseteq keptMounts'
           /\ keptGadgets' \subseteq gadgets' /\ gadgets' \subseteq {Initial, Main}
           /\ keptMounts' \subseteq mounts' /\ mounts' \subseteq {Initial, Main}
           /\ faults' \in 0..MaxFaults /\ hampered' = hampered
  BY FaultsAssumption DEF LifeTypes, RemoveGadget

LEMMA LeaveSwitchStep ==
    ASSUME LifeInv, LeaveSwitch
    PROVE  LifeInv'
<1>. USE PlaceNames DEF Owned, InSecond, keptVars
<1>1. Initial \in gadgets \intersect mounts /\ LifeTypes
  BY DEF LifeInv, InPlace, LeaveSwitch, Goto
<1>2. at = "switch" /\ at' = "context" /\ bound' = None /\ UNCHANGED <<socket, quit, handler>>
      /\ RemoveGadget(Initial)
  BY DEF LeaveSwitch, Goto
<1>. HIDE DEF RemoveGadget
<1>3. LifeTypes'
  BY <1>1, <1>2, RemovalStep DEF LifeTypes
<1>4. InPlace'
  BY <1>1, <1>2, RemovalStep DEF InPlace
<1>5. Clean'
  BY <1>1, <1>2, RemovalStep DEF LifeInv, Clean
<1>. QED BY <1>3, <1>4, <1>5 DEF LifeInv

\* A switch fails only over a request that was cancelled.
LEMMA SwitchFailsStep ==
    ASSUME LifeInv, Unanswered, SwitchFails
    PROVE  LifeInv'
<1>1. faults' \in 0..MaxFaults /\ hampered' = TRUE
  BY DEF LifeInv, LifeTypes, Unanswered, SwitchFails
<1>. QED BY <1>1, TerminateStep DEF SwitchFails

LEMMA ServeStep ==
    ASSUME LifeInv, LoadContext \/ Serve
    PROVE  LifeInv'
<1>. USE PlaceNames DEF Owned, InSecond, keptVars
<1>1. CASE LoadContext
  BY <1>1 DEF LifeInv, LifeTypes, InPlace, Clean, LoadContext, Goto, faultVars, systemVars
<1>2. ASSUME Serve, ~socket, socket' = TRUE, at' = "serving",
             UNCHANGED <<gadgets, mounts, bound, keptVars, quit, handler>>
      PROVE  LifeInv'
  BY <1>2 DEF LifeInv, LifeTypes, InPlace, Clean, Serve, faultVars
<1>3. ASSUME Serve, socket, Terminate
      PROVE  LifeInv'
  <2>1. hampered
    BY <1>3 DEF LifeInv, LifeTypes, Clean, Serve
  <2>2. faults' \in 0..MaxFaults /\ hampered' = TRUE
    BY <1>3, <2>1 DEF LifeInv, LifeTypes, Serve, faultVars
  <2>. QED BY <1>3, <2>2, TerminateStep
<1>4. CASE Serve
  BY <1>2, <1>3, <1>4 DEF Serve
<1>. QED BY <1>1, <1>4

LEMMA EndStep ==
    ASSUME LifeInv, CloseSocket \/ CloseEndpoints \/ Exit
    PROVE  LifeInv'
<1>. USE PlaceNames DEF Owned, InSecond, keptVars
<1>1. CASE CloseSocket
  <2>1. at = "serving" /\ at' = "closing" /\ socket' = FALSE
        /\ UNCHANGED <<gadgets, mounts, bound, keptGadgets, keptMounts, quit, handler, faults, hampered>>
    BY <1>1 DEF CloseSocket, Goto, faultVars
  <2>2. LifeTypes'
    BY <2>1 DEF LifeInv, LifeTypes
  <2>3. InPlace'
    BY <2>1 DEF LifeInv, InPlace
  <2>4. Clean'
    BY <2>1 DEF LifeInv, Clean
  <2>. QED BY <2>2, <2>3, <2>4 DEF LifeInv
<1>2. CASE CloseEndpoints
  BY <1>2 DEF LifeInv, LifeTypes, InPlace, Clean, CloseEndpoints, Goto, faultVars
<1>3. CASE Exit
  <2>1. Main \in gadgets \intersect mounts /\ LifeTypes /\ bound = None
    BY <1>3 DEF LifeInv, InPlace, Exit, Goto
  <2>2. at = "removing" /\ at' = "down" /\ quit' = FALSE /\ handler' = FALSE /\ UNCHANGED <<bound, socket>>
        /\ RemoveGadget(Main)
    BY <1>3 DEF Exit, Goto
  <2>3. LifeTypes'
    BY <2>1, <2>2, RemovalStep DEF LifeTypes
  <2>4. InPlace'
    BY <2>1, <2>2, RemovalStep DEF InPlace
  <2>5. Clean'
    BY <2>1, <2>2, RemovalStep DEF LifeInv, Clean
  <2>. QED BY <2>3, <2>4, <2>5 DEF LifeInv
<1>. QED BY <1>1, <1>2, <1>3

-----------------------------------------------------------------------------
(* The theorems.                                                           *)

\* The inductive invariant holds in every run.
THEOREM LifeInvariant == LifeSpec => []IInv
<1>1. LifeInit => IInv
  <2>. SUFFICES ASSUME LifeInit PROVE IInv
    OBVIOUS
  <2>1. Version \in 1..Start + 1 /\ Version \in Requests /\ Version # Start + 1
    BY Numbers
  <2>2. <<>> \in Seq(Kinds) /\ <<>> \in Seq(StringRequests) /\ 0 \in 0..MaxTimeouts /\ 0 \in 0..MaxEvents
        /\ 0 \in 0..MaxSignals
    BY SwitchBounds
  <2>3. SwitchTypeOK
    BY <2>1, <2>2 DEF LifeInit, Init, SwitchTypeOK, Kinds
  <2>4. Batch /\ Unread
    BY DEF LifeInit, Init, Batch, Unread, OneRequest, RequestsAre, HasRequest
  <2>5. Unanswered /\ Told
    BY <2>1 DEF LifeInit, Init, Unanswered, Told, HostDone
  <2>6. LifeInv
    <3>1. 0 \in 0..MaxFaults
      BY FaultsAssumption
    <3>2. LifeTypes
      BY PlaceNames, <3>1 DEF LifeInit, LifeTypes
    <3>3. InPlace /\ Clean
      BY PlaceNames DEF LifeInit, InPlace, Clean, Owned, InSecond
    <3>. QED BY <3>2, <3>3 DEF LifeInv
  <2>. QED BY <2>3, <2>4, <2>5, <2>6, InvariantParts DEF SwitchInv
<1>2. IInv /\ [LifeNext]_allVars => IInv'
  <2>. SUFFICES ASSUME SwitchInv, LifeInv, [LifeNext]_allVars PROVE SwitchInv' /\ LifeInv'
    <3>1. IInv' <=> SwitchInv' /\ LifeInv'
      BY InvariantParts, PTL
    <3>. QED BY <3>1, InvariantParts
  <2>. USE DEF allVars
  <2>1. CASE MainStep \/ CloseEndpoints
    <3>1. SwitchInv'
      <4>1. CASE UNCHANGED vars
        BY <4>1, SwitchRests
      <4>2. CASE BeginSwitch
        BY <4>2, SwitchBegins
      <4>3. UNCHANGED vars \/ BeginSwitch
        BY <2>1 DEF MainStep, Run, LeaveSwitch, SwitchFails, LoadContext, Serve, CloseSocket, CloseEndpoints, Exit,
                    CreateGadget, AddFunctions, AddConfiguration, Enable, Terminate
      <4>. QED BY <4>1, <4>2, <4>3
    <3>2. LifeInv'
      BY <2>1, RunStep, LeaveSwitchStep, SwitchFailsStep, ServeStep, EndStep, GadgetStep
         DEF MainStep, SwitchInv
    <3>. QED BY <3>1, <3>2
  <2>2. CASE InSwitch /\ Next
    BY <2>2, SwitchStep, LifeRests DEF InSwitch
  <2>3. CASE Interrupt
    <3>1. SwitchInv'
      BY <2>3, InterruptedStep, SwitchRests DEF Interrupt
    <3>2. UNCHANGED <<systemVars, faultVars>> /\ quit' \in BOOLEAN /\ handler' \in BOOLEAN
          /\ (at' = at \/ (at = "serving" /\ at' = "stuck"))
      BY <2>3 DEF Interrupt, Goto, LifeInv, LifeTypes
    <3>3. LifeTypes'
      BY <3>2, PlaceNames DEF LifeInv, LifeTypes, systemVars, keptVars, faultVars
    <3>4. InPlace'
      BY <3>2, PlaceNames DEF LifeInv, InPlace, Owned, systemVars, keptVars, faultVars
    <3>5. Clean'
      BY <3>2, PlaceNames DEF LifeInv, Clean, Owned, InSecond, systemVars, keptVars, faultVars
    <3>. QED BY <3>1, <3>3, <3>4, <3>5 DEF LifeInv
  <2>4. CASE PumpError
    <3>1. LifeInv'
      BY <2>4 DEF PumpError, LifeInv, LifeTypes, InPlace, Clean, systemVars, keptVars, faultVars
    <3>. QED BY <2>4, <3>1, SwitchRests DEF PumpError
  <2>5. CASE SystemCallFails \/ Kill
    BY <2>5, FaultStep, TerminateStep, SwitchRests DEF SystemCallFails, Kill, Terminate
  <2>6. CASE PowerCycle
    BY <2>6, PowerCycleStep, SwitchRests DEF PowerCycle
  <2>7. CASE UNCHANGED allVars
    BY <2>7, SwitchRests, LifeRests
  <2>. QED BY <2>1, <2>2, <2>3, <2>4, <2>5, <2>6, <2>7 DEF LifeNext
<1>. QED BY <1>1, <1>2, PTL DEF LifeSpec

\* Types, and that the UDC is bound only to a gadget that is there and mounted.
THEOREM LifeTypeCorrect == LifeSpec => []LifecycleTypeOK
<1>1. IInv => LifecycleTypeOK
  BY DEF IInv
<1>. QED BY <1>1, LifeInvariant, PTL

\* handleSwitchToAccessoryMode returns only to a host that has said all its
\* strings, once and in order, and has been told that its last request succeeded.
THEOREM SwitchCompletes == LifeSpec => []ReturnsSwitched
<1>1. IInv => ReturnsSwitched
  <2>. SUFFICES ASSUME IInv, loop = "closed" PROVE HostDone /\ info = Announced(Strings)
    BY DEF ReturnsSwitched, Announced
  <2>1. HostDone /\ Told
    BY DEF IInv, SwitchInv, Unanswered
  <2>2. Start + 1 # Version
    BY Numbers
  <2>. QED BY <2>1, <2>2 DEF Told, HostDone
<1>. QED BY <1>1, LifeInvariant, PTL

\* A run that finds nothing and is not cut short leaves no socket, and no gadget and
\* no mount but those whose own removal has failed, whatever the host, the bus and
\* the clients do.
THEOREM LeavesNothing == LifeSpec => []NothingLeft
<1>1. IInv => NothingLeft
  BY PlaceNames DEF IInv, Clean, Owned, NothingLeft
<1>. QED BY <1>1, LifeInvariant, PTL
=============================================================================
