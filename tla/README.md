# A TLA+ model of AACS

AACS connects things to the head unit of a car that speaks Android Auto.
`AAServer` plays the phone: it is a USB gadget the car talks to, and serves
local programs on a Unix socket. `AAClient` plays the head unit for a real phone
and passes the phone's traffic to AAServer's socket. `GetEvents` is a small
client that turns touch events into X11 events.

This directory models the concurrent core of the three programs in TLA+, checks
it with TLC on small instances and proves its safety properties with TLAPS. All
paths below are relative to the repository.

## 1. Inventory

| Part (source) | State | Operations | Correct when |
|---|---|---|---|
| Send queue and framing (`AAServer/src/AaCommunicator.cpp`) | `sendQueue` with an offset in its front element, `writeBio`, the pump's buffer | `sendMessage` from every thread; `getMessage`, `dataPump` on ep1; `handleSslHandshake` on ep2 | frames leave in push order, back to back, each with its own TLS record; every message leaves |
| Receiver (`AAClient/src/AaCommunicator.cpp`) | local variables of `getMessage` | one transfer per frame; `setup`'s loop that survives failures | only whole messages come out, in order, each once |
| Input channel (`InputChannelHandler.cpp`, `ChannelHandler.cpp`) | `registered_clients`, two flags shared by all clients | register, open, handshake, events, disconnect | nobody goes on with a stale answer, waits for ever, misses or repeats an event, however the clients come and go; who left is forgotten |
| Video channel (`VideoChannelHandler.cpp`) | `channelOpened`, two flags, `firstSample` | samples on the streaming thread, answers on ep2 | our answers never go to clients, media only after the setup, samples flow, focus is answered |
| Default and control channels (`DefaultChannelHandler.cpp`) | none | pass on, to all clients or to the head unit | nothing reaches the head unit before the TLS session stands |
| Session (`AaCommunicator.cpp`, `main.cpp`) | TLS state, `channelHandlers`, `channelTypeToChannelNumber`, `serviceDescriptor` | version, handshake, discovery, ping; the questions of the clients | the session comes up, clients get in, what a client takes for an answer is one |
| Socket server (`SocketCommunicator.cpp`, `SocketClient.cpp`, `main.cpp`) | two client containers, a thread for each client | accept, read, write, disconnect | survives its clients |
| Shutdown (`AaCommunicator.cpp`, `main.cpp`, `ManualResetEvent.cpp`) | `threadFinished`, `mre`, the cancel flags | SIGINT, a failing pump, destructors in order, SIGUSR1 | one pump down, all down; main is told; everything is joined |
| AAClient session and handlers (`AAClient/src`, `AAClient/main.cpp`) | TLS state, `sendQueue`, `channelHandlers`, video pipeline | `setup` and its loop, the relay thread, `writeThread` with one retry | the phone is served, the server's messages pass in order, only what comes early brings the program to a missing handler or session |
| Frame input (`AAServer/src/AaCommunicator.cpp`) | `dataPump`'s buffer, `length` and `start` | `readWraper`, `handleMessage` on ep2 | frames are handled in order, once and whole, however transfers run together |
| Mode switcher (`ModeSwitcher.cpp`; `AAClient/src/Device.cpp` as its host) | batch of events, the pending request of ep0 | requests 51, 52, 53 | returns when the host has been served, and only then |
| Process and USB gadgets (`main.cpp`, `Gadget.cpp`, `FfsFunction.cpp` and the other wrappers of libusbgx, `scripts/start`) | configfs, mounts, the UDC, `./socket`, `mre` | build, enable and remove two gadgets one after the other; crash, restart | a run leaves nothing behind but what cannot be removed, SIGINT ends it wherever it comes, the server comes up again |
| Device lists, packet dump, protobuf, X11 | none that interleaves | I/O | not modelled |

How they interact: the threads of AAServer are three pumps (ep0, ep1, ep2), the
listening thread, one thread for each client, the GStreamer streaming thread and
main. AAClient has three of its own: main in `setup`, the relay that reads the
socket, and the writer. Threads call each other through boost signals, that is,
synchronously on the thread that fires: the pump of ep2 runs the handlers, which
write to the clients' sockets; a client's thread runs the handlers' other half, which pushes to
`sendQueue` and waits on a condition variable for ep2 to bring the answer.

What is hard here: the queue is cut by one thread while others push; the TLS
objects are used by two threads, partly without a lock; flags that belong to one
exchange are shared by all clients and not initialised; containers are iterated
and changed by different threads; answers can be confused with broadcasts;
handlers are visible before they are complete; a failing write decides over the
whole server; the destructors wait for threads that may be waiting themselves;
the handler of SIGINT takes a mutex that the thread it interrupts may have;
an exception in main destroys nothing, and what it leaves in configfs is there
when the next run begins; bulk transfers have no ends of their own.
`PROJECT.json` lists each of these hazards with its line.

## 2. Modules

| Module | Models | Extends |
|---|---|---|
| `Framing` | how `getMessage` (maxSize 2000) and `prepareMessage` (10000) cut a message | |
| `SendQueue` | AAServer's way out: producers, the TLS handshake, the pump of ep1 | `Framing` |
| `FrameLink` | SendQueue's sender facing AAClient's `getMessage` | `SendQueue` |
| `FrameInput` | AAServer's way in: packets, the pump of ep2, `handleMessage` | `Framing` |
| `MessageFifo` | the abstract promise of the link: a FIFO of whole messages | |
| `InputChannel` | clients' threads, shared flags, ep2, the head unit's input channel | |
| `VideoChannel` | streaming thread, ep2 and the head unit's video channel | |
| `Session` | the session coming up while clients ask, send, leave and restart | |
| `Shutdown` | pumps, clients, main from SIGINT or a failure to the last join | |
| `ClientSession` | AAClient's main, relay and writer between the phone and AAServer | |
| `MCClientSession` | the order in which the phone opens its channels | `ClientSession` |
| `ModeSwitch` | the host's switch to accessory mode, FunctionFS, AAServer's loop over ep0 | |
| `Lifecycle` | main from start to end, run after run, with crashes; the switch in its place | `ModeSwitch` |
| `FrameLinkProofs` (also of `SendQueue`), `FrameInputProofs`, `InputChannelProofs`, `VideoChannelProofs`, `SessionProofs`, `ShutdownProofs`, `ClientSessionProofs`, `LifecycleProofs` (also of `ModeSwitch`) | theorems and proofs (section 5) | the module, `TLAPS` |

Conventions. A message's bytes are named by the message and the interval they
fill, so a lost, repeated or mixed byte shows without any byte being modelled. A
critical section is one action; code between two lock operations, or between two
accesses to state that is shared without a lock, is an action of its own. A
variable called a history in its comment is not in the code. An operator whose
comment begins with "Mutant" is not part of the model: it is the code with a
plausible mistake, kept to show that the property it is listed with in
`PROJECT.json` notices it.

Correspondence with the code, by module (every definition with its lines is in
the "map" of `PROJECT.json`):

* `SendQueue`. `SendMessage` is the push under `sendQueueMutex`; `GetEncrypted`
  is `getMessage` up to `lk.unlock()`, `BioRead` what follows it, `WriteFrame`
  and `CheckTerminate` are the rest of `dataPump`. A message of no bytes makes no
  record, so `BioRead` then fails and ends the pump, as in the code. A write may
  fail at any time; a write that takes part of a frame is completed by the loop
  and is the same action. `SendEncrypted` needs the session to be established:
  the head unit asks for the first encrypted message with AuthComplete. That
  this is so whatever clients do is not assumed but checked, in `Session`
  (`NothingEncryptedEarly`).
* `FrameLink`. The two programs never face each other in a car: AAServer's peer
  is the car and AAClient's the phone. But they play the two roles of one
  protocol, so the sender in front of AAClient is taken to be one like
  AAServer's. `Receive` is one turn of `getMessage`'s loop. `Fail` is its
  exception: before the TLS session stands nobody catches it and AAClient ends
  (`Serving` is when the loop of `setup` is reached), afterwards the loop counts
  it and ends at `GiveUp` in a row. `TransferFault` is a transfer that brings
  nothing, between messages or within one (`FaultPoints`); `LoseFrame` one that
  takes the frame with it, because a part of it had come, its length is wrong or
  it cannot be decrypted. A frame lost is a record lost, so nothing can be
  decrypted afterwards (`client = "broken"`): AAClient goes on failing until it
  gives up. What is left of a frame that a failure has cut in two comes as a frame
  of its own; it is taken to fail the length test.
* `FrameInput`. Bytes are named by their place in the stream of all frames, so
  `start`, `got` and a frame's ends can be compared. A read takes packet after
  packet and is over with a short one or a full buffer (`ReceivePacket`): that is
  how a bulk endpoint works, and it is what lets frames run together. The head
  unit cuts with `Framing` and sends one transfer for a frame, as AAClient does;
  some end a transfer that fills its packets with an empty one, which the model
  leaves open (`ReceiveEmptyPacket`). `HandleMessage` is `handleMessage` with the
  loop around it: `Declared` is the length field, which in a First frame does not
  count the total length; `decryptMessage` then takes that for the beginning of a
  TLS record and fails (`Unreadable`). What a message does is `Session`'s.
* `InputChannel`. A client's thread is a program counter through
  `handleMessageFromClient`; the two flags start with any value because the
  constructors do not set them. `registered_clients` is a `std::set` changed
  without the lock (`Touch`). A change under the loop of ep2 is a data race, and
  the event goes into `torn`: the loop may see the change or not, and from then
  on until it ends it may go astray (`Stray`): back to clients served already,
  past others, or into freed memory, which ends the program. Two threads that
  change the set at once may lose any of it (`corrupt`), and every loop
  over it is torn. `MaxStrays` bounds how often these things happen in a run.
* `VideoChannel`. `Wire` is the construction of the handler, which starts the
  pipeline, and the two `connect` calls after it. A message sent before the
  second is lost. The head unit's `Other` stands for every message the handler
  does not know. A pull that gets no sample ends the stream (`NoSample`), of which
  the code tells nobody.
* `Session`. A handler is "null", has its number, is made, is wired: the order
  of `handleServiceDiscoveryResponse`. Programs take the first thing they read
  for the answer. The details of a channel's opening are in `InputChannel`; here
  it is a request and an answer. Nobody deletes the `SocketClient` of a client
  that has left: its descriptor is `leaked`, and once `Descriptors` are in use
  `accept` fails and programs wait in the backlog (`Exhausted`).
* `Shutdown`. It begins in `setup`, when the pumps run and main is not yet
  connected to their error (`Connect`); what a pump reports before is heard by
  nobody (`missed`). A pump is between a test of `threadFinished` and its next call
  ("ready"), in the call ("blocked"), handling a message with
  `AaCommunicator::m` held ("handle"), writing to a client in there ("write") or
  inside `threadTerminated` ("failing"). A client's thread polls its socket, has
  a packet, waits for an answer of the head unit ("wait") or writes to a client
  that does not read ("send"). main is in `mre.wait` with its mutex ("lock") or
  asleep without it ("wait"); the handler of SIGINT runs on main's thread and
  needs that mutex, so in "lock" it blocks main for good ("stuck"), and with it a
  pump that wants to report (`EventFree`). A client that erases itself from the
  set the destructor is iterating breaks that loop (`torn`): it may miss clients
  or run into freed memory (`Crash`). Spurious wake-ups of the condition variable
  are left out: they only add more times at which main is in "lock".
* `ClientSession`. It begins when the relay is started and `setup` has said nothing
  yet (`stage = "start"`), so a message of the server may come before
  `SendVersionRequest`. What a handler sends is pushed one by one by `Send`, so the
  relay and the writer come between. The pop in `prepareMessage` and the transfer
  are one action, since nothing another thread does in between touches the
  message; a message is one frame here (`SendQueue` has the cutting). A transfer
  fails before or after its bytes have gone: in the second case the retry repeats
  the message, which breaks the phone's TLS session if it is encrypted and counts
  as a new one if it is plain. The phone speaks as AAServer does. `ended` holds
  the reason why the program ended.
* `ModeSwitch`. The host is `Device::switchToAOA`. FunctionFS is external: a
  request is pending once its event has been read, it is answered by a write (51)
  or by a read of its data (52, 53), and any new event cancels it. The read that
  follows request 53 returns 0 and ends the loop; the 0 that
  `handleSwitchMessage` returns is tested by nobody (line 88 tests the length of
  the read). Testing the right variable would leave the host without the end of
  its transfer: the mutant `HandleStartExit`.
* `Lifecycle`. Its variable `at` is main's place between the steps that change
  the system: each gadget is created, given its functions and their mount, its
  configuration, enabled, and removed by destructors in their order. In place
  "switch" the steps are those of `ModeSwitch` (`InSwitch`). A system call may
  fail in any step, the process may be killed, the power may go; the first two are
  `Terminate`: no destructor runs, the kernel closes the descriptors and with ep0
  frees the UDC, configfs and mounts stay. `SwitchFails` is the same, but needs no
  fault: the exception over a cancelled request. `hampered` records that a run
  found something left or was cut short. The destructors throw nothing:
  `RemoveGadget` may fail to unmount, to remove, or both, and main goes on;
  `keptMounts` and `keptGadgets` record it. Whether the joins inside the
  destructors end is `Shutdown`'s question; here `CloseEndpoints` may happen or
  not. `Interrupt` may block main as in `Shutdown` ("stuck").

## 3. Runs

| Run | Instance | Result |
|---|---|---|
| `FrameLink` | maxSize 2, sizes 0, 2 and 5, 4 messages, 2 flights; frames lost anywhere, transfers without a byte between messages, the end at 2 failures in a row | 169,572 states, holds |
| `FrameLinkFault` | the failure inside a message | `DeliveredWhole` violated |
| `FrameInput` | packets of 4, buffer of 16, maxSize 8, sizes 1, 4, 8 and 9, 5 frames | 74,253 states, holds |
| `InputChannel` | 2 clients, 1 packet each, 2 events, sockets of 1 message, 1 stray | 577,648 states, holds |
| `InputChannelPipe` | 1 client, 1 packet, 1 event | `ServerSurvivesClients` violated |
| `Shutdown` | 2 clients, 3 pumps | 303,984 states, holds |
| `VideoChannel` | 3 samples, 2 indications | 18,439 states, holds |
| `Session` | 1 AAClient, 1 GetEvents, 1 message waiting, 4 descriptors | 438,226 states, holds |
| `SessionReply` | 1 AAClient, 2 messages waiting | `DescriptionIsDescription` violated |
| `ClientSession` | 4 channels, 2 video packets, 1 unasked message, 1 failing transfer | 584,704 states, holds |
| `Lifecycle` | 2 strings, 2 timeouts, 1 bus event, 2 interrupted reads, 2 faults | 320,613 states, holds |
| `LifecycleCrash` | 2 strings, 1 timeout, no faults | `NamesOfThisRun` violated |

Why the bounds are enough to be interesting. Sizes are none, exactly maxSize,
and two and a half times maxSize, so every branch of `getMessage` (full, first,
intermediate, last, plain) is taken, also at its boundary; four messages are two
flights and two encrypted ones (or a version response and one), so one can be
pushed while the other is half cut. In `FrameInput` a message of size 4 or 8
fills its packets, one of 1 does not, one of 9 needs two frames, whose header
and total length fill two packets and whose slice two more: the buffer of four
is full in the middle of a frame, at its end, and never, and five frames allow a
full buffer with frames behind it. Two clients are what it takes to reset each
other's flag, and two events to see a repetition or an inversion; a socket of
one message blocks ep2. Three samples are the first one and two that find the
channel open; two indications meet each other and the setup. In `Session` a
program or the head unit says something new only while less than `MaxWaiting`
messages wait; with one the questions of the programs come before, between and
after the steps of the handshake, but few requests are under way at once, and
the orders in which several meet are left to the proofs, which hold for any
bound. Two are needed for a broadcast to overtake an answer. Four descriptors
serve both programs and two that were refused before. In `Shutdown` the second
client shows a thread that leaves while the destructor is at the other. One
stray in `InputChannel` is enough to repeat an event, to skip a client and to
spoil the set, each of which a later loop then meets; the theorems hold for any
number. In `FrameLink` AAClient gives up at two failures in a row rather than
30: one is survived, one more is not. In `ClientSession` one packet comes
without a time and one with, the unasked message comes before, during and after
discovery, and the failing transfer is any message's, whose retry may fail too;
`MaxWaiting` only keeps the phone from saying something new while something is
on its way. In `Lifecycle` two strings are enough to lose, repeat or swap one, a
second timeout meets a request of the second attempt, the bus event comes before
a request, while one is pending, or behind a timeout; one fault leaves
something, a second meets the run that finds it, or the removal of the other
gadget. Runs do not check for deadlock: all of these systems may stop (bounds
reached, a pump ended, main done); that they do not stop too early is what the
liveness properties say.

What the passing runs show:

* `FrameLink`: frames are marked slices back to back in push order and the queue
  goes on where the cutting stopped (`Chain`), the unlocked BIO never holds a
  foreign record when the pump reads it (`OwnRecord`), reassembly is exact
  between any two frames, messages come out whole and in order, sender and
  receiver together implement `MessageFifo` (`FifoSpec`, with `InFlight` as the
  refinement mapping), also when AAClient ends or loses a frame, after which it
  returns nothing any more; and every message pushed is returned unless the pump
  ends, AAClient ends or a frame is lost (`EveryMessageReturned`).
* `FrameInput`: the loop of `dataPump` is always at the beginning of the first
  frame not handled (`HandledInOrder`), the form of the input ends the pump only
  over a message in several frames or a frame that the end of the buffer cuts
  off, and never reads a header that is not there (`FailsOnlyOver`), and a frame
  is not stuck in a read that has come to a short packet (`FramesHandled`).
* `InputChannel`: no client passes on an answer older than its own reset
  (`NoStaleOpen`), opening ends although flags are shared (`OpenCompletes`: the
  flag is raised for all, and only by answers). The race on the set is confined to
  its own event: nobody gets an event after a later one, none is repeated but one
  whose loop had the set changed under it (`EventsInOrder`), and all others reach
  every registered client exactly once, unless two threads have spoilt the set
  (`NoEventMissed`). That a torn loop does not repeat, skip or crash is not said:
  nothing in the code prevents it. A departure is noticed even behind a blocked
  write (`DepartureNoticed`).
* `VideoChannel`: no answer of ours goes to clients, media follow both answers,
  focus is answered, and samples flow if the signals were connected in time. If
  they were not, the streaming thread waits for ever; the property's premise
  leaves this case out, and the hazard is listed.
* `Session`: nothing is encrypted before the session stands, sensor data never
  meet a missing handler, the description comes, an AAClient started too early
  gets in, unless the sockets left open have used up the descriptors.
* `Shutdown`: a pump dies unnoticed only before main is connected to its error;
  once the socket communicator is gone, no client's thread is left that still
  needs it, unless the destructor's loop was broken (`NoThreadLeftBehind`); the
  end of a pump is the end of all (`AllPumpsEnd`) and main comes to its end
  (`Quits`), except in the cases these two name. The cases are what the server can
  hang at, each a state that TLC reaches: SIGINT while main has the mutex of
  `mre`; a client's thread that main joins and that waits for an answer or writes
  to a client that does not read; the same write on ep2; an endpoint's transfer
  that nobody interrupts, or that began just behind SIGUSR1; and the broken loop.
* `ClientSession`: the server's messages reach the phone in order
  (`RelayedInOrder`), a missing handler or TLS session is met only over a message
  of the server that came early (`CrashesOnlyEarly`), and every channel is served
  (`SessionServed`). Its premise names what is outside: an early message, a
  repeated one, a phone that refuses or is silent, a server that leaves, a
  pipeline that fails, two failures of a transfer in a row.
* `Lifecycle`: the switch returns only after the host has said all its strings,
  in order and once, and has had its last answer (`ReturnsSwitched`); a run that
  found nothing and was not cut short leaves no socket, and no gadget or mount but
  those whose own removal failed, whatever way it ends (`NothingLeft`); the server
  serves again after every end, unless a gadget was left or the host stays away
  (`ServesAgain`); and the first SIGINT ends the run, also when it came in the
  middle of the switch (`InterruptEnds`), unless the host never ends the switch,
  a thread that main joins never ends, or the handler itself blocks main.

The violated properties are disagreements between the code and what it, or the
README, says of itself; `PROJECT.json` quotes the lines under "findings".

1. A transfer that fails inside a message makes AAClient forward the rest of it
   as a message of its own.
2. A client that closes its socket ends AAServer: the catch around the write is
   for ECONNRESET, not for EPIPE.
3. "input + run random" names are the input: a gadget left by an exception keeps
   all later runs from creating theirs.
4. AAClient can take a broadcast for the service description.

## 4. Fairness

* `FrameLink`: weak fairness of the pump, a thread of its own whose waits end by
  a timeout, and of `Receive`, which is enabled only while AAClient is up: `setup`
  asks for the next message in a loop. Nothing is assumed of producers, and
  failures may come at any time; transfers that bring nothing cannot go on for
  ever, as AAClient ends at `GiveUp` in a row.
* `FrameInput`: weak fairness of packets that are on the bus and of the pump.
* `InputChannel`: weak fairness of `Progress`, the disjunction of ep2, the clients'
  threads, the head unit's answers and the clients reading their sockets: as long
  as one of them can go on, one does. This is weaker than fairness of each of
  them, and enough, since what else happens is bounded. Clients need not send or
  leave; events need not come.
* `VideoChannel`: weak fairness of ep2, of the streaming thread once it has a
  sample, of the head unit's answers. Samples and indications need not come.
* `Session`: weak fairness of the head unit's start and reactions, of ep2, of the
  clients' threads and of the programs; the latter are started again by the
  endless loops of `scripts/start`. Pings, forwarded requests and exits need not
  happen.
* `Shutdown`: weak fairness of what each thread does by itself: main, the
  listening thread and the clients' threads, whose `select` has a timeout of a
  second, and the pumps where they test the flag or tell main. Nothing is assumed
  of the head unit and the clients: the blocking read and write of an endpoint,
  the write in `SocketClient::sendMessage` and the wait for an answer of the head
  unit have no timeout and may last for ever (`Transfer`, `ClientTakes`,
  `ClientReads` and `Answer` are not fair), and so may the next connection, the
  next frame and SIGINT. Strong fairness of `FinishThreads`: it takes a mutex which ep2
  takes and gives back for every message, and a mutex that is free again and
  again is had in the end.
* `ClientSession`: weak fairness of main, the relay and the writer, of the phone's
  reactions (it opens its channels and sends its packets), and of the server's
  answers. Unasked messages, failures, silence and leaving need not happen.
* `Lifecycle`: weak fairness of main, which includes the loop of
  `scripts/start` but not `CloseEndpoints`, behind joins that may not end; in the
  switch, of the loop, and of the timeout of a request that was cancelled (a
  control transfer of the host has a limit of a second). The host need not come,
  nor go on to its next request.

## 5. Proofs

Every safety invariant that a passing run checks is a theorem, and so is the
refinement of `MessageFifo`. The argument is always the same: an inductive
invariant, named in the proof module as the conjunction of its parts (`IInv` in
most of them), holds at first
(`Init => IInv`), is kept by every step (`IInv /\ [Next]_vars => IInv'`, one lemma
for each action that disturbs it) and implies the property. TLC has checked each
`IInv` on the instance of the module's run before it was proved.

`FrameLinkProofs`, for every maxSize > 0, every set of sizes, any number of
messages, flights and failures; the first four are about `SendQueue` alone:

* `TypeCorrect`: the type invariant of `SendQueue`.
* `ChainHolds`: the inductive invariant `Chain`, the conjunction of `QueueOK`,
  `FramesOK`, `FramesChained` and `QueueContinues`. `FramesChained` alone is not
  inductive: the next frame is cut from the front of the queue, so one has to
  know that the front continues the last frame (`QueueContinues`), and, when the
  front is popped, that its successor is the next message pushed, whole
  (`QueueOK`).
* `OwnRecordHolds`: with `BioInv`, which says that encrypted messages exist only
  once the session is established, that until then only ep2 uses `writeBio` and
  from then on only ep1. The argument is the one that makes the missing lock
  harmless.
* `SentHolds`: all frames but the one in hand have been taken.
* `DeliveryIsWhole`, with corollaries `DeliveredAlwaysWhole` and
  `ReassemblyHolds`: what a receiver that is up has is a function of the last
  frame taken, so `Chain` gives the next one; one that has lost a frame or ended
  takes nothing any more.
* `LinkIsFifo`: the initial states of the link are initial states of
  `MessageFifo`, a push is `Accept`, the last frame of a message is `Deliver`,
  every other step a stutter.

`FrameInputProofs`, for messages of any sizes, any packets of four bytes or more
and any buffer that is a multiple of them: `InOrder` (`HandledInOrder`) and
`FailsOnlyThen` (`FailsOnlyOver`). A frame is handled whole because `start` is
always the beginning of one; for that a frame must be as long as it says
(`Stream`), and to be sure that a header is there the pump must have stopped at
the boundary of a packet (`AtPacket`). That only the buffer's end cuts a frame off
needs to know how a read ends: it goes on over full packets only (`Reading`),
so every frame behind its beginning and before its last packet filled its packets
(`Behind`), and it ends at the end of a frame or of the buffer (`ReadOver`).

`InputChannelProofs`, for any finite set of clients, any number of packets and
events and any size of the sockets' buffers: `InputTypeCorrect`, `OrderHolds`
(`EventsInOrder`), `NothingMissed` (`NoEventMissed`) and `NoStaleAnswer`
(`NoStaleOpen`), with any number of odd outcomes of the races on the set. A
client's events are in order because nothing it has is ahead of the loop, and
what it has to be visited for is behind, unless that loop is torn
(`NothingAhead`). They are complete because a client is either still to be
visited or up to date (`LastDue`), apart from torn events; this holds for
newcomers too, who have got nothing but what a torn loop wrote (`Unregistered`).
A loop that is not torn visits registered clients only (`LoopSound`). That
the pump takes only events that were sent is a fact about counting, stated by
numbering their places in the queue (`EventsCounted`). `NoStaleOpen` rests on
`FlagFresh`: whoever raises the flag raises it for all that wait.

`VideoChannelProofs`, for any number of samples and indications:
`VideoTypeCorrect`, `AnswersStay` (`NoAnswerLeaks`) and `SetupFirst`
(`MediaAfterSetup`). The invariant is the conversation with the head unit: the
channel is marked before the first request leaves (`MarkedFirst`), each request is
sent once (`AskedOnce`), and wherever the streaming thread goes on the answer in
question was to a request of ours (`AnsweredFor`).

`SessionProofs`, for any programs, queues and descriptors: `SessionTypeCorrect`,
`NothingEarly` (`NothingEncryptedEarly`) and `HandlerThere` (`HandlerWaits`).
Whatever shows that the session stands, a message on its way, a number a client
has, a running proxy, does so only when it stands (`EvidenceHolds`); this is
inductive because the session comes up in turns, of whose messages at most one is
on its way (`TakingTurns`, `Handshake`). `NothingEarly` is what `SendQueue` takes
for granted in the guard of `SendEncrypted`.

`ShutdownProofs`, for any set of clients: `ShutdownTypeCorrect`, `NoSilence`
(`NoSilentDeath`), by the two conjuncts of `PumpsHeard`, and `NobodyLeftBehind`
(`NoThreadLeftBehind`): the destructor's loop, until it is broken, has before it
whoever is listed and runs (`Visited`), and who is no longer listed is in its last
slot (`Unlisted`). The theorems say nothing of what a broken loop does.

`LifecycleProofs`, for any number of strings, timeouts, bus events, signals and
faults: `LifeTypeCorrect` (with `InPlace`: the UDC is bound to a gadget that is
there and mounted), `SwitchCompletes` (`ReturnsSwitched`) and `LeavesNothing`
(`NothingLeft`). In the switch the request that is not answered is the host's,
unless the host has begun anew, which cancels it (`Unanswered`, `Unread`,
`Batch`); so what has been announced is what the host has said (`Told`). The same
facts say that a switch fails only over a cancelled request, which `LeavesNothing`
needs for the ways out of the program. `Clean` says what there is at each place in
a run that nothing hampers: what main owns there (`Owned`) and what the removals
so far have left; for the latter it needs to know that the first part leaves only
what is the first gadget's (`RemovalStep`), so that the second finds its name free
and its mount is its own.

`ClientSessionProofs`, for any order in which the phone opens its channels and any
number of packets, unasked messages and failures: `ClientTypeCorrect`,
`OnlyEarlyCrashes` (`CrashesOnlyEarly`) and `RelaysInOrder` (`RelayedInOrder`). As
the program may end in any step and nothing happens afterwards, the invariant has
two halves: `Alive` while it runs, from which every step concludes what is left
when it ends (`Promises`).

* A missing handler is met only early, as the phone opens channels only when it
  has the answer to its question, and the answer is queued only when all handlers
  are made (`Discovery`). A second question would make them anew one by one; it
  could come only of a second authentication. Authentication is queued once, but
  a retry may repeat it: the copy then reaches the phone before the answer, since
  the queue keeps their order (`AuthOnce`, `AuthFirst`), and the question it
  brings comes before the first packet, so the pipeline is not lost under the
  packets that need it (`Streaming`).
* A missing TLS session is met only early, as what AAClient says by itself before
  is plain (`BeforeTLS`) and it has nothing to send for a handler (`BeforeServing`).
* Order: the numbers up to the last one the relay has read are each passed, in
  hand, queued or dropped, and rise along this way (`InOrder`). While a message is
  in hand whose bytes have gone (`arrived`), it is both in hand and passed.
* `ClientTypeOK` bounds the acknowledgements by the packets: each one queued, in
  hand or on the wire, and each packet not handled, is a packet of its own
  (`Counted`); a repeated acknowledgement is not counted, as it ends the phone's
  session.

Assumptions: those the modules name (`MaxSizeAssumption`, `SizesAssumption`,
`BoundsAssumption`, `FaultAssumption`, `InputAssumption`, `InputBounds`,
`VideoBounds`, `SessionBounds`, `OpeningAssumption`, `ClientBounds`, `SwitchBounds`,
`FaultsAssumption`), which say that bounds are numbers, that the phone opens every
channel, that a set of clients is finite, that proxies are not tools, that a header
fits a packet and a buffer is a multiple of packets. For
`DeliveryIsWhole` and `LinkIsFifo` there is also `FaultPoints \subseteq {"between"}`;
`FrameLinkFault` shows that they fail without it. The model itself has the guard
of `SendEncrypted` (see section 2), on which `OwnRecordHolds` rests.

Only model-checked: the liveness properties `EveryMessageReturned`,
`FramesHandled`, `OpenCompletes`, `DepartureNoticed`, `VideoFlows`,
`FocusAnswered`, `DescriptionComes`, `ProxyGetsIn`, `AllPumpsEnd`, `Quits`,
`SessionServed`, `ServesAgain` and `InterruptEnds` (fairness and ENABLED are out
of the prover's reach), and that the four violated properties are violated. No
proof is by induction over data: where a property counts what is in a queue it is stated by a
numbering (`EventsCounted`, `FocusCounted`) or by indices (`AskedInOrder`), and
`WithoutRequests` names what is left of a batch instead of filtering it.

## 6. Not modelled

* The bytes: protobuf encoding, big-endian lengths, the 16-bit length of a plain
  frame; the check of a frame's length on arrival is one of the ways to lose it
  (`LoseFrame`). TLS is the records it leaves
  in a BIO; what happens inside OpenSSL when two threads use one session is not
  in this repository.
* Undefined behaviour without an outcome to choose from: use of destroyed locals
  of main by late slots, and main's `std::map` of clients, torn between the
  listening thread, the clients' threads and ep2. For the two `std::set`s the
  outcomes are modelled: what a loop over one visits once the set has changed
  under it is any clients, of `registered_clients` also again (`Stray`), or freed
  memory, which is the end of the program (`Stray`, `Crash`). A call through a
  null handler is an outcome in `ClientSession` (`ended = "null"`).
* The GStreamer pipeline beyond "a sample comes", X11, the attributes of the
  gadgets and the contents of descriptors, the device list, packet dump, the
  remaining scripts.
* A system call of `setup` that fails while a pump already runs is the end of the
  process (`SystemCallFails`); what the pump does in the same moment is left out.

## 7. Plan

In this order, most important first:

1. `Framing`, `SendQueue`, `FrameLink` with proofs; `InputChannel`,
   `VideoChannel`, `Session`, `Shutdown`, `ClientSession`, `ModeSwitch` with
   their runs. Done.
2. `FrameInput`, AAServer's side of the frames the head unit sends; `Lifecycle`,
   crash and restart around `ModeSwitch`. Done.
3. `Proxy`: phone, AAClient, socket, AAServer and head unit composed of abstract
   FIFOs, against "what the phone says reaches the head unit in order".
4. Proofs of the safety invariants of `FrameInput`, `InputChannel`,
   `VideoChannel`, `Session`, `Shutdown` and `Lifecycle`. Done.
5. Proofs: `CrashesOnlyEarly`, `RelayedInOrder` and `ClientTypeOK` of
   `ClientSession`. Done.
6. Proofs of what makes the findings the only exceptions: `NamesOfThisRun` for
   runs that no crash came before, and `DescriptionIsDescription` for a program
   that nothing is waiting for.
