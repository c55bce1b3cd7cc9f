---------------------------- MODULE VideoChannel ----------------------------
(***************************************************************************)
(* The server's video channel.  The constructor of the handler starts the  *)
(* pipeline; only then does handleServiceDiscoveryResponse connect the     *)
(* handler's signals.  The first sample makes the streaming thread open    *)
(* the channel, ask for the setup and wait for both answers, which the     *)
(* pump of ep2 brings; from then on a sample is a media message, with its  *)
(* time or without.  When the pipeline has no sample any more it is over.  *)
(***************************************************************************)
EXTENDS Naturals, Sequences

CONSTANTS MaxSamples,     \* bound: samples the pipeline delivers
          MaxIndications  \* bound: indications of the head unit

ASSUME VideoBounds == MaxSamples \in Nat /\ MaxIndications \in Nat

VARIABLES
    wiring,          \* "none", "playing" (handler constructed), "client", "wired"
    gst,             \* where the streaming thread is
    samples,         \* samples pulled so far
    firstSample,     \* the static of new_sample
    channelOpened, gotOpen, gotSetup,
    toHeadunit,      \* messages on their way to the head unit
    fromHeadunit,    \* and back
    indicated,       \* indications sent so far
    seen,            \* history: what the head unit has received
    leaked,          \* history: messages passed on to the clients
    starts,          \* history: start indications queued
    ep2              \* "serving" or "ended"

flagVars == <<channelOpened, gotOpen, gotSetup>>
streamVars == <<gst, samples, firstSample>>
historyVars == <<seen, leaked, starts>>
vars == <<wiring, streamVars, flagVars, toHeadunit, fromHeadunit, indicated, historyVars, ep2>>

Media == {"MediaIndication", "MediaWithTimestampIndication"}
Requests == {"OpenRequest", "SetupRequest", "StartIndication"} \union Media
Answers == {"OpenResponse", "SetupResponse", "MediaAck"}
Indications == {"VideoFocus", "Other"}

Init ==
    /\ wiring = "none"
    /\ gst = "idle" /\ samples = 0 /\ firstSample = TRUE
    /\ channelOpened = FALSE
    /\ gotOpen \in BOOLEAN /\ gotSetup \in BOOLEAN          \* not initialised
    /\ toHeadunit = <<>> /\ fromHeadunit = <<>> /\ indicated = 0
    /\ seen = <<>> /\ leaked = {} /\ starts = 0
    /\ ep2 = "serving"

-----------------------------------------------------------------------------
(* handleServiceDiscoveryResponse, on the pump of ep2: the handler with its *)
(* playing pipeline, the signal to the clients, the signal to the head unit.*)

NextWiring(w) == CASE w = "none" -> "playing" [] w = "playing" -> "client" [] w = "client" -> "wired"

Wire ==
    /\ wiring # "wired"
    /\ wiring' = NextWiring(wiring)
    /\ UNCHANGED <<streamVars, flagVars, toHeadunit, fromHeadunit, indicated, historyVars, ep2>>

-----------------------------------------------------------------------------
(* new_sample, on the streaming thread. *)

\* sendToHeadunit: a signal nobody is connected to does nothing.
Send(message) ==
    toHeadunit' = IF wiring = "wired" THEN Append(toHeadunit, message) ELSE toHeadunit

PullSample ==
    /\ wiring # "none" /\ gst = "idle" /\ samples < MaxSamples
    /\ samples' = samples + 1
    /\ gst' = IF firstSample THEN "open" ELSE "media"
    /\ UNCHANGED <<wiring, firstSample, flagVars, toHeadunit, fromHeadunit, indicated, historyVars, ep2>>

\* "NOSAMPLE": GST_FLOW_ERROR ends the stream, and nobody listens to the bus.
NoSample ==
    /\ wiring # "none" /\ gst = "idle"
    /\ gst' = "ended"
    /\ UNCHANGED <<wiring, samples, firstSample, flagVars, toHeadunit, fromHeadunit, indicated, historyVars, ep2>>

\* Mutant: the channel is not marked as ours.
MarkOpenedNot ==
    /\ gst = "open"
    /\ gotOpen' = FALSE
    /\ gst' = "sendOpen"
    /\ UNCHANGED <<wiring, samples, firstSample, channelOpened, gotSetup, toHeadunit, fromHeadunit, indicated, historyVars, ep2>>

\* channelOpened comes before the request.
MarkOpened ==
    /\ gst = "open"
    /\ channelOpened' = TRUE
    /\ gotOpen' = FALSE
    /\ gst' = "sendOpen"
    /\ UNCHANGED <<wiring, samples, firstSample, gotSetup, toHeadunit, fromHeadunit, indicated, historyVars, ep2>>

SendOpen ==
    /\ gst = "sendOpen"
    /\ Send("OpenRequest")
    /\ gst' = "waitOpen"
    /\ UNCHANGED <<wiring, samples, firstSample, flagVars, fromHeadunit, indicated, historyVars, ep2>>

\* Mutant: gotSetupResponse keeps its value.
ExpectOpenOnly ==
    /\ gst = "waitOpen" /\ gotOpen
    /\ gst' = "sendSetup"
    /\ UNCHANGED <<wiring, samples, firstSample, flagVars, toHeadunit, fromHeadunit, indicated, historyVars, ep2>>

ExpectOpen ==
    /\ gst = "waitOpen" /\ gotOpen
    /\ gotSetup' = FALSE
    /\ gst' = "sendSetup"
    /\ UNCHANGED <<wiring, samples, firstSample, channelOpened, gotOpen, toHeadunit, fromHeadunit, indicated, historyVars, ep2>>

SendSetup ==
    /\ gst = "sendSetup"
    /\ Send("SetupRequest")
    /\ gst' = "waitSetup"
    /\ UNCHANGED <<wiring, samples, firstSample, flagVars, fromHeadunit, indicated, historyVars, ep2>>

ExpectSetup ==
    /\ gst = "waitSetup" /\ gotSetup
    /\ gst' = "media"
    /\ UNCHANGED <<wiring, samples, firstSample, flagVars, toHeadunit, fromHeadunit, indicated, historyVars, ep2>>

SendMedia ==
    /\ gst = "media"
    /\ \E m \in Media : Send(m)
    /\ firstSample' = FALSE
    /\ gst' = "idle"
    /\ UNCHANGED <<wiring, samples, flagVars, fromHeadunit, indicated, historyVars, ep2>>

Stream == MarkOpened \/ SendOpen \/ ExpectOpen \/ SendSetup \/ ExpectSetup \/ SendMedia

-----------------------------------------------------------------------------
(* The head unit answers in order; once asked for the setup it may give    *)
(* the focus at any time, and at all times send what we do not know.       *)

Reply(m) ==
    CASE m = "OpenRequest" -> <<"OpenResponse">> [] m = "SetupRequest" -> <<"SetupResponse">>
      [] m \in Media -> <<"MediaAck">>          [] m = "StartIndication" -> <<>>

Headunit ==
    /\ toHeadunit # <<>>
    /\ seen' = Append(seen, toHeadunit[1])
    /\ fromHeadunit' = fromHeadunit \o Reply(toHeadunit[1])
    /\ toHeadunit' = Tail(toHeadunit)
    /\ UNCHANGED <<wiring, streamVars, flagVars, indicated, leaked, starts, ep2>>

Indicate ==
    /\ indicated < MaxIndications
    /\ indicated' = indicated + 1
    /\ \/ fromHeadunit' = Append(fromHeadunit, "Other")
       \/ /\ \E i \in 1..Len(seen) : seen[i] = "SetupRequest"
          /\ fromHeadunit' = Append(fromHeadunit, "VideoFocus")
    /\ UNCHANGED <<wiring, streamVars, flagVars, toHeadunit, historyVars, ep2>>

-----------------------------------------------------------------------------
(* handleMessageFromHeadunit, on the pump of ep2. *)

\* The pump takes message m.
Taken(m) ==
    /\ ep2 = "serving" /\ wiring = "wired" /\ fromHeadunit # <<>> /\ fromHeadunit[1] = m
    /\ fromHeadunit' = Tail(fromHeadunit)
    /\ UNCHANGED <<wiring, streamVars, channelOpened, indicated, seen>>

\* Before the channel is ours every message goes to all clients.
PassOn ==
    /\ ~channelOpened
    /\ \E m \in Answers \union Indications : Taken(m) /\ leaked' = leaked \union {m}
    /\ UNCHANGED <<gotOpen, gotSetup, toHeadunit, starts, ep2>>

HandleOpenResponse ==
    /\ channelOpened /\ Taken("OpenResponse")
    /\ gotOpen' = TRUE
    /\ UNCHANGED <<gotSetup, toHeadunit, leaked, starts, ep2>>

\* Mutant: the flag is not set.
HandleSetupResponseNot ==
    /\ channelOpened /\ Taken("SetupResponse")
    /\ UNCHANGED <<gotOpen, gotSetup, toHeadunit, leaked, starts, ep2>>

HandleSetupResponse ==
    /\ channelOpened /\ Taken("SetupResponse")
    /\ gotSetup' = TRUE
    /\ UNCHANGED <<gotOpen, toHeadunit, leaked, starts, ep2>>

\* Mutant: no start indication.
HandleVideoFocusNot ==
    /\ channelOpened /\ Taken("VideoFocus")
    /\ UNCHANGED <<gotOpen, gotSetup, toHeadunit, leaked, starts, ep2>>

\* Mutant: the indication stays where it was.
HandleVideoFocusAgain ==
    /\ channelOpened /\ ep2 = "serving"
    /\ fromHeadunit # <<>> /\ fromHeadunit[1] = "VideoFocus"
    /\ Send("StartIndication")
    /\ starts' = starts + 1
    /\ UNCHANGED <<wiring, streamVars, flagVars, fromHeadunit, indicated, seen, leaked, ep2>>

HandleVideoFocus ==
    /\ channelOpened /\ Taken("VideoFocus")
    /\ Send("StartIndication")
    /\ starts' = starts + 1
    /\ UNCHANGED <<gotOpen, gotSetup, leaked, ep2>>

HandleMediaAck ==
    /\ channelOpened /\ Taken("MediaAck")
    /\ UNCHANGED <<gotOpen, gotSetup, toHeadunit, leaked, starts, ep2>>

\* Not handled: handleChannelMessage throws and the pump ends.
HandleOther ==
    /\ channelOpened /\ Taken("Other")
    /\ ep2' = "ended"
    /\ UNCHANGED <<gotOpen, gotSetup, toHeadunit, leaked, starts>>

Ep2 ==
    \/ Wire \/ PassOn \/ HandleOpenResponse \/ HandleSetupResponse
    \/ HandleVideoFocus \/ HandleMediaAck \/ HandleOther

Next == Ep2 \/ PullSample \/ NoSample \/ Stream \/ Headunit \/ Indicate

Spec == Init /\ [][Next]_vars

\* The threads run and the head unit answers.
FairSpec == Spec /\ WF_vars(Ep2) /\ WF_vars(Stream) /\ WF_vars(Headunit)

-----------------------------------------------------------------------------
(* Properties. *)

\* The types of the variables.
VideoTypeOK ==
    /\ wiring \in {"none", "playing", "client", "wired"}
    /\ gst \in {"idle", "open", "sendOpen", "waitOpen", "sendSetup", "waitSetup", "media", "ended"}
    /\ samples \in 0..MaxSamples /\ indicated \in 0..MaxIndications
    /\ starts \in 0..MaxIndications
    /\ {firstSample, channelOpened, gotOpen, gotSetup} \subseteq BOOLEAN
    /\ toHeadunit \in Seq(Requests) /\ seen \in Seq(Requests)
    /\ fromHeadunit \in Seq(Answers \union Indications)
    /\ leaked \subseteq Answers \union Indications
    /\ ep2 \in {"serving", "ended"}

\* The answers to our own requests are never taken for the clients' traffic:
\* the channel is marked as ours before the first request can be answered.
NoAnswerLeaks == leaked \intersect Answers = {}

\* The head unit is never sent media before it has opened the channel and
\* answered the setup, and is asked for each exactly once, although the flags
\* start with any value and the answers come on another thread.
Sent == seen \o toHeadunit
AskedInOrder(q) ==
    /\ \A i \in 1..Len(q) : q[i] = "SetupRequest" => \E j \in 1..(i - 1) : q[j] = "OpenRequest"
    /\ \A i \in 1..Len(q) : q[i] \in Media => \E j \in 1..(i - 1) : q[j] = "SetupRequest"
    /\ \A i, j \in 1..Len(q) : q[i] = q[j] /\ q[i] \in {"OpenRequest", "SetupRequest"} => i = j
MediaAfterSetup ==
    /\ AskedInOrder(Sent)
    /\ (\E i \in 1..Len(toHeadunit) : toHeadunit[i] \in Media)
          => \E i \in 1..Len(seen) : seen[i] = "SetupRequest"

\* The channel is opened once: by the first sample, if the signals were
\* connected when it came; if not, the request is lost and the streaming
\* thread waits for ever.
VideoFlows == (gst = "sendOpen" /\ wiring = "wired") ~> (gst = "idle" \/ ep2 = "ended")

\* Every focus indication is answered, in the middle of whatever the streaming
\* thread is doing.
FocusAnswered ==
    \A n \in 1..MaxIndications :
        (n <= Len(SelectSeq(fromHeadunit, LAMBDA m : m = "VideoFocus")) + starts)
            ~> (starts >= n \/ ep2 = "ended")
=============================================================================
