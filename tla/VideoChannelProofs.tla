------------------------- MODULE VideoChannelProofs -------------------------
(***************************************************************************)
(* Proofs about VideoChannel, for any number of samples and indications:   *)
(* its types, that no answer to our own requests goes to the clients, and  *)
(* that media follow the setup.                                            *)
(***************************************************************************)
EXTENDS VideoChannel, Integers, SequenceTheorems, TLAPS

-----------------------------------------------------------------------------
(* The inductive invariant.                                                *)

Elements(q) == {q[i] : i \in 1..Len(q)}

\* ranks numbers the indications of focus in q, in order, up to n.
Ranks(ranks, n, q) ==
    /\ ranks \in [1..Len(q) -> Nat]
    /\ \A i \in 1..Len(q) : q[i] = "VideoFocus" => ranks[i] \in 1..n
    /\ \A i, j \in 1..Len(q) : q[i] = "VideoFocus" /\ q[j] = "VideoFocus" /\ i < j => ranks[i] < ranks[j]

\* The indications answered and those of focus on their way are among those sent.
FocusCounted == starts <= indicated /\ \E ranks : Ranks(ranks, indicated - starts, fromHeadunit)

\* The requests of the streaming thread.
Ours == {"OpenRequest", "SetupRequest"} \union Media

\* Only a first sample opens the channel, and the channel is then marked as ours.
Fresh == firstSample /\ gst \in {"idle", "ended", "open"}
MarkedFirst ==
    /\ ~Fresh => channelOpened
    /\ gst = "open" => firstSample
    /\ Elements(toHeadunit) \intersect Ours # {} => channelOpened
    /\ Elements(fromHeadunit) \intersect Answers # {} => channelOpened

\* Nothing is asked before its time; what is sent goes through connected signals.
AskedOnce ==
    /\ Fresh \/ gst = "sendOpen" => Elements(Sent) \intersect Ours = {}
    /\ gst \in {"waitOpen", "sendSetup"} => "SetupRequest" \notin Elements(Sent)
    /\ Elements(Sent) # {} => wiring = "wired"

\* Where the streaming thread goes on, the head unit has been asked.
AnsweredFor ==
    /\ gst = "sendOpen" => ~gotOpen
    /\ gst = "sendSetup" => ~gotSetup
    /\ (gst = "waitOpen" /\ gotOpen) \/ gst = "sendSetup" => "OpenRequest" \in Elements(seen)
    /\ (gst = "waitSetup" /\ gotSetup) \/ gst = "media" \/ ~firstSample => "SetupRequest" \in Elements(seen)
    /\ "OpenResponse" \in Elements(fromHeadunit) => "OpenRequest" \in Elements(seen)
    /\ "SetupResponse" \in Elements(fromHeadunit) => "SetupRequest" \in Elements(seen)
    /\ Elements(toHeadunit) \intersect Media # {} => "SetupRequest" \in Elements(seen)

Conversation == MarkedFirst /\ AskedOnce /\ AnsweredFor /\ AskedInOrder(Sent) /\ NoAnswerLeaks

IInv == VideoTypeOK /\ FocusCounted /\ Conversation

-----------------------------------------------------------------------------
(* Queues.                                                                 *)

\* A message more.
LEMMA Appended ==
    ASSUME NEW S, NEW q \in Seq(S), NEW e \in S
    PROVE  /\ Append(q, e) \in Seq(S)
           /\ Elements(Append(q, e)) = Elements(q) \union {e}
<1>1. /\ Append(q, e) \in Seq(S) /\ Len(Append(q, e)) = Len(q) + 1
      /\ \A i \in 1..Len(q) : Append(q, e)[i] = q[i]
      /\ Append(q, e)[Len(q) + 1] = e /\ Len(q) \in Nat
  OBVIOUS
<1>2. \A i \in 1..(Len(q) + 1) : i \in 1..Len(q) \/ i = Len(q) + 1
  BY <1>1
<1>3. 1..Len(q) \subseteq 1..(Len(q) + 1) /\ Len(q) + 1 \in 1..(Len(q) + 1)
  BY <1>1
<1>. QED BY <1>1, <1>2, <1>3 DEF Elements

\* The first is taken.
LEMMA First ==
    ASSUME NEW S, NEW q \in Seq(S), q # <<>>
    PROVE  /\ q[1] \in Elements(q) /\ q[1] \in S
           /\ Tail(q) \in Seq(S)
           /\ Elements(Tail(q)) \subseteq Elements(q)
<1>1. /\ Tail(q) \in Seq(S) /\ Len(q) \in Nat /\ Len(q) > 0 /\ Len(Tail(q)) = Len(q) - 1
      /\ \A i \in 1..Len(Tail(q)) : Tail(q)[i] = q[i + 1] /\ i + 1 \in 1..Len(q)
  OBVIOUS
<1>2. 1 \in 1..Len(q) /\ q[1] \in S
  BY <1>1
<1>. QED BY <1>1, <1>2 DEF Elements

\* Two queues in a row.
LEMMA InARow ==
    ASSUME NEW S, NEW q \in Seq(S), NEW r \in Seq(S)
    PROVE  /\ q \o r \in Seq(S)
           /\ Elements(q) \subseteq Elements(q \o r) /\ Elements(r) \subseteq Elements(q \o r)
           /\ \A m \in S : q \o Append(r, m) = Append(q \o r, m)
           /\ r # <<>> => Append(q, r[1]) \o Tail(r) = q \o r
<1>1. /\ q \o r \in Seq(S) /\ Len(q \o r) = Len(q) + Len(r)
      /\ Len(q) \in Nat /\ Len(r) \in Nat
      /\ \A i \in 1..Len(q) : (q \o r)[i] = q[i] /\ i \in 1..(Len(q) + Len(r))
      /\ \A i \in 1..Len(r) : (q \o r)[Len(q) + i] = r[i] /\ Len(q) + i \in 1..(Len(q) + Len(r))
  OBVIOUS
<1>2. Elements(q) \subseteq Elements(q \o r)
  BY <1>1 DEF Elements
<1>3. Elements(r) \subseteq Elements(q \o r)
  BY <1>1 DEF Elements
<1>4. ASSUME NEW m \in S
      PROVE  q \o Append(r, m) = Append(q \o r, m)
  <2>1. /\ q \o Append(r, m) \in Seq(S) /\ Append(q \o r, m) \in Seq(S)
        /\ Len(q \o Append(r, m)) = Len(q) + Len(r) + 1
        /\ Len(Append(q \o r, m)) = Len(q) + Len(r) + 1
        /\ \A i \in 1..(Len(q) + Len(r) + 1) : (q \o Append(r, m))[i] = Append(q \o r, m)[i]
    BY <1>1
  <2>. QED BY <2>1, SeqEqual
<1>5. ASSUME r # <<>>
      PROVE  Append(q, r[1]) \o Tail(r) = q \o r
  <2>1. r[1] \in S
    BY <1>5
  <2>2. /\ Append(q, r[1]) \o Tail(r) \in Seq(S)
        /\ Len(Append(q, r[1]) \o Tail(r)) = Len(q) + Len(r)
        /\ \A i \in 1..(Len(q) + Len(r)) : (Append(q, r[1]) \o Tail(r))[i] = (q \o r)[i]
    BY <1>1, <1>5, <2>1
  <2>. QED BY <1>1, <2>2, SeqEqual
<1>. QED BY <1>1, <1>2, <1>3, <1>4, <1>5

\* What may be asked for next.
LEMMA AskedNext ==
    ASSUME NEW S, NEW q \in Seq(S), AskedInOrder(q), NEW m \in S,
           m \in {"OpenRequest", "SetupRequest"} => m \notin Elements(q),
           m = "SetupRequest" => "OpenRequest" \in Elements(q),
           m \in Media => "SetupRequest" \in Elements(q)
    PROVE  AskedInOrder(Append(q, m))
<1>. DEFINE n == Len(q)
            r == Append(q, m)
<1>1. /\ n \in Nat /\ Len(r) = n + 1
      /\ \A i \in 1..n : r[i] = q[i]
      /\ r[n + 1] = m
  OBVIOUS
<1>2. \A i \in 1..(n + 1) : i \in 1..n \/ i = n + 1
  BY <1>1
<1>3. \A i \in 1..n : i \in 1..(n + 1) /\ \A j \in 1..(i - 1) : j \in 1..n
  BY <1>1
<1>. HIDE DEF n, r
<1>4. ASSUME NEW i \in 1..(n + 1), r[i] = "SetupRequest"
      PROVE  \E j \in 1..(i - 1) : r[j] = "OpenRequest"
  <2>1. CASE i \in 1..n
    BY <1>1, <1>3, <1>4, <2>1 DEF AskedInOrder, n
  <2>2. CASE i = n + 1
    <3>1. PICK j \in 1..n : q[j] = "OpenRequest"
      BY <1>1, <1>4, <2>2 DEF Elements, n
    <3>. QED BY <1>1, <2>2, <3>1
  <2>. QED BY <1>2, <2>1, <2>2
<1>5. ASSUME NEW i \in 1..(n + 1), r[i] \in Media
      PROVE  \E j \in 1..(i - 1) : r[j] = "SetupRequest"
  <2>1. CASE i \in 1..n
    BY <1>1, <1>3, <1>5, <2>1 DEF AskedInOrder, n
  <2>2. CASE i = n + 1
    <3>1. PICK j \in 1..n : q[j] = "SetupRequest"
      BY <1>1, <1>5, <2>2 DEF Elements, n
    <3>. QED BY <1>1, <2>2, <3>1
  <2>. QED BY <1>2, <2>1, <2>2
<1>6. ASSUME NEW i \in 1..(n + 1), NEW j \in 1..(n + 1), r[i] = r[j], r[i] \in {"OpenRequest", "SetupRequest"}
      PROVE  i = j
  <2>1. i = n + 1 \/ j = n + 1 => m \in {"OpenRequest", "SetupRequest"}
    BY <1>1, <1>6
  <2>2. CASE i \in 1..n /\ j \in 1..n
    BY <1>1, <1>6, <2>2 DEF AskedInOrder, n
  <2>3. CASE i \in 1..n /\ j = n + 1
    BY <1>1, <1>6, <2>1, <2>3 DEF Elements, n
  <2>4. CASE i = n + 1 /\ j \in 1..n
    BY <1>1, <1>6, <2>1, <2>4 DEF Elements, n
  <2>. QED BY <1>2, <2>2, <2>3, <2>4
<1>. QED BY <1>1, <1>4, <1>5, <1>6 DEF AskedInOrder, n, r

-----------------------------------------------------------------------------
(* Types.                                                                  *)

Incoming == Answers \union Indications

\* What the types say of the sequences, and of the answers to the requests.
LEMMA Sequences ==
    ASSUME VideoTypeOK
    PROVE  /\ toHeadunit \in Seq(Requests) /\ seen \in Seq(Requests) /\ fromHeadunit \in Seq(Incoming)
           /\ \A m \in Requests : Reply(m) = <<>> \/ \E a \in Answers : Reply(m) = <<a>>
BY DEF VideoTypeOK, Incoming, Requests, Media, Answers, Reply

\* An answer or none more.
LEMMA Replied ==
    ASSUME NEW q \in Seq(Incoming), NEW m \in Requests
    PROVE  q \o Reply(m) = q \/ \E a \in Answers : Reply(m) = <<a>> /\ q \o Reply(m) = Append(q, a)
<1>1. CASE Reply(m) = <<>>
  BY <1>1
<1>2. ASSUME NEW a \in Answers, Reply(m) = <<a>>
      PROVE  q \o Reply(m) = Append(q, a)
  <2>1. a \in Incoming
    BY DEF Incoming
  <2>2. /\ q \o <<a>> \in Seq(Incoming) /\ Append(q, a) \in Seq(Incoming)
        /\ Len(q \o <<a>>) = Len(Append(q, a))
        /\ \A i \in 1..Len(q \o <<a>>) : (q \o <<a>>)[i] = Append(q, a)[i]
    BY <2>1
  <2>. QED BY <1>2, <2>2, SeqEqual
<1>3. Reply(m) = <<>> \/ \E a \in Answers : Reply(m) = <<a>>
  BY DEF Requests, Media, Answers, Reply
<1>. QED BY <1>1, <1>2, <1>3

\* Whoever is to be answered has been sent an indication.
LEMMA FocusDue ==
    ASSUME VideoTypeOK, FocusCounted, fromHeadunit # <<>>, fromHeadunit[1] = "VideoFocus"
    PROVE  starts + 1 <= indicated
<1>1. PICK ranks : Ranks(ranks, indicated - starts, fromHeadunit)
  BY DEF FocusCounted
<1>2. 1 \in 1..Len(fromHeadunit)
  BY Sequences
<1>3. ranks[1] \in 1..(indicated - starts)
  BY <1>1, <1>2 DEF Ranks
<1>. QED BY <1>3 DEF VideoTypeOK

\* Every step keeps the types.
LEMMA VideoTypeStep ==
    ASSUME VideoTypeOK, FocusCounted, [Next]_vars
    PROVE  VideoTypeOK'
<1>. USE VideoBounds DEF VideoTypeOK, flagVars, streamVars, historyVars, Send
<1>1. \A m \in Requests : Append(toHeadunit, m) \in Seq(Requests)
  OBVIOUS
<1>2. fromHeadunit # <<>> => Tail(fromHeadunit) \in Seq(Answers \union Indications)
  OBVIOUS
<1>3. Wire \/ PullSample \/ NoSample => VideoTypeOK'
  BY DEF Wire, NextWiring, PullSample, NoSample
<1>4. MarkOpened => VideoTypeOK'
  BY DEF MarkOpened
<1>5. SendOpen \/ SendSetup \/ SendMedia => VideoTypeOK'
  <2>1. {"OpenRequest", "SetupRequest"} \union Media \subseteq Requests
    BY DEF Requests
  <2>2. SendOpen => VideoTypeOK'
    BY <1>1, <2>1 DEF SendOpen
  <2>3. SendSetup => VideoTypeOK'
    BY <1>1, <2>1 DEF SendSetup
  <2>4. SendMedia => VideoTypeOK'
    BY <1>1, <2>1 DEF SendMedia
  <2>. QED BY <2>2, <2>3, <2>4
<1>6. ExpectOpen \/ ExpectSetup => VideoTypeOK'
  BY DEF ExpectOpen, ExpectSetup
<1>7. Headunit => VideoTypeOK'
  <2>. SUFFICES ASSUME Headunit PROVE VideoTypeOK'
    OBVIOUS
  <2>1. /\ toHeadunit[1] \in Requests /\ Tail(toHeadunit) \in Seq(Requests)
        /\ Append(seen, toHeadunit[1]) \in Seq(Requests)
    BY DEF Headunit
  <2>2. fromHeadunit \o Reply(toHeadunit[1]) \in Seq(Answers \union Indications)
    <3>1. \A a \in Answers : Append(fromHeadunit, a) \in Seq(Answers \union Indications)
      OBVIOUS
    <3>2. \/ fromHeadunit \o Reply(toHeadunit[1]) = fromHeadunit
          \/ \E a \in Answers : fromHeadunit \o Reply(toHeadunit[1]) = Append(fromHeadunit, a)
      BY <2>1, Replied DEF Incoming
    <3>. QED BY <3>1, <3>2
  <2>. QED BY <2>1, <2>2 DEF Headunit
<1>8. Indicate => VideoTypeOK'
  <2>1. Indicate => \E m \in Indications : fromHeadunit' = Append(fromHeadunit, m)
    BY DEF Indicate, Indications
  <2>2. \A m \in Indications : Append(fromHeadunit, m) \in Seq(Answers \union Indications)
    OBVIOUS
  <2>3. Indicate => fromHeadunit' \in Seq(Answers \union Indications)
    BY <2>1, <2>2
  <2>. QED BY <2>3 DEF Indicate
<1>9. PassOn => VideoTypeOK'
  BY <1>2 DEF PassOn, Taken
<1>10. HandleOpenResponse \/ HandleSetupResponse \/ HandleMediaAck \/ HandleOther => VideoTypeOK'
  BY <1>2 DEF HandleOpenResponse, HandleSetupResponse, HandleMediaAck, HandleOther, Taken
<1>11. HandleVideoFocus => VideoTypeOK'
  <2>. SUFFICES ASSUME HandleVideoFocus PROVE VideoTypeOK'
    OBVIOUS
  <2>1. starts + 1 <= indicated
    BY FocusDue DEF HandleVideoFocus, Taken
  <2>2. "StartIndication" \in Requests
    BY DEF Requests
  <2>. QED BY <1>1, <1>2, <2>1, <2>2 DEF HandleVideoFocus, Taken
<1>12. UNCHANGED vars => VideoTypeOK'
  BY DEF vars
<1>. QED BY <1>3, <1>4, <1>5, <1>6, <1>7, <1>8, <1>9, <1>10, <1>11, <1>12 DEF Next, Ep2, Stream

-----------------------------------------------------------------------------
(* The indications of focus.                                               *)

\* One more on its way, another message more, the first message taken.
LEMMA RankAppended ==
    ASSUME NEW n \in Nat, NEW q \in Seq(Incoming), NEW m \in Incoming, NEW ranks, Ranks(ranks, n, q)
    PROVE  /\ \E r : Ranks(r, n + 1, Append(q, m))
           /\ m # "VideoFocus" => \E r : Ranks(r, n, Append(q, m))
<1>. DEFINE l == Len(q)
            r == [i \in 1..(l + 1) |-> IF i = l + 1 THEN n + 1 ELSE ranks[i]]
            s == Append(q, m)
<1>1. /\ l \in Nat /\ Len(s) = l + 1 /\ s[l + 1] = m
      /\ \A i \in 1..l : s[i] = q[i]
      /\ \A i \in 1..(l + 1) : i \in 1..l \/ i = l + 1
  OBVIOUS
<1>2. /\ r \in [1..(l + 1) -> Nat] /\ r[l + 1] = n + 1
      /\ \A i \in 1..l : r[i] = ranks[i]
  BY <1>1 DEF Ranks
<1>3. /\ \A i \in 1..l : s[i] = "VideoFocus" => r[i] \in 1..n
      /\ \A i, j \in 1..l : s[i] = "VideoFocus" /\ s[j] = "VideoFocus" /\ i < j => r[i] < r[j]
  BY <1>1, <1>2 DEF Ranks
<1>. HIDE DEF l, r, s
<1>4. Ranks(r, n + 1, s)
  BY <1>1, <1>2, <1>3 DEF Ranks
<1>5. m # "VideoFocus" => Ranks(r, n, s)
  BY <1>1, <1>2, <1>3 DEF Ranks
<1>. QED BY <1>4, <1>5 DEF s

LEMMA RankTaken ==
    ASSUME NEW n \in Nat, NEW q \in Seq(Incoming), q # <<>>, NEW ranks, Ranks(ranks, n, q)
    PROVE  /\ \E r : Ranks(r, n, Tail(q))
           /\ q[1] = "VideoFocus" => \E r : Ranks(r, n - 1, Tail(q))
<1>. DEFINE s == Tail(q)
            r == [i \in 1..Len(s) |-> ranks[i + 1]]
            p == [i \in 1..Len(s) |-> IF s[i] = "VideoFocus" THEN ranks[i + 1] - 1 ELSE 0]
<1>1. /\ Len(q) \in Nat /\ Len(s) \in Nat /\ Len(s) = Len(q) - 1
      /\ \A i \in 1..Len(s) : s[i] = q[i + 1] /\ i + 1 \in 1..Len(q)
      /\ 1 \in 1..Len(q)
  OBVIOUS
<1>2. /\ \A i \in 1..Len(s) : s[i] = "VideoFocus" => ranks[i + 1] \in 1..n
      /\ \A i, j \in 1..Len(s) : s[i] = "VideoFocus" /\ s[j] = "VideoFocus" /\ i < j => ranks[i + 1] < ranks[j + 1]
      /\ \A i \in 1..Len(s) : ranks[i + 1] \in Nat
  BY <1>1 DEF Ranks
<1>3. Ranks(r, n, s)
  BY <1>1, <1>2 DEF Ranks
<1>4. ASSUME q[1] = "VideoFocus"
      PROVE  Ranks(p, n - 1, s)
  <2>1. ranks[1] \in 1..n
    BY <1>1, <1>4 DEF Ranks
  <2>2. \A i \in 1..Len(s) : s[i] = "VideoFocus" => ranks[1] < ranks[i + 1]
    BY <1>1, <1>4 DEF Ranks
  <2>3. \A i \in 1..Len(s) : s[i] = "VideoFocus" => ranks[i + 1] - 1 \in 1..(n - 1)
    BY <1>2, <2>1, <2>2
  <2>4. /\ p \in [1..Len(s) -> Nat]
        /\ \A i \in 1..Len(s) : s[i] = "VideoFocus" => p[i] = ranks[i + 1] - 1
    BY <2>3
  <2>. HIDE DEF s, p
  <2>5. /\ \A i \in 1..Len(s) : s[i] = "VideoFocus" => p[i] \in 1..(n - 1)
        /\ \A i, j \in 1..Len(s) : s[i] = "VideoFocus" /\ s[j] = "VideoFocus" /\ i < j => p[i] < p[j]
    <3>1. \A i \in 1..Len(s) : s[i] = "VideoFocus" => p[i] \in 1..(n - 1)
      BY <2>3, <2>4
    <3>2. ASSUME NEW i \in 1..Len(s), NEW j \in 1..Len(s), s[i] = "VideoFocus", s[j] = "VideoFocus", i < j
          PROVE  p[i] < p[j]
      <4>1. p[i] = ranks[i + 1] - 1 /\ p[j] = ranks[j + 1] - 1
        BY <2>4, <3>2
      <4>2. ranks[i + 1] < ranks[j + 1] /\ ranks[i + 1] \in Nat /\ ranks[j + 1] \in Nat
        BY <1>2, <3>2
      <4>. QED BY <4>1, <4>2
    <3>. QED BY <3>1, <3>2
  <2>. QED BY <2>4, <2>5 DEF Ranks
<1>. QED BY <1>3, <1>4

\* Every step keeps count of the indications of focus.
LEMMA FocusStep ==
    ASSUME VideoTypeOK, FocusCounted, [Next]_vars
    PROVE  FocusCounted'
<1>. USE DEF flagVars, streamVars, historyVars
<1>. DEFINE n == indicated - starts
<1>1. PICK ranks : Ranks(ranks, n, fromHeadunit)
  BY DEF FocusCounted
<1>2. n \in Nat /\ starts \in Nat /\ indicated \in Nat /\ fromHeadunit \in Seq(Incoming) /\ toHeadunit \in Seq(Requests)
  BY Sequences, VideoBounds DEF FocusCounted, VideoTypeOK
<1>3. UNCHANGED <<starts, indicated, fromHeadunit>> => FocusCounted'
  BY DEF FocusCounted
<1>4. Headunit => FocusCounted'
  <2>. SUFFICES ASSUME Headunit PROVE FocusCounted'
    OBVIOUS
  <2>1. /\ UNCHANGED <<starts, indicated>>
        /\ fromHeadunit' = fromHeadunit \/ \E a \in Answers : fromHeadunit' = Append(fromHeadunit, a)
    <3>1. toHeadunit[1] \in Requests
      BY <1>2 DEF Headunit
    <3>. QED BY <1>2, <3>1, Replied DEF Headunit
  <2>2. ASSUME NEW a \in Answers, fromHeadunit' = Append(fromHeadunit, a)
        PROVE  \E r : Ranks(r, n, fromHeadunit')
    <3>1. a \in Incoming /\ a # "VideoFocus"
      BY DEF Incoming, Answers
    <3>. QED BY <1>1, <1>2, <2>2, <3>1, RankAppended
  <2>3. \E r : Ranks(r, n, fromHeadunit')
    BY <1>1, <2>1, <2>2
  <2>. QED BY <2>1, <2>3 DEF FocusCounted
<1>5. Indicate => FocusCounted'
  <2>. SUFFICES ASSUME Indicate PROVE FocusCounted'
    OBVIOUS
  <2>1. PICK m \in Incoming : fromHeadunit' = Append(fromHeadunit, m)
    BY DEF Indicate, Incoming, Indications
  <2>2. \E r : Ranks(r, n + 1, fromHeadunit')
    BY <1>1, <1>2, <2>1, RankAppended
  <2>3. UNCHANGED starts /\ indicated' = indicated + 1 /\ n + 1 = indicated' - starts'
    BY <1>2 DEF Indicate
  <2>. QED BY <1>2, <2>2, <2>3 DEF FocusCounted
<1>6. ASSUME NEW m, Taken(m), UNCHANGED starts
      PROVE  FocusCounted'
  <2>1. \E r : Ranks(r, n, fromHeadunit')
    BY <1>1, <1>2, <1>6, RankTaken DEF Taken
  <2>2. UNCHANGED <<starts, indicated>>
    BY <1>6 DEF Taken
  <2>. QED BY <2>1, <2>2 DEF FocusCounted
<1>7. HandleVideoFocus => FocusCounted'
  <2>. SUFFICES ASSUME HandleVideoFocus PROVE FocusCounted'
    OBVIOUS
  <2>1. \E r : Ranks(r, n - 1, fromHeadunit')
    BY <1>1, <1>2, RankTaken DEF HandleVideoFocus, Taken
  <2>2. starts + 1 <= indicated
    BY FocusDue DEF HandleVideoFocus, Taken
  <2>3. starts' = starts + 1 /\ indicated' = indicated /\ n - 1 = indicated' - starts'
    BY <1>2 DEF HandleVideoFocus, Taken
  <2>. QED BY <2>1, <2>2, <2>3 DEF FocusCounted
<1>8. PassOn \/ HandleOpenResponse \/ HandleSetupResponse \/ HandleMediaAck \/ HandleOther => FocusCounted'
  BY <1>6 DEF PassOn, HandleOpenResponse, HandleSetupResponse, HandleMediaAck, HandleOther
<1>9. Wire \/ PullSample \/ NoSample \/ Stream \/ UNCHANGED vars => UNCHANGED <<starts, indicated, fromHeadunit>>
  BY DEF Wire, PullSample, NoSample, Stream, MarkOpened, SendOpen, ExpectOpen, SendSetup, ExpectSetup, SendMedia, vars
<1>. QED BY <1>3, <1>4, <1>5, <1>7, <1>8, <1>9 DEF Next, Ep2

-----------------------------------------------------------------------------
(* The conversation with the head unit.                                    *)

\* A step that neither sends nor takes, and leaves the streaming thread.
LEMMA QuietConversation ==
    ASSUME Conversation, UNCHANGED <<streamVars, flagVars, toHeadunit, fromHeadunit, seen, leaked>>,
           wiring = "wired" => wiring' = "wired"
    PROVE  Conversation'
BY DEF Conversation, MarkedFirst, Fresh, AskedOnce, AnsweredFor, AskedInOrder, NoAnswerLeaks, Sent,
   streamVars, flagVars

\* Every step keeps the order of requests and answers.
LEMMA ConversationStep ==
    ASSUME VideoTypeOK, Conversation, [Next]_vars
    PROVE  Conversation'
<1>. USE DEF flagVars, streamVars, historyVars
<1>1. /\ toHeadunit \in Seq(Requests) /\ seen \in Seq(Requests) /\ fromHeadunit \in Seq(Incoming)
      /\ Sent \in Seq(Requests) /\ Elements(seen) \subseteq Elements(Sent) /\ Elements(toHeadunit) \subseteq Elements(Sent)
      /\ MarkedFirst /\ AskedOnce /\ AnsweredFor /\ AskedInOrder(Sent) /\ NoAnswerLeaks
  BY Sequences, InARow DEF Conversation, Sent
<1>2. wiring \in {"none", "playing", "client", "wired"} /\ {firstSample, channelOpened, gotOpen, gotSetup} \subseteq BOOLEAN
  BY DEF VideoTypeOK
\* What is sent comes last.
<1>3. ASSUME NEW m \in Requests, Send(m), UNCHANGED <<wiring, seen>>
      PROVE  \/ UNCHANGED <<toHeadunit, Sent>> /\ wiring # "wired"
             \/ /\ wiring = "wired" /\ Sent' = Append(Sent, m)
                /\ Elements(toHeadunit') = Elements(toHeadunit) \union {m}
                /\ Elements(Sent') = Elements(Sent) \union {m}
  <2>1. CASE wiring # "wired"
    BY <1>3, <2>1 DEF Send, Sent
  <2>2. CASE wiring = "wired"
    <3>1. toHeadunit' = Append(toHeadunit, m)
      BY <1>3, <2>2 DEF Send
    <3>2. Sent' = Append(Sent, m)
      BY <1>1, <1>3, <3>1, InARow DEF Sent
    <3>. QED BY <1>1, <2>2, <3>1, <3>2, Appended
  <2>. QED BY <2>1, <2>2
<1>4. ASSUME NEW m, Taken(m)
      PROVE  /\ UNCHANGED <<wiring, streamVars, channelOpened, seen>> /\ wiring = "wired"
             /\ m \in Elements(fromHeadunit) /\ Elements(fromHeadunit') \subseteq Elements(fromHeadunit)
  BY <1>1, <1>4, First DEF Taken
<1>5. Wire => Conversation'
  BY QuietConversation DEF Wire, Conversation
<1>6. Indicate => Conversation'
  <2>. SUFFICES ASSUME Indicate PROVE Conversation'
    OBVIOUS
  <2>1. PICK m \in Indications : fromHeadunit' = Append(fromHeadunit, m)
    BY DEF Indicate, Indications
  <2>2. m \in Incoming /\ m \notin Answers
    BY DEF Incoming, Indications, Answers
  <2>3. Elements(fromHeadunit') = Elements(fromHeadunit) \union {m}
    BY <1>1, <2>1, <2>2, Appended
  <2>4. UNCHANGED <<wiring, streamVars, flagVars, toHeadunit, seen, leaked, Sent>>
    BY DEF Indicate, Sent
  <2>. QED BY <1>1, <2>2, <2>3, <2>4 DEF Conversation, MarkedFirst, Fresh, AskedOnce, AnsweredFor, Answers, NoAnswerLeaks
<1>7. PullSample \/ NoSample => Conversation'
  <2>1. PullSample \/ NoSample => UNCHANGED <<wiring, flagVars, firstSample, toHeadunit, fromHeadunit, seen, leaked, Sent>>
    BY DEF PullSample, NoSample, Sent
  <2>2. PullSample => Conversation'
    BY <1>1, <2>1 DEF PullSample, Conversation, MarkedFirst, Fresh, AskedOnce, AnsweredFor, NoAnswerLeaks
  <2>3. NoSample => Conversation'
    BY <1>1, <2>1 DEF NoSample, Conversation, MarkedFirst, Fresh, AskedOnce, AnsweredFor, NoAnswerLeaks
  <2>. QED BY <2>2, <2>3
<1>8. MarkOpened \/ ExpectOpen \/ ExpectSetup => Conversation'
  <2>1. MarkOpened \/ ExpectOpen \/ ExpectSetup => UNCHANGED <<wiring, firstSample, toHeadunit, fromHeadunit, seen, leaked, Sent>>
    BY DEF MarkOpened, ExpectOpen, ExpectSetup, Sent
  <2>2. MarkOpened => Conversation'
    BY <1>1, <2>1 DEF MarkOpened, Conversation, MarkedFirst, Fresh, AskedOnce, AnsweredFor, NoAnswerLeaks
  <2>3. ExpectOpen => Conversation'
    BY <1>1, <2>1 DEF ExpectOpen, Conversation, MarkedFirst, Fresh, AskedOnce, AnsweredFor, NoAnswerLeaks
  <2>4. ExpectSetup => Conversation'
    BY <1>1, <2>1 DEF ExpectSetup, Conversation, MarkedFirst, Fresh, AskedOnce, AnsweredFor, NoAnswerLeaks
  <2>. QED BY <2>2, <2>3, <2>4
<1>9. SendOpen => Conversation'
  <2>. SUFFICES ASSUME SendOpen PROVE Conversation'
    OBVIOUS
  <2>1. /\ UNCHANGED <<wiring, firstSample, flagVars, fromHeadunit, seen, leaked>>
        /\ gst = "sendOpen" /\ gst' = "waitOpen" /\ Send("OpenRequest") /\ "OpenRequest" \in Requests \intersect Ours
    BY DEF SendOpen, Requests, Ours
  <2>2. Elements(Sent) \intersect Ours = {}
    BY <1>1, <2>1 DEF AskedOnce
  <2>3. AskedInOrder(Sent')
    <3>1. AskedInOrder(Append(Sent, "OpenRequest"))
      BY <1>1, <2>1, <2>2, AskedNext DEF Media, Ours
    <3>. QED BY <1>1, <1>3, <2>1, <3>1
  <2>4. "SetupRequest" \notin Elements(Sent') /\ (Elements(Sent') # {} => wiring = "wired")
    BY <1>1, <1>3, <2>1, <2>2 DEF AskedOnce, Ours
  <2>5. Elements(toHeadunit') \intersect Media \subseteq Elements(toHeadunit) \intersect Media
    BY <1>3, <2>1 DEF Media
  <2>. QED BY <1>1, <2>1, <2>3, <2>4, <2>5 DEF Conversation, MarkedFirst, Fresh, AskedOnce, AnsweredFor, NoAnswerLeaks
<1>10. SendSetup => Conversation'
  <2>. SUFFICES ASSUME SendSetup PROVE Conversation'
    OBVIOUS
  <2>1. /\ UNCHANGED <<wiring, firstSample, flagVars, fromHeadunit, seen, leaked>>
        /\ gst = "sendSetup" /\ gst' = "waitSetup" /\ Send("SetupRequest") /\ "SetupRequest" \in Requests
    BY DEF SendSetup, Requests
  <2>2. "SetupRequest" \notin Elements(Sent) /\ "OpenRequest" \in Elements(Sent) /\ ~gotSetup
    BY <1>1, <2>1 DEF AskedOnce, AnsweredFor
  <2>3. AskedInOrder(Sent')
    <3>1. AskedInOrder(Append(Sent, "SetupRequest"))
      BY <1>1, <2>1, <2>2, AskedNext DEF Media, Ours
    <3>. QED BY <1>1, <1>3, <2>1, <3>1
  <2>4. Elements(Sent') # {} => wiring = "wired"
    BY <1>1, <1>3, <2>1 DEF AskedOnce
  <2>5. Elements(toHeadunit') \intersect Media \subseteq Elements(toHeadunit) \intersect Media
    BY <1>3, <2>1 DEF Media
  <2>. QED BY <1>1, <2>1, <2>2, <2>3, <2>4, <2>5 DEF Conversation, MarkedFirst, Fresh, AskedOnce, AnsweredFor, NoAnswerLeaks
<1>11. SendMedia => Conversation'
  <2>. SUFFICES ASSUME SendMedia PROVE Conversation'
    OBVIOUS
  <2>1. /\ UNCHANGED <<wiring, flagVars, fromHeadunit, seen, leaked>>
        /\ gst = "media" /\ gst' = "idle" /\ firstSample' = FALSE
    BY DEF SendMedia
  <2>2. PICK m \in Media : Send(m)
    BY DEF SendMedia
  <2>3. m \in Requests /\ m \notin {"OpenRequest", "SetupRequest"} /\ "SetupRequest" \in Elements(Sent)
    BY <1>1, <2>1 DEF AnsweredFor, Requests, Media
  <2>4. AskedInOrder(Sent')
    <3>1. AskedInOrder(Append(Sent, m))
      BY <1>1, <2>3, AskedNext
    <3>. QED BY <1>1, <1>3, <2>1, <2>2, <2>3, <3>1
  <2>5. Elements(Sent') # {} => wiring = "wired"
    BY <1>1, <1>3, <2>1, <2>2, <2>3 DEF AskedOnce
  <2>. QED BY <1>1, <2>1, <2>4, <2>5 DEF Conversation, MarkedFirst, Fresh, AskedOnce, AnsweredFor, NoAnswerLeaks
<1>12. Headunit => Conversation'
  <2>. SUFFICES ASSUME Headunit PROVE Conversation'
    OBVIOUS
  <2>1. /\ toHeadunit # <<>> /\ toHeadunit[1] \in Requests /\ toHeadunit[1] \in Elements(toHeadunit)
        /\ Elements(toHeadunit') \subseteq Elements(toHeadunit)
        /\ Elements(seen') = Elements(seen) \union {toHeadunit[1]}
        /\ UNCHANGED <<wiring, streamVars, flagVars, leaked>>
    BY <1>1, First, Appended DEF Headunit
  <2>2. Sent' = Sent
    BY <1>1, InARow DEF Headunit, Sent
  <2>3. \/ UNCHANGED fromHeadunit
        \/ \E a \in Answers : Reply(toHeadunit[1]) = <<a>> /\ fromHeadunit' = Append(fromHeadunit, a)
    BY <1>1, <2>1, Replied DEF Headunit
  <2>4. ASSUME NEW a \in Answers, Reply(toHeadunit[1]) = <<a>>, fromHeadunit' = Append(fromHeadunit, a)
        PROVE  /\ Elements(fromHeadunit') = Elements(fromHeadunit) \union {a}
               /\ toHeadunit[1] \in Ours
               /\ a = "OpenResponse" => toHeadunit[1] = "OpenRequest"
               /\ a = "SetupResponse" => toHeadunit[1] = "SetupRequest"
    <3>1. a \in Incoming
      BY DEF Incoming
    <3>2. Elements(fromHeadunit') = Elements(fromHeadunit) \union {a}
      BY <1>1, <2>4, <3>1, Appended
    <3>3. \/ toHeadunit[1] = "OpenRequest" /\ a = "OpenResponse"
          \/ toHeadunit[1] = "SetupRequest" /\ a = "SetupResponse"
          \/ toHeadunit[1] \in Media /\ a = "MediaAck"
      BY <2>1, <2>4 DEF Reply, Requests, Media
    <3>. QED BY <3>2, <3>3 DEF Ours
  <2>5. /\ Elements(fromHeadunit') \intersect Answers # {} => channelOpened
        /\ "OpenResponse" \in Elements(fromHeadunit') => "OpenRequest" \in Elements(seen')
        /\ "SetupResponse" \in Elements(fromHeadunit') => "SetupRequest" \in Elements(seen')
    <3>1. CASE UNCHANGED fromHeadunit
      BY <1>1, <2>1, <3>1 DEF MarkedFirst, AnsweredFor
    <3>2. ASSUME NEW a \in Answers, Reply(toHeadunit[1]) = <<a>>, fromHeadunit' = Append(fromHeadunit, a)
          PROVE  /\ Elements(fromHeadunit') \intersect Answers # {} => channelOpened
                 /\ "OpenResponse" \in Elements(fromHeadunit') => "OpenRequest" \in Elements(seen')
                 /\ "SetupResponse" \in Elements(fromHeadunit') => "SetupRequest" \in Elements(seen')
      BY <1>1, <2>1, <2>4, <3>2 DEF MarkedFirst, AnsweredFor
    <3>. QED BY <2>3, <3>1, <3>2
  <2>6. MarkedFirst' /\ AskedOnce' /\ AnsweredFor'
    BY <1>1, <2>1, <2>2, <2>5 DEF MarkedFirst, Fresh, AskedOnce, AnsweredFor
  <2>7. AskedInOrder(Sent')
    BY <1>1, <2>2
  <2>. QED BY <1>1, <2>1, <2>6, <2>7 DEF Conversation, NoAnswerLeaks
<1>13. PassOn => Conversation'
  <2>. SUFFICES ASSUME PassOn PROVE Conversation'
    OBVIOUS
  <2>1. PICK m \in Answers \union Indications : Taken(m) /\ leaked' = leaked \union {m}
    BY DEF PassOn
  <2>2. m \notin Answers
    BY <1>1, <1>4, <2>1 DEF PassOn, MarkedFirst
  <2>3. UNCHANGED <<gotOpen, gotSetup, toHeadunit, Sent>>
    BY <1>4, <2>1 DEF PassOn, Sent
  <2>. QED BY <1>1, <1>4, <2>1, <2>2, <2>3 DEF Conversation, MarkedFirst, Fresh, AskedOnce, AnsweredFor, NoAnswerLeaks
<1>14. HandleOpenResponse \/ HandleSetupResponse \/ HandleMediaAck \/ HandleOther => Conversation'
  <2>. SUFFICES ASSUME HandleOpenResponse \/ HandleSetupResponse \/ HandleMediaAck \/ HandleOther PROVE Conversation'
    OBVIOUS
  <2>1. /\ UNCHANGED <<wiring, streamVars, channelOpened, seen, toHeadunit, leaked, Sent>>
        /\ Elements(fromHeadunit') \subseteq Elements(fromHeadunit)
        /\ gotOpen' # gotOpen => "OpenResponse" \in Elements(fromHeadunit)
        /\ gotSetup' # gotSetup => "SetupResponse" \in Elements(fromHeadunit)
    BY <1>4 DEF HandleOpenResponse, HandleSetupResponse, HandleMediaAck, HandleOther, Sent
  <2>2. /\ "OpenResponse" \in Elements(fromHeadunit) => gst # "sendOpen"
        /\ "SetupResponse" \in Elements(fromHeadunit) => gst # "sendSetup"
    BY <1>1 DEF AnsweredFor, AskedOnce, Ours
  <2>. QED BY <1>1, <2>1, <2>2 DEF Conversation, MarkedFirst, Fresh, AskedOnce, AnsweredFor, NoAnswerLeaks
<1>15. HandleVideoFocus => Conversation'
  <2>. SUFFICES ASSUME HandleVideoFocus PROVE Conversation'
    OBVIOUS
  <2>1. /\ UNCHANGED <<wiring, streamVars, flagVars, seen, leaked>> /\ wiring = "wired"
        /\ Elements(fromHeadunit') \subseteq Elements(fromHeadunit)
        /\ Send("StartIndication") /\ "StartIndication" \in Requests
    BY <1>4 DEF HandleVideoFocus, Requests
  <2>2. "StartIndication" \notin Ours /\ "SetupRequest" \in Ours /\ Media \subseteq Ours
    BY DEF Ours, Media
  <2>3. /\ Sent' = Append(Sent, "StartIndication")
        /\ Elements(toHeadunit') = Elements(toHeadunit) \union {"StartIndication"}
        /\ Elements(Sent') = Elements(Sent) \union {"StartIndication"}
    BY <1>3, <2>1
  <2>4. AskedInOrder(Sent')
    BY <1>1, <2>1, <2>2, <2>3, AskedNext
  <2>. QED BY <1>1, <2>1, <2>2, <2>3, <2>4 DEF Conversation, MarkedFirst, Fresh, AskedOnce, AnsweredFor, NoAnswerLeaks
<1>16. UNCHANGED vars => Conversation'
  BY QuietConversation DEF vars, Conversation
<1>. QED BY <1>5, <1>6, <1>7, <1>8, <1>9, <1>10, <1>11, <1>12, <1>13, <1>14, <1>15, <1>16 DEF Next, Ep2, Stream

-----------------------------------------------------------------------------
(* The theorems.                                                           *)

\* The inductive invariant.
THEOREM VideoInvariant == Spec => []IInv
<1>1. Init => IInv
  <2>. SUFFICES ASSUME Init PROVE IInv
    OBVIOUS
  <2>1. Elements(<<>>) = {} /\ seen \o toHeadunit = <<>>
    BY DEF Elements, Init
  <2>2. VideoTypeOK
    <3>1. {firstSample, channelOpened, gotOpen, gotSetup} \subseteq BOOLEAN
      BY Zenon DEF Init
    <3>. QED BY <3>1, VideoBounds DEF Init, VideoTypeOK
  <2>3. FocusCounted
    <3>1. Ranks([i \in 1..0 |-> 0], 0, <<>>)
      BY DEF Ranks
    <3>. QED BY <3>1 DEF Init, FocusCounted
  <2>4. Conversation
    BY <2>1 DEF Init, Conversation, MarkedFirst, Fresh, AskedOnce, AnsweredFor, AskedInOrder, NoAnswerLeaks, Sent
  <2>. QED BY <2>2, <2>3, <2>4 DEF IInv
<1>2. IInv /\ [Next]_vars => IInv'
  BY VideoTypeStep, FocusStep, ConversationStep DEF IInv
<1>. QED BY <1>1, <1>2, PTL DEF Spec

\* The types of all variables; no more starts are indicated than focus was.
THEOREM VideoTypeCorrect == Spec => []VideoTypeOK
<1>1. IInv => VideoTypeOK
  BY DEF IInv
<1>. QED BY <1>1, VideoInvariant, PTL

\* No answer to our own requests goes to the clients.
THEOREM AnswersStay == Spec => []NoAnswerLeaks
<1>1. IInv => NoAnswerLeaks
  BY DEF IInv, Conversation
<1>. QED BY <1>1, VideoInvariant, PTL

\* The channel is opened once, then set up once, and media come after.
THEOREM SetupFirst == Spec => []MediaAfterSetup
<1>1. IInv => MediaAfterSetup
  BY DEF IInv, Conversation, AnsweredFor, Elements, MediaAfterSetup
<1>. QED BY <1>1, VideoInvariant, PTL
=============================================================================
