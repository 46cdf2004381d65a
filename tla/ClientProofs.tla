---------------------------- MODULE ClientProofs ----------------------------
(***************************************************************************)
(* Proofs about DaemonClient, for any number of requests and connections:  *)
(* each timeout shifts the answers of its connection by one, and without   *)
(* one a request reported as done has been carried out.  And about         *)
(* PreviewPane, for any number of sessions and updates: a preview that has *)
(* caught up shows the whole screen.                                       *)
(***************************************************************************)
EXTENDS DaemonClient, PreviewPane, Integers, SequenceTheorems, TLAPS

NumberedAnswer == [to : Nat, ok : BOOLEAN]

ClientTypes ==
  /\ link \in {"none", "up", "lost"} /\ waiting \in BOOLEAN
  /\ asks \in Seq(AskKind) /\ expired \in Nat
  /\ asked \in Seq(Nat)
  /\ answers \in Seq(NumberedAnswer)

(* How many requests have had their answer taken, or the client believes.  *)
Answered == Len(asks) - expired - (IF waiting THEN 1 ELSE 0)

(* The responses on the way, and the requests still to be handled, are     *)
(* numbered from there on without a gap, and while the link is up reach to *)
(* the last request.                                                       *)
InOrder ==
  /\ \A i \in 1 .. Len(answers) : answers[i].to = Answered + i
  /\ \A i \in 1 .. Len(asked) : asked[i] = Answered + Len(answers) + i
  /\ link = "up" => Answered + Len(answers) + Len(asked) = Len(asks)
  /\ link # "up" => asked = <<>>
  /\ link = "none" => answers = <<>>

(* A response tells the truth about its own request, ...                   *)
AnswersAreTrue ==
  \A i \in 1 .. Len(answers) : answers[i].ok => answers[i].to \in carriedOut

(* ... and one that may be another's is waited for in doubt.               *)
ShiftIsDoubtful ==
  waiting /\ expired > 0 => Len(asks) \in doubtful

OrderInv == ClientTypes /\ InOrder

ClientInv ==
  /\ OrderInv /\ AnswersAreTrue /\ ShiftIsDoubtful
  /\ DoneIsDone

-----------------------------------------------------------------------------
(* Each step keeps the numbering.                                          *)
LEMMA OrderSteps == OrderInv /\ [ClientNext]_clientVars => OrderInv'
<1> SUFFICES ASSUME OrderInv, [ClientNext]_clientVars PROVE OrderInv'
  OBVIOUS
<1>0. ClientTypes /\ Len(asks) \in Nat /\ Len(asked) \in Nat /\ Len(answers) \in Nat
      /\ Answered \in Int
  BY DEF OrderInv, ClientTypes, Answered
<1> USE <1>0 DEF OrderInv, ClientTypes, InOrder
<1>1. CASE Connect
  BY <1>1 DEF Connect, Sends, AskKind, Answered
<1>2. ASSUME NEW kind \in AskKind \ {"hello"}, Ask(kind) PROVE OrderInv'
  <2>1. asks' = Append(asks, kind) /\ Len(asks') = Len(asks) + 1
    BY <1>2 DEF Ask, Sends
  <2>2. ~waiting /\ waiting' /\ Answered' = Answered
    BY <1>2, <2>1 DEF Ask, Sends, Answered
  <2>3. CASE link = "up"
    <3>1. asked' = Append(asked, Len(asks) + 1)
      BY <1>2, <2>1, <2>3 DEF Ask
    <3>2. \A i \in 1 .. Len(asked') : asked'[i] = Answered + Len(answers) + i
      BY <2>2, <2>3, <3>1
    <3>3. ClientTypes' /\ UNCHANGED <<link, answers>>
      BY <1>2, <2>1, <2>2, <2>3, <3>1 DEF Ask, Sends
    <3>4. Len(asked') = Len(asked) + 1
      BY <3>1
    <3>5. Answered' + Len(answers') + Len(asked') = Len(asks')
      BY <2>1, <2>2, <2>3, <3>3, <3>4
    <3> QED
      BY <2>2, <2>3, <3>2, <3>3, <3>5
  <2>4. CASE link # "up"
    <3>1. ClientTypes' /\ UNCHANGED <<link, asked, answers>>
      BY <1>2, <2>1, <2>4 DEF Ask, Sends
    <3> QED
      BY <2>2, <2>4, <3>1
  <2> QED
    BY <2>3, <2>4
<1>3. ASSUME NEW ok \in BOOLEAN, Handle(ok) PROVE OrderInv'
  <2> DEFINE new == [to |-> Head(asked), ok |-> ok]
  <2>1. answers' = Append(answers, new) /\ asked' = Tail(asked)
    BY <1>3 DEF Handle
  <2>2. UNCHANGED <<link, asks, waiting, expired>> /\ Answered' = Answered
    BY <1>3 DEF Handle, Answered
  <2>3. asked # <<>> /\ asked[1] = Answered + Len(answers) + 1
    BY <1>3 DEF Handle
  <2>4. \A i \in 1 .. Len(answers') : answers'[i].to = Answered + i
    <3>1. new.to = Answered + Len(answers) + 1
      BY <2>3
    <3> HIDE DEF new
    <3>2. /\ Len(answers') = Len(answers) + 1
          /\ answers'[Len(answers) + 1] = new
          /\ \A i \in 1 .. Len(answers) : answers'[i] = answers[i]
      BY <2>1
    <3> SUFFICES ASSUME NEW i \in 1 .. Len(answers') PROVE answers'[i].to = Answered + i
      OBVIOUS
    <3>3. CASE i = Len(answers) + 1
      BY <3>1, <3>2, <3>3
    <3>4. CASE i \in 1 .. Len(answers)
      BY <3>2, <3>4
    <3> QED
      BY <3>2, <3>3, <3>4
  <2>5. /\ Len(asked') = Len(asked) - 1
        /\ \A i \in 1 .. Len(asked') : asked'[i] = asked[i + 1]
    BY <2>1, <2>3
  <2>6. \A i \in 1 .. Len(asked') : asked'[i] = Answered + Len(answers') + i
    BY <2>1, <2>5
  <2>7. asked' \in Seq(Nat) /\ answers' \in Seq(NumberedAnswer)
    <3>1. new \in NumberedAnswer
      BY <2>3 DEF NumberedAnswer
    <3> HIDE DEF new
    <3> QED
      BY <2>1, <2>3, <3>1
  <2>8. link = "up" /\ Len(answers') = Len(answers) + 1
    BY <1>3, <2>1 DEF Handle
  <2>9. Answered' + Len(answers') + Len(asked') = Len(asks')
    BY <2>2, <2>5, <2>8
  <2>10. ClientTypes'
    BY <2>2, <2>7
  <2> QED
    BY <2>2, <2>4, <2>6, <2>8, <2>9, <2>10
<1>4. CASE TakeAnswer
  <2>1. /\ answers' = Tail(answers) /\ answers # <<>>
        /\ UNCHANGED <<link, asks, asked, expired>>
        /\ waiting /\ ~waiting' /\ waiting' \in BOOLEAN
    BY <1>4 DEF TakeAnswer
  <2>2. Answered' = Answered + 1
    BY <2>1 DEF Answered
  <2>3. /\ answers' \in Seq(NumberedAnswer)
        /\ Len(answers') = Len(answers) - 1
        /\ \A i \in 1 .. Len(answers') : answers'[i] = answers[i + 1]
    BY <2>1
  <2>4. ASSUME NEW i \in 1 .. Len(answers') PROVE answers'[i].to = Answered' + i
    <3>1. i \in 1 .. Len(answers) - 1
      BY <2>3
    <3>2. answers'[i] = answers[i + 1]
      BY <2>3
    <3>3. i + 1 \in 1 .. Len(answers)
      BY <3>1
    <3>4. answers[i + 1].to = Answered + (i + 1)
      BY <3>3
    <3> QED
      BY <2>2, <3>1, <3>2, <3>4
  <2>5. \A i \in 1 .. Len(asked') : asked'[i] = Answered' + Len(answers') + i
    BY <2>1, <2>2, <2>3
  <2>6. ClientTypes'
    BY <2>1, <2>3
  <2> QED
    BY <2>1, <2>2, <2>3, <2>4, <2>5, <2>6
<1>5. CASE TimeOut
  <2>1. /\ UNCHANGED <<link, asks, asked, answers>>
        /\ waiting /\ waiting' = FALSE /\ expired' = expired + 1
    BY <1>5 DEF TimeOut
  <2>2. Answered' = Answered
    BY <2>1 DEF Answered
  <2>3. expired' \in Nat
    BY <2>1
  <2>4. waiting' \in BOOLEAN
    BY <2>1
  <2>5. ClientTypes'
    BY <2>1, <2>3, <2>4
  <2> QED
    BY <2>1, <2>2, <2>5
<1>6. CASE LinkLost
  BY <1>6 DEF LinkLost, Answered
<1>7. CASE FindLinkLost
  <2>1. /\ UNCHANGED <<link, asks, asked, answers, expired>>
        /\ waiting' = FALSE /\ link = "lost" /\ answers = <<>>
    BY <1>7 DEF FindLinkLost
  <2>2. Len(answers') = 0 /\ Len(asked') = 0 /\ waiting' \in BOOLEAN
    BY <2>1
  <2>3. ClientTypes'
    BY <2>1, <2>2
  <2> QED
    BY <2>1, <2>2, <2>3
<1>8. CASE UNCHANGED clientVars
  BY <1>8 DEF clientVars, Answered
<1> QED
  BY <1>1, <1>2, <1>3, <1>4, <1>5, <1>6, <1>7, <1>8 DEF ClientNext

(* ... and, with it, the truth of what is reported.                        *)
LEMMA ClientSteps == ClientInv /\ [ClientNext]_clientVars => ClientInv'
<1> SUFFICES ASSUME ClientInv, [ClientNext]_clientVars PROVE ClientInv'
  OBVIOUS
<1>0. OrderInv'
  BY OrderSteps DEF ClientInv
<1> USE <1>0 DEF ClientInv, OrderInv, ClientTypes, AnswersAreTrue, ShiftIsDoubtful,
      DoneIsDone
<1>1. CASE Connect
  BY <1>1 DEF Connect, Sends
<1>2. ASSUME NEW kind \in AskKind \ {"hello"}, Ask(kind) PROVE ClientInv'
  BY <1>2 DEF Ask, Sends
<1>3. ASSUME NEW ok \in BOOLEAN, Handle(ok) PROVE ClientInv'
  <2>1. AnswersAreTrue'
    BY <1>3 DEF Handle
  <2> QED
    BY <1>3, <2>1 DEF Handle
<1>4. CASE TakeAnswer
  <2>1. AnswersAreTrue'
    <3>1. /\ Len(answers') = Len(answers) - 1
          /\ \A i \in 1 .. Len(answers') : answers'[i] = answers[i + 1]
      BY <1>4 DEF TakeAnswer
    <3> QED
      BY <1>4, <3>1 DEF TakeAnswer
  <2>2. DoneIsDone'
    <3>1. Head(answers).ok => Len(asks) \in carriedOut \cup doubtful
      <4>1. Head(answers) = answers[1] /\ 1 \in 1 .. Len(answers)
        BY <1>4 DEF TakeAnswer
      <4>2. CASE expired = 0
        <5>1. Answered + 1 = Len(asks)
          BY <1>4, <4>2 DEF TakeAnswer, Answered
        <5>2. answers[1].to = Answered + 1
          BY <4>1 DEF InOrder
        <5> QED
          BY <4>1, <5>1, <5>2
      <4>3. CASE expired > 0
        BY <1>4, <4>3 DEF TakeAnswer
      <4> QED
        BY <4>2, <4>3
    <3>2. \/ reportedDone' = reportedDone
          \/ Head(answers).ok /\ reportedDone' = reportedDone \cup {Len(asks)}
      BY <1>4 DEF TakeAnswer, Accepts
    <3> QED
      BY <1>4, <3>1, <3>2 DEF TakeAnswer
  <2> QED
    BY <1>4, <2>1, <2>2 DEF TakeAnswer
<1>5. CASE TimeOut
  BY <1>5 DEF TimeOut
<1>6. CASE LinkLost
  BY <1>6 DEF LinkLost
<1>7. CASE FindLinkLost
  BY <1>7 DEF FindLinkLost
<1>8. CASE UNCHANGED clientVars
  BY <1>8 DEF clientVars
<1> QED
  BY <1>1, <1>2, <1>3, <1>4, <1>5, <1>6, <1>7, <1>8 DEF ClientNext

-----------------------------------------------------------------------------
(* Nothing has been asked, answered or reported at the start.              *)
LEMMA ClientStart == ClientInit => ClientInv
<1> SUFFICES ASSUME ClientInit PROVE ClientInv
  OBVIOUS
<1>1. ClientTypes
  <2>1. <<>> \in Seq(AskKind) /\ <<>> \in Seq(Nat) /\ <<>> \in Seq(NumberedAnswer)
    OBVIOUS
  <2> QED
    BY <2>1 DEF ClientInit, ClientTypes
<1>2. Len(asked) = 0 /\ Len(answers) = 0
  BY DEF ClientInit
<1> QED
  BY <1>1, <1>2 DEF ClientInit, ClientInv, OrderInv, InOrder, AnswersAreTrue,
                    ShiftIsDoubtful, DoneIsDone

(* Whatever times out, fails or is lost, the next response answers the     *)
(* request as many before the awaited one as have timed out.               *)
THEOREM AnswersShift == ClientSpec => []AnswersAreShifted
<1>1. OrderInv => AnswersAreShifted
  <2> SUFFICES ASSUME OrderInv, waiting, answers # <<>>
               PROVE  Head(answers).to = Len(asks) - expired
    BY DEF AnswersAreShifted
  <2>1. Head(answers) = answers[1] /\ 1 \in 1 .. Len(answers)
    BY DEF OrderInv, ClientTypes
  <2>2. Answered + 1 = Len(asks) - expired
    BY DEF OrderInv, ClientTypes, Answered
  <2> QED
    BY <2>1, <2>2 DEF OrderInv, InOrder
<1>2. ClientInv => OrderInv
  BY DEF ClientInv
<1> QED
  BY <1>1, <1>2, ClientStart, OrderSteps, PTL DEF ClientSpec

(* What a caller is told was done has been done, unless an earlier request *)
(* on its connection timed out.                                            *)
THEOREM ReportsAreTrue == ClientSpec => []DoneIsDone
<1>1. ClientInv => DoneIsDone
  BY DEF ClientInv
<1> QED
  BY <1>1, ClientStart, ClientSteps, PTL DEF ClientSpec
-----------------------------------------------------------------------------
(* The preview pane: its types as far as the proof needs them.             *)
PaneResponse ==
  [kind : {"state", "update", "exited", "error"}, of : Shown, at : Nat]

PaneTypes ==
  /\ orders \in Seq(Shown) /\ requests \in Seq(Shown)
  /\ stream \in Seq(PaneResponse)
  /\ streams \in Shown \cup {NoShown}
  /\ output \in [Shown -> Nat]
  /\ buffer \in [of : Shown, has : SUBSET Nat] \cup {NoScreen}

(* A subscriber that thinks it shows a session has a screen.               *)
HasScreen == current # NoShown => buffer # NoScreen

(* From position b on, the stream holds every change of the session that   *)
(* the daemon streams, up to its last one.                                 *)
Follows(b) ==
  \A j \in b .. Len(stream) :
    /\ stream[j].kind \in {"state", "update"} /\ stream[j].of = streams
    /\ stream[j].at = output[streams] - (Len(stream) - j)

SnapshotWaits(b) == b <= Len(stream) /\ stream[b].kind = "state"

(* The snapshot has been read, and what followed it up to the stream.      *)
ScreenRead(b) ==
  /\ b = 1 /\ Len(stream) <= output[streams]
  /\ current # NoShown =>
       buffer = [of |-> streams, has |-> 1 .. (output[streams] - Len(stream))]

Completes(b) == Follows(b) /\ (SnapshotWaits(b) \/ ScreenRead(b))

(* Reading the rest of the stream makes the screen current: there is a     *)
(* snapshot still to be read with all that followed it, or the screen      *)
(* lacks exactly what the stream holds.                                    *)
StreamCompletes ==
  streams # NoShown /\ ~overtaken => \E b \in 1 .. (Len(stream) + 1) : Completes(b)

PaneInv == PaneTypes /\ HasScreen /\ StreamCompletes

(* What the response at the head of the stream can be.                     *)
LEMMA ResponseRead ==
  ASSUME PaneTypes, stream # <<>>
  PROVE  /\ Tail(stream) \in Seq(PaneResponse)
         /\ Head(stream) = stream[1]
         /\ Head(stream).kind \in {"state", "update", "exited", "error"}
         /\ Head(stream).of \in Shown
         /\ Head(stream).at \in Nat
<1>1. Head(stream) \in PaneResponse /\ Head(stream) = stream[1]
  BY DEF PaneTypes
<1> QED
  BY <1>1 DEF PaneTypes, PaneResponse

(* What is sent keeps the stream a sequence of responses.                  *)
LEMMA ResponseSent ==
  ASSUME PaneTypes, NEW r \in PaneResponse
  PROVE  Append(stream, r) \in Seq(PaneResponse)
BY DEF PaneTypes

(* The subscriber reads a response: what completed the stream completes    *)
(* its tail, and a snapshot just read is on the screen.                    *)
LEMMA ReadKeepsStream ==
  ASSUME PaneTypes, StreamCompletes, stream # <<>>, stream' = Tail(stream),
         UNCHANGED <<streams, output, overtaken>>,
         Head(stream).kind = "state" /\ current' # NoShown =>
           buffer' = [of |-> Head(stream).of, has |-> 1 .. Head(stream).at],
         Head(stream).kind = "update" /\ current' # NoShown =>
           /\ current # NoShown
           /\ buffer' = [buffer EXCEPT !.has = @ \cup {Head(stream).at}]
  PROVE  StreamCompletes'
<1> SUFFICES ASSUME streams # NoShown, ~overtaken
             PROVE  \E b \in 1 .. (Len(stream') + 1) : Completes(b)'
  BY DEF StreamCompletes
<1>0. PICK b \in 1 .. (Len(stream) + 1) : Completes(b)
  BY DEF StreamCompletes
<1>1. /\ Len(stream) \in Nat \ {0} /\ Len(stream') = Len(stream) - 1
      /\ output[streams] \in Nat /\ Head(stream) = stream[1]
  BY DEF PaneTypes
<1>2. \A j \in 1 .. Len(stream') : stream'[j] = stream[j + 1]
  BY DEF PaneTypes
<1>3. ASSUME NEW n \in 1 .. (Len(stream') + 1), Follows(n + 1) PROVE Follows(n)'
  <2> SUFFICES ASSUME NEW j \in n .. Len(stream')
               PROVE  /\ stream'[j].kind \in {"state", "update"}
                      /\ stream'[j].of = streams
                      /\ stream'[j].at = output[streams] - (Len(stream') - j)
    BY DEF Follows
  <2>1. j \in 1 .. Len(stream') /\ j + 1 \in (n + 1) .. Len(stream)
    BY <1>1, <1>3
  <2>2. stream'[j] = stream[j + 1]
    BY <1>2, <2>1
  <2>3. /\ stream[j + 1].kind \in {"state", "update"}
        /\ stream[j + 1].of = streams
        /\ stream[j + 1].at = output[streams] - (Len(stream) - (j + 1))
    BY <1>3, <2>1 DEF Follows
  <2>4. Len(stream) - (j + 1) = Len(stream') - j
    BY <1>1, <2>1
  <2> QED
    BY <2>2, <2>3, <2>4
<1>4. CASE b > 1
  <2>1. b - 1 \in 1 .. (Len(stream') + 1) /\ (b - 1) + 1 = b
    BY <1>0, <1>1, <1>4
  <2>2. Follows(b) /\ SnapshotWaits(b)
    BY <1>0, <1>4 DEF Completes, ScreenRead
  <2>3. Follows(b - 1)'
    BY <1>3, <2>1, <2>2
  <2>4. SnapshotWaits(b - 1)'
    <3>1. b <= Len(stream) /\ stream[b].kind = "state"
      BY <2>2 DEF SnapshotWaits
    <3>2. b - 1 \in 1 .. Len(stream')
      BY <1>1, <2>1, <3>1
    <3>3. stream'[b - 1] = stream[b]
      BY <1>2, <2>1, <3>2
    <3> QED
      BY <3>1, <3>2, <3>3 DEF SnapshotWaits
  <2> QED
    BY <2>1, <2>3, <2>4 DEF Completes
<1>5. CASE b = 1
  <2>1. Follows(1)
    BY <1>0, <1>5 DEF Completes
  <2>2. /\ stream[1].kind \in {"state", "update"} /\ stream[1].of = streams
        /\ stream[1].at = output[streams] - Len(stream')
    <3>1. 1 \in 1 .. Len(stream) /\ Len(stream) - 1 = Len(stream')
      BY <1>1
    <3> QED
      BY <2>1, <3>1 DEF Follows
  <2>3. Follows(1)'
    <3>1. Follows(1 + 1)
      BY <1>1, <2>1 DEF Follows
    <3>2. 1 \in 1 .. (Len(stream') + 1)
      BY <1>1
    <3> QED
      BY <1>3, <3>1, <3>2
  <2>4. Len(stream') <= output[streams]
    <3>1. stream[1].at \in Nat
      BY ResponseRead
    <3> QED
      BY <1>1, <2>2, <3>1
  <2>5. current' # NoShown =>
          buffer' = [of |-> streams, has |-> 1 .. (output[streams] - Len(stream'))]
    <3> SUFFICES ASSUME current' # NoShown
                 PROVE  buffer' = [of |-> streams,
                                   has |-> 1 .. (output[streams] - Len(stream'))]
      OBVIOUS
    <3>1. CASE stream[1].kind = "state"
      BY <1>1, <2>2, <3>1
    <3>2. CASE stream[1].kind = "update"
      <4>1. /\ current # NoShown
            /\ buffer' = [buffer EXCEPT !.has = @ \cup {stream[1].at}]
        BY <1>1, <3>2
      <4>2. ScreenRead(1)
        BY <1>0, <1>5, <3>2 DEF Completes, SnapshotWaits
      <4>3. /\ Len(stream) <= output[streams]
            /\ buffer = [of |-> streams, has |-> 1 .. (output[streams] - Len(stream))]
        BY <4>1, <4>2 DEF ScreenRead
      <4>4. (1 .. (output[streams] - Len(stream))) \cup {stream[1].at}
              = 1 .. (output[streams] - Len(stream'))
        BY <1>1, <2>2, <4>3
      <4>5. buffer' = [of |-> streams,
                       has |-> (1 .. (output[streams] - Len(stream))) \cup {stream[1].at}]
        BY <4>1, <4>3
      <4> QED
        BY <4>4, <4>5
    <3> QED
      BY <2>2, <3>1, <3>2
  <2>6. Completes(1)'
    BY <2>3, <2>4, <2>5 DEF Completes, ScreenRead
  <2> QED
    BY <1>1, <2>6
<1> QED
  BY <1>0, <1>1, <1>4, <1>5

(* The daemon appends a change of the session it streams: it follows.      *)
LEMMA ChangeFollows ==
  ASSUME PaneTypes, NEW r, NEW b \in 1 .. (Len(stream) + 1), Follows(b),
         stream' = Append(stream, r), streams' = streams,
         r.kind \in {"state", "update"}, r.of = streams, r.at = output'[streams],
         streams # NoShown,
         output' = [output EXCEPT ![streams] = @ + 1]
  PROVE  Follows(b)'
<1>1. /\ Len(stream) \in Nat /\ Len(stream') = Len(stream) + 1
      /\ stream'[Len(stream) + 1] = r
      /\ \A j \in 1 .. Len(stream) : stream'[j] = stream[j]
  BY DEF PaneTypes
<1>2. output[streams] \in Nat /\ output'[streams] = output[streams] + 1
  BY DEF PaneTypes
<1> SUFFICES ASSUME NEW j \in b .. Len(stream')
             PROVE  /\ stream'[j].kind \in {"state", "update"}
                    /\ stream'[j].of = streams
                    /\ stream'[j].at = output'[streams] - (Len(stream') - j)
  BY DEF Follows
<1>3. CASE j = Len(stream) + 1
  <2>1. output'[streams] - (Len(stream') - j) = output'[streams]
    BY <1>1, <1>2, <1>3
  <2> QED
    BY <1>1, <1>3, <2>1
<1>4. CASE j \in b .. Len(stream)
  <2>1. /\ stream[j].kind \in {"state", "update"} /\ stream[j].of = streams
        /\ stream[j].at = output[streams] - (Len(stream) - j)
    BY <1>4 DEF Follows
  <2>2. stream'[j] = stream[j]
    BY <1>1, <1>4
  <2>3. output'[streams] - (Len(stream') - j) = output[streams] - (Len(stream) - j)
    BY <1>1, <1>2, <1>4
  <2> QED
    BY <2>1, <2>2, <2>3
<1> QED
  BY <1>1, <1>3, <1>4

(* What the stream completes to depends on nothing else of the page.       *)
LEMMA PaneRests ==
  ASSUME StreamCompletes, UNCHANGED <<stream, streams, output, overtaken>>,
         current' # NoShown => current # NoShown /\ buffer' = buffer
  PROVE  StreamCompletes'
<1> SUFFICES ASSUME streams # NoShown, ~overtaken
             PROVE  \E b \in 1 .. (Len(stream) + 1) : Completes(b)'
  BY DEF StreamCompletes
<1>1. PICK b \in 1 .. (Len(stream) + 1) : Completes(b)
  BY DEF StreamCompletes
<1>2. Follows(b)'
  BY <1>1 DEF Completes, Follows
<1>3. SnapshotWaits(b) => SnapshotWaits(b)'
  BY DEF SnapshotWaits
<1>4. ScreenRead(b) => ScreenRead(b)'
  BY DEF ScreenRead
<1> QED
  BY <1>1, <1>2, <1>3, <1>4 DEF Completes

(* Each action keeps the types ...                                         *)
LEMMA PaneTypesKept == PaneTypes /\ [PreviewNext]_previewVars => PaneTypes'
<1> SUFFICES ASSUME PaneTypes, [PreviewNext]_previewVars PROVE PaneTypes'
  OBVIOUS
<1> USE DEF PaneTypes
<1>1. ASSUME NEW s \in Shown, Select(s) PROVE PaneTypes'
  BY <1>1 DEF Select, daemonVars
<1>2. ASSUME NEW connects \in BOOLEAN, TakeOrder(connects) PROVE PaneTypes'
  <2>1. Head(orders) \in Shown /\ Tail(orders) \in Seq(Shown)
    BY <1>2 DEF TakeOrder
  <2>2. requests' \in Seq(Shown)
    <3>1. requests' = requests \/ requests' = Append(requests, Head(orders))
      BY <1>2, Zenon DEF TakeOrder
    <3> DEFINE order == Head(orders)
    <3>2. order \in Shown
      BY <2>1
    <3> HIDE DEF order
    <3>3. Append(requests, order) \in Seq(Shown)
      BY <3>2
    <3> QED
      BY <3>1, <3>3 DEF order
  <2> QED
    BY <1>2, <2>1, <2>2 DEF TakeOrder
<1>3. CASE TakeReply
  <2>1. Head(stream).of \in Shown /\ Head(stream).at \in Nat
    BY <1>3, ResponseRead DEF TakeReply
  <2>2. stream' \in Seq(PaneResponse)
    BY <1>3, ResponseRead DEF TakeReply
  <2>3. buffer' \in [of : Shown, has : SUBSET Nat] \cup {NoScreen}
    <3>1. 1 .. Head(stream).at \subseteq Nat
      BY <2>1
    <3> QED
      BY <1>3, <2>1, <3>1 DEF TakeReply
  <2> QED
    BY <1>3, <2>2, <2>3 DEF TakeReply, daemonVars
<1>4. CASE AttachTimesOut
  BY <1>4 DEF AttachTimesOut, daemonVars
<1>5. CASE ReadStream
  <2>1. Head(stream).of \in Shown /\ Head(stream).at \in Nat
    BY <1>5, ResponseRead DEF ReadStream
  <2>2. stream' \in Seq(PaneResponse)
    BY <1>5, ResponseRead DEF ReadStream
  <2>3. buffer' \in [of : Shown, has : SUBSET Nat] \cup {NoScreen}
    <3>1. 1 .. Head(stream).at \subseteq Nat
      BY <2>1
    <3>2. CASE Head(stream).kind = "exited" \/ buffer = NoScreen
      BY <1>5, <3>2 DEF ReadStream, ApplyResponse
    <3>3. CASE Head(stream).kind = "state" /\ buffer # NoScreen
      BY <1>5, <2>1, <3>1, <3>3 DEF ReadStream, ApplyResponse
    <3>4. CASE Head(stream).kind = "update" /\ buffer # NoScreen
      <4>1. buffer' = [buffer EXCEPT !.has = @ \cup {Head(stream).at}]
        BY <1>5, <3>4 DEF ReadStream, ApplyResponse
      <4>2. buffer \in [of : Shown, has : SUBSET Nat]
        BY <3>4
      <4> QED
        BY <2>1, <4>1, <4>2
    <3>5. CASE Head(stream).kind = "error" /\ buffer # NoScreen
      BY <1>5, <3>5 DEF ReadStream, ApplyResponse
    <3>6. Head(stream).kind \in {"state", "update", "exited", "error"}
      BY <1>5, ResponseRead DEF ReadStream
    <3> QED
      BY <3>2, <3>3, <3>4, <3>5, <3>6
  <2> QED
    BY <1>5, <2>2, <2>3 DEF ReadStream, daemonVars
<1>6. ASSUME NEW late \in BOOLEAN, HandleAttach(late) PROVE PaneTypes'
  <2> DEFINE s == Head(requests)
             reply == IF s \in ended THEN Other("error", s) ELSE State(s)
             lates == late /\ streams # NoShown /\ streams # s
                      /\ output[streams] < MaxOutput
  <2>1. s \in Shown /\ requests' \in Seq(Shown)
    BY <1>6 DEF HandleAttach
  <2>2. reply \in PaneResponse
    BY <2>1 DEF Other, State, PaneResponse
  <2>3. streams' \in Shown \cup {NoShown}
    BY <1>6, <2>1 DEF HandleAttach
  <2>4. CASE lates
    <3> DEFINE update == [kind |-> "update", of |-> streams, at |-> output'[streams]]
    <3>1. output' = [output EXCEPT ![streams] = @ + 1] /\ streams \in Shown
      BY <1>6, <2>4 DEF HandleAttach
    <3>2. output' \in [Shown -> Nat]
      BY <3>1
    <3>3. update \in PaneResponse
      BY <3>1, <3>2 DEF PaneResponse
    <3>4. stream' = stream \o <<reply, update>>
      BY <1>6, <2>4 DEF HandleAttach
    <3> HIDE DEF reply, update
    <3>5. stream' \in Seq(PaneResponse)
      BY <2>2, <3>3, <3>4
    <3> QED
      BY <1>6, <2>1, <2>3, <3>2, <3>5 DEF HandleAttach, pageVars
  <2>5. CASE ~lates
    <3>1. stream' = Append(stream, reply) /\ output' = output
      BY <1>6, <2>5 DEF HandleAttach
    <3> HIDE DEF reply
    <3>2. stream' \in Seq(PaneResponse)
      BY <2>2, <3>1
    <3> QED
      BY <1>6, <2>1, <2>3, <3>1, <3>2 DEF HandleAttach, pageVars
  <2> QED
    BY <2>4, <2>5
<1>7. ASSUME NEW s \in Shown, NEW lagged \in BOOLEAN, Update(s, lagged)
      PROVE  PaneTypes'
  <2> DEFINE new == [kind |-> IF lagged THEN "state" ELSE "update", of |-> s,
                     at |-> output'[s]]
  <2>1. output' \in [Shown -> Nat]
    BY <1>7 DEF Update
  <2>2. new \in PaneResponse
    BY <2>1 DEF PaneResponse
  <2>3. stream' = IF streams # s THEN stream ELSE Append(stream, new)
    BY <1>7 DEF Update
  <2> HIDE DEF new
  <2>4. stream' \in Seq(PaneResponse)
    BY <2>2, <2>3, ResponseSent
  <2> QED
    BY <1>7, <2>1, <2>4 DEF Update, pageVars
<1>8. ASSUME NEW s \in Shown, NEW killed \in BOOLEAN, SessionEnds(s, killed)
      PROVE  PaneTypes'
  <2> DEFINE new == Other("exited", s)
  <2>1. new \in PaneResponse
    BY DEF Other, PaneResponse
  <2>2. stream' \in {stream, Append(stream, new)}
    BY <1>8 DEF SessionEnds
  <2> HIDE DEF new
  <2>3. stream' \in Seq(PaneResponse)
    BY <2>1, <2>2, ResponseSent
  <2> QED
    BY <1>8, <2>3 DEF SessionEnds, pageVars
<1>9. CASE ConnectionCloses
  BY <1>9 DEF ConnectionCloses, pageVars
<1>10. CASE FindClosed
  BY <1>10 DEF FindClosed, daemonVars
<1>11. CASE UNCHANGED previewVars
  BY <1>11 DEF previewVars
<1> QED
  BY <1>1, <1>2, <1>3, <1>4, <1>5, <1>6, <1>7, <1>8, <1>9, <1>10, <1>11
     DEF PreviewNext

(* ... the screen of a shown session, ...                                  *)
LEMMA ScreenKept ==
  PaneTypes /\ HasScreen /\ [PreviewNext]_previewVars => HasScreen'
<1> SUFFICES ASSUME PaneTypes, HasScreen, [PreviewNext]_previewVars PROVE HasScreen'
  OBVIOUS
<1>0. NoShown \notin Shown
  BY NoShownAssumption
<1>1. CASE TakeReply
  <2>1. Head(stream).of \in Shown
    BY <1>1, ResponseRead DEF TakeReply
  <2> QED
    BY <1>0, <1>1, <2>1 DEF TakeReply, HasScreen, NoScreen
<1>2. CASE ReadStream
  <2>1. Head(stream).of \in Shown /\ buffer # NoScreen
    BY <1>2, ResponseRead DEF ReadStream, HasScreen
  <2>2. buffer \in [of : Shown, has : SUBSET Nat]
    BY <2>1 DEF PaneTypes
  <2>3. CASE Head(stream).kind = "exited"
    BY <1>2, <2>3 DEF ReadStream, ApplyResponse, HasScreen
  <2>4. CASE Head(stream).kind # "exited"
    <3>1. buffer'.of \in Shown
      BY <1>2, <2>1, <2>2, <2>4 DEF ReadStream, ApplyResponse
    <3> QED
      BY <1>0, <3>1 DEF HasScreen, NoScreen
  <2> QED
    BY <2>3, <2>4
<1>3. ASSUME UNCHANGED buffer, current' \in {current, NoShown} PROVE HasScreen'
  BY <1>3 DEF HasScreen
<1>4. ASSUME NEW s \in Shown, Select(s) PROVE HasScreen'
  BY <1>3, <1>4 DEF Select
<1>5. ASSUME NEW connects \in BOOLEAN, TakeOrder(connects) PROVE HasScreen'
  BY <1>3, <1>5 DEF TakeOrder
<1>6. CASE AttachTimesOut
  BY <1>3, <1>6 DEF AttachTimesOut
<1>7. ASSUME NEW late \in BOOLEAN, HandleAttach(late) PROVE HasScreen'
  BY <1>3, <1>7 DEF HandleAttach
<1>8. ASSUME NEW s \in Shown, NEW flag \in BOOLEAN,
             Update(s, flag) \/ SessionEnds(s, flag)
      PROVE  HasScreen'
  BY <1>3, <1>8 DEF Update, SessionEnds
<1>9. CASE ConnectionCloses
  BY <1>3, <1>9 DEF ConnectionCloses
<1>10. CASE FindClosed
  BY <1>3, <1>10 DEF FindClosed
<1>11. CASE UNCHANGED previewVars
  BY <1>3, <1>11 DEF previewVars
<1> QED
  BY <1>1, <1>2, <1>4, <1>5, <1>6, <1>7, <1>8, <1>9, <1>10, <1>11 DEF PreviewNext

(* ... and a stream that completes it.                                     *)
LEMMA StreamKept == PaneInv /\ [PreviewNext]_previewVars => StreamCompletes'
<1> SUFFICES ASSUME PaneInv, [PreviewNext]_previewVars PROVE StreamCompletes'
  OBVIOUS
<1>0. PaneTypes /\ HasScreen /\ StreamCompletes
  BY DEF PaneInv
<1>1. ASSUME NEW s \in Shown, Select(s) PROVE StreamCompletes'
  BY <1>0, <1>1, PaneRests DEF Select, daemonVars
<1>2. ASSUME NEW connects \in BOOLEAN, TakeOrder(connects) PROVE StreamCompletes'
  BY <1>0, <1>2, PaneRests DEF TakeOrder
<1>3. CASE TakeReply
  <2>1. stream # <<>> /\ stream' = Tail(stream) /\ UNCHANGED <<streams, output, overtaken>>
    BY <1>3 DEF TakeReply, daemonVars
  <2>2. Head(stream).kind = "state" =>
          buffer' = [of |-> Head(stream).of, has |-> 1 .. Head(stream).at]
    BY <1>3 DEF TakeReply
  <2>3. Head(stream).kind = "update" => current' = NoShown
    BY <1>3 DEF TakeReply
  <2> QED
    BY <1>0, <2>1, <2>2, <2>3, ReadKeepsStream
<1>4. CASE AttachTimesOut
  BY <1>0, <1>4, PaneRests DEF AttachTimesOut, daemonVars
<1>5. CASE ReadStream
  <2>1. stream # <<>> /\ stream' = Tail(stream) /\ UNCHANGED <<streams, output, overtaken>>
    BY <1>5 DEF ReadStream, daemonVars
  <2>2. current # NoShown /\ buffer # NoScreen
    BY <1>0, <1>5 DEF ReadStream, HasScreen
  <2>3. Head(stream).kind = "state" =>
          buffer' = [of |-> Head(stream).of, has |-> 1 .. Head(stream).at]
    BY <1>5, <2>2 DEF ReadStream, ApplyResponse
  <2>4. Head(stream).kind = "update" =>
          buffer' = [buffer EXCEPT !.has = @ \cup {Head(stream).at}]
    BY <1>5, <2>2 DEF ReadStream, ApplyResponse
  <2> QED
    BY <1>0, <2>1, <2>2, <2>3, <2>4, ReadKeepsStream
<1>6. ASSUME NEW late \in BOOLEAN, HandleAttach(late) PROVE StreamCompletes'
  <2> SUFFICES ASSUME streams' # NoShown, ~overtaken'
               PROVE  \E b \in 1 .. (Len(stream') + 1) : Completes(b)'
    BY DEF StreamCompletes
  <2> DEFINE s == Head(requests)
  <2>1. s \notin ended /\ streams' = s
    BY <1>6 DEF HandleAttach
  <2>2. s \in Shown /\ output[s] \in Nat
    BY <1>0, <1>6 DEF HandleAttach, PaneTypes
  <2>3. stream' = Append(stream, State(s)) /\ output' = output
    BY <1>6, <2>1 DEF HandleAttach
  <2>4. /\ Len(stream) \in Nat /\ Len(stream') = Len(stream) + 1
        /\ stream'[Len(stream) + 1] = State(s)
    BY <1>0, <2>3 DEF PaneTypes
  <2>5. State(s).kind = "state" /\ State(s).of = s /\ State(s).at = output[s]
    BY DEF State
  <2> HIDE DEF s
  <2>6. PICK k \in Nat : k = Len(stream')
    BY <2>4
  <2>7. Follows(k)'
    <3> SUFFICES ASSUME NEW j \in k .. Len(stream')
                 PROVE  /\ stream'[j].kind \in {"state", "update"}
                        /\ stream'[j].of = streams'
                        /\ stream'[j].at = output'[streams'] - (Len(stream') - j)
      BY DEF Follows
    <3>1. j = Len(stream) + 1 /\ output[s] - (Len(stream') - j) = output[s]
      BY <2>2, <2>4, <2>6
    <3> QED
      BY <2>1, <2>3, <2>4, <2>5, <3>1
  <2>8. SnapshotWaits(k)'
    BY <2>4, <2>5, <2>6 DEF SnapshotWaits
  <2>9. Completes(k)' /\ k \in 1 .. (Len(stream') + 1)
    BY <2>4, <2>6, <2>7, <2>8 DEF Completes
  <2> QED
    BY <2>9
<1>7. ASSUME NEW s \in Shown, NEW lagged \in BOOLEAN, Update(s, lagged)
      PROVE  StreamCompletes'
  <2> SUFFICES ASSUME streams # NoShown, ~overtaken
               PROVE  \E b \in 1 .. (Len(stream') + 1) : Completes(b)'
    BY <1>7 DEF StreamCompletes, Update
  <2>1. PICK b \in 1 .. (Len(stream) + 1) : Completes(b)
    BY <1>0 DEF StreamCompletes
  <2>2. /\ output' = [output EXCEPT ![s] = @ + 1]
        /\ UNCHANGED <<streams, current, buffer>>
    BY <1>7 DEF Update
  <2>3. Len(stream) \in Nat /\ output \in [Shown -> Nat] /\ streams \in Shown
    BY <1>0 DEF PaneTypes
  <2>4. CASE streams # s
    <3>1. stream' = stream /\ output'[streams] = output[streams]
      BY <1>7, <2>2, <2>3, <2>4 DEF Update
    <3>2. Follows(b)'
      BY <2>1, <2>2, <3>1 DEF Completes, Follows
    <3>3. SnapshotWaits(b) => SnapshotWaits(b)'
      BY <3>1 DEF SnapshotWaits
    <3>4. ScreenRead(b) => ScreenRead(b)'
      BY <2>2, <3>1 DEF ScreenRead
    <3> QED
      BY <2>1, <3>1, <3>2, <3>3, <3>4 DEF Completes
  <2>5. CASE streams = s
    <3> DEFINE new == [kind |-> IF lagged THEN "state" ELSE "update", of |-> s,
                       at |-> output'[s]]
    <3>1. stream' = Append(stream, new)
      BY <1>7, <2>5 DEF Update
    <3>2. new.kind \in {"state", "update"} /\ new.of = streams /\ new.at = output'[streams]
      BY <2>5
    <3> HIDE DEF new
    <3>3. Follows(b)'
      BY <1>0, <2>1, <2>2, <2>5, <3>1, <3>2, ChangeFollows DEF Completes
    <3>4. /\ Len(stream') = Len(stream) + 1
          /\ \A j \in 1 .. Len(stream) : stream'[j] = stream[j]
      BY <1>0, <3>1 DEF PaneTypes
    <3>5. output'[streams] = output[streams] + 1 /\ output[streams] \in Nat
      BY <2>2, <2>3, <2>5
    <3>6. SnapshotWaits(b) => SnapshotWaits(b)'
      BY <2>1, <2>3, <3>4 DEF SnapshotWaits
    <3>7. ScreenRead(b) => ScreenRead(b)'
      <4>1. output'[streams] - Len(stream') = output[streams] - Len(stream)
        BY <2>3, <3>4, <3>5
      <4> QED
        BY <2>2, <2>3, <3>4, <3>5, <4>1 DEF ScreenRead
    <3>8. b \in 1 .. (Len(stream') + 1)
      BY <2>1, <2>3, <3>4
    <3> QED
      BY <2>1, <3>3, <3>6, <3>7, <3>8 DEF Completes
  <2> QED
    BY <2>4, <2>5
<1>8. ASSUME NEW s \in Shown, NEW killed \in BOOLEAN, SessionEnds(s, killed)
      PROVE  StreamCompletes'
  <2>1. CASE streams = s
    BY <1>8, <2>1 DEF SessionEnds, StreamCompletes
  <2>2. CASE streams # s
    BY <1>0, <1>8, <2>2, PaneRests DEF SessionEnds
  <2> QED
    BY <2>1, <2>2
<1>9. CASE ConnectionCloses
  BY <1>9 DEF ConnectionCloses, StreamCompletes
<1>10. CASE FindClosed
  BY <1>0, <1>10, PaneRests DEF FindClosed, daemonVars
<1>11. CASE UNCHANGED previewVars
  BY <1>0, <1>11, PaneRests DEF previewVars
<1> QED
  BY <1>1, <1>2, <1>3, <1>4, <1>5, <1>6, <1>7, <1>8, <1>9, <1>10, <1>11
     DEF PreviewNext

(* At the start nothing is shown and nothing is streamed.                  *)
LEMMA PaneStart == PreviewInit => PaneInv
<1> SUFFICES ASSUME PreviewInit PROVE PaneInv
  OBVIOUS
<1>1. PaneTypes
  <2>1. /\ <<>> \in Seq(Shown)
        /\ <<>> \in Seq(PaneResponse)
    OBVIOUS
  <2> QED
    BY <2>1 DEF PreviewInit, PaneTypes
<1> QED
  BY <1>1 DEF PreviewInit, PaneInv, HasScreen, StreamCompletes

(* Through changes of the selection, timeouts, replies taken for other     *)
(* requests and reconnects: a preview that has caught up with the stream   *)
(* of the session it thinks it shows is that session's screen.             *)
THEOREM PreviewCurrent == PreviewSpec => []CaughtUpIsCurrent
<1>1. PaneInv /\ [PreviewNext]_previewVars => PaneInv'
  BY PaneTypesKept, ScreenKept, StreamKept DEF PaneInv
<1>2. PaneInv => CaughtUpIsCurrent
  <2> SUFFICES ASSUME PaneInv, stream = <<>>, current # NoShown, current = streams,
                      ~overtaken
               PROVE  buffer = [of |-> current, has |-> 1 .. output[current]]
    BY DEF CaughtUpIsCurrent
  <2>1. Len(stream) = 0 /\ output[streams] \in Nat
    BY DEF PaneInv, PaneTypes
  <2>2. PICK b \in 1 .. 1 : Completes(b)
    BY <2>1 DEF PaneInv, StreamCompletes
  <2>3. ScreenRead(b)
    BY <2>1, <2>2 DEF Completes, SnapshotWaits
  <2>4. output[streams] - Len(stream) = output[streams]
    BY <2>1
  <2> QED
    BY <2>3, <2>4 DEF ScreenRead
<1> QED
  BY <1>1, <1>2, PaneStart, PTL DEF PreviewSpec

-----------------------------------------------------------------------------
(* The types of both.                                                      *)

(* Each request that expired, and the one that is waited for, is another.   *)
WaitsOnce == expired <= Len(asks) /\ (waiting => expired < Len(asks))

(* Requests, responses and counters stay within their bounds.              *)
LEMMA ClientTypesKept ==
  ClientTypeOK /\ WaitsOnce /\ [ClientNext]_clientVars => (ClientTypeOK /\ WaitsOnce)'
<1> SUFFICES ASSUME ClientTypeOK, WaitsOnce, [ClientNext]_clientVars
             PROVE  ClientTypeOK' /\ WaitsOnce'
  OBVIOUS
<1>0. /\ MaxAsk \in Nat /\ MaxConnection \in Nat
      /\ Len(asks) \in 0 .. MaxAsk /\ expired \in 0 .. MaxAsk
      /\ waiting => Len(asks) \in AskNumber
  BY ClientAssumption DEF ClientTypeOK, WaitsOnce, AskNumber
<1>1. ASSUME NEW kind \in AskKind, Sends(kind), Len(asks) < MaxAsk
      PROVE  /\ asks' \in Seq(AskKind) /\ Len(asks') = Len(asks) + 1
             /\ Len(asks') \in AskNumber /\ waiting' = TRUE
  BY <1>0, <1>1 DEF Sends, ClientTypeOK, AskNumber
<1>2. CASE Connect
  <2>1. Sends("hello") /\ Len(asks) < MaxAsk /\ "hello" \in AskKind
    BY <1>2 DEF Connect, AskKind
  <2>2. asked' \in Seq(AskNumber) /\ answers' \in Seq(Answer)
    <3>1. asked' = <<Len(asks')>> /\ answers' = <<>> /\ Len(asks') \in AskNumber
      BY <1>1, <1>2, <2>1 DEF Connect
    <3> QED
      BY <3>1
  <2>3. expired' = 0 /\ connections' \in 0 .. MaxConnection /\ link' = "up"
        /\ UNCHANGED <<carriedOut, reportedDone, doubtful>>
    BY <1>0, <1>2 DEF Connect, ClientTypeOK
  <2> QED
    <3>1. /\ asks' \in Seq(AskKind) /\ Len(asks') \in AskNumber /\ waiting' \in BOOLEAN
          /\ Len(asks') \in 0 .. MaxAsk /\ 0 < Len(asks')
      <4>1. Len(asks') = Len(asks) + 1 /\ Len(asks) < MaxAsk /\ waiting' = TRUE
            /\ asks' \in Seq(AskKind)
        BY <1>1, <2>1
      <4>2. /\ Len(asks') \in AskNumber /\ Len(asks') \in 0 .. MaxAsk
            /\ 0 < Len(asks')
        BY <1>0, <4>1 DEF AskNumber
      <4> QED
        BY <4>1, <4>2
    <3>2. 0 \in 0 .. MaxAsk
      BY <1>0
    <3> QED
      BY <1>0, <2>2, <2>3, <3>1, <3>2 DEF ClientTypeOK, WaitsOnce
<1>3. ASSUME NEW kind \in AskKind \ {"hello"}, Ask(kind) PROVE ClientTypeOK' /\ WaitsOnce'
  <2>1. Sends(kind) /\ Len(asks) < MaxAsk /\ kind \in AskKind /\ ~waiting
    BY <1>3 DEF Ask
  <2>2. /\ asks' \in Seq(AskKind) /\ Len(asks') = Len(asks) + 1
        /\ Len(asks') \in AskNumber /\ waiting' = TRUE
    BY <1>1, <2>1
  <2>3. asked' \in Seq(AskNumber) /\ doubtful' \subseteq AskNumber
    BY <1>3, <2>2 DEF Ask, ClientTypeOK
  <2>4. UNCHANGED <<link, answers, carriedOut, reportedDone, expired, connections>>
    BY <1>3 DEF Ask
  <2> QED
    BY <1>0, <2>1, <2>2, <2>3, <2>4 DEF ClientTypeOK, WaitsOnce, AskNumber
<1>4. ASSUME NEW ok \in BOOLEAN, Handle(ok) PROVE ClientTypeOK' /\ WaitsOnce'
  <2>1. Head(asked) \in AskNumber /\ Tail(asked) \in Seq(AskNumber)
    BY <1>4 DEF Handle, ClientTypeOK
  <2>2. [to |-> Head(asked), ok |-> ok] \in Answer
    BY <2>1 DEF Answer
  <2>3. answers' \in Seq(Answer) /\ carriedOut' \subseteq AskNumber
    BY <1>4, <2>1, <2>2 DEF Handle, ClientTypeOK
  <2> QED
    BY <1>4, <2>1, <2>3 DEF Handle, ClientTypeOK, WaitsOnce
<1>5. CASE TakeAnswer
  <2>1. answers' \in Seq(Answer) /\ reportedDone' \subseteq AskNumber
    BY <1>0, <1>5 DEF TakeAnswer, ClientTypeOK
  <2> QED
    BY <1>0, <1>5, <2>1 DEF TakeAnswer, ClientTypeOK, WaitsOnce
<1>6. CASE TimeOut
  <2>1. expired < Len(asks) /\ expired' = expired + 1 /\ waiting' = FALSE
    BY <1>6 DEF TimeOut, WaitsOnce
  <2>2. expired' \in 0 .. MaxAsk /\ expired' <= Len(asks)
    BY <1>0, <2>1
  <2> QED
    BY <1>6, <2>1, <2>2 DEF TimeOut, ClientTypeOK, WaitsOnce
<1>7. CASE LinkLost
  BY <1>7 DEF LinkLost, ClientTypeOK, WaitsOnce
<1>8. CASE FindLinkLost
  BY <1>0, <1>8 DEF FindLinkLost, ClientTypeOK, WaitsOnce
<1>9. CASE UNCHANGED clientVars
  BY <1>9 DEF clientVars, ClientTypeOK, WaitsOnce
<1> QED
  BY <1>2, <1>3, <1>4, <1>5, <1>6, <1>7, <1>8, <1>9 DEF ClientNext

(* However requests time out, connections are lost and made again, what    *)
(* the client and the daemon hold about requests stays within its types.   *)
THEOREM ClientTyped == ClientSpec => []ClientTypeOK
<1>1. ClientInit => ClientTypeOK /\ WaitsOnce
  <2>1. MaxAsk \in Nat /\ MaxConnection \in Nat
    BY ClientAssumption
  <2>2. 0 \in 0 .. MaxAsk /\ 0 \in 0 .. MaxConnection
    BY <2>1
  <2> QED
    <3>1. Len(<<>>) = 0 /\ <<>> \in Seq(AskKind) /\ <<>> \in Seq(AskNumber)
          /\ <<>> \in Seq(Answer)
      OBVIOUS
    <3>2. 0 <= 0 /\ 0 <= MaxAsk
      BY <2>1
    <3> QED
      BY <2>1, <2>2, <3>1, <3>2 DEF ClientInit, ClientTypeOK, WaitsOnce
<1> QED
  BY <1>1, ClientTypesKept, PTL DEF ClientSpec

(* An update on its way is at least the session's first.                   *)
MadeResponse == {r \in Response : r.kind = "update" => r.at > 0}

PaneBounds == PreviewTypeOK /\ stream \in Seq(MadeResponse)

(* The first of the responses, and the rest.                               *)
LEMMA MadeRead ==
  ASSUME PaneBounds, stream # <<>>
  PROVE  /\ Head(stream) \in MadeResponse /\ Tail(stream) \in Seq(MadeResponse)
         /\ Head(stream).of \in Shown /\ Head(stream).at \in 0 .. MaxOutput
         /\ Head(stream).kind \in {"state", "update", "exited", "error"}
         /\ Head(stream).kind = "update" => Head(stream).at \in 1 .. MaxOutput
         /\ 1 .. Head(stream).at \subseteq 1 .. MaxOutput
<1>0. MaxOutput \in Nat
  BY PreviewAssumption
<1>1. stream \in Seq(MadeResponse)
  BY DEF PaneBounds
<1> DEFINE R == MadeResponse
<1>2. Head(stream) \in R /\ Tail(stream) \in Seq(R)
  <2> HIDE DEF R
  <2> QED
    BY <1>1, HeadTailProperties DEF R
<1> HIDE DEF R
<1> DEFINE r == Head(stream)
<1>3. r \in MadeResponse
  BY <1>2 DEF R
<1> HIDE DEF r
<1>4. r \in Response /\ (r.kind = "update" => r.at > 0)
  BY <1>3 DEF MadeResponse
<1>5. r.of \in Shown /\ r.at \in 0 .. MaxOutput /\ r.kind \in {"state", "update", "exited", "error"}
  BY <1>4 DEF Response
<1>6. (r.kind = "update" => r.at \in 1 .. MaxOutput) /\ 1 .. r.at \subseteq 1 .. MaxOutput
  BY <1>0, <1>4, <1>5
<1> QED
  BY <1>2, <1>5, <1>6 DEF r, R

(* Made responses are responses.                                           *)
LEMMA MadeAreResponses ==
  ASSUME NEW s \in Seq(MadeResponse)
  PROVE  s \in Seq(Response)
<1>1. MadeResponse \subseteq Response
  BY DEF MadeResponse
<1>2. Len(s) \in Nat /\ \A i \in 1 .. Len(s) : s[i] \in Response
  BY <1>1, LenProperties, ElementOfSeq
<1>3. s = [i \in 1 .. Len(s) |-> s[i]]
  BY LenProperties
<1> QED
  BY <1>2, <1>3, IsASeq

(* One more behind them.                                                   *)
LEMMA MadeSent ==
  ASSUME NEW s \in Seq(MadeResponse), NEW r \in MadeResponse
  PROVE  Append(s, r) \in Seq(MadeResponse)
<1> DEFINE R == MadeResponse
<1> HIDE DEF R
<1>1. Append(s, r) \in Seq(R)
  BY AppendProperties DEF R
<1> QED
  BY <1>1 DEF R

(* What the page, the subscriber and the daemon know besides screens.      *)
PaneRest ==
  /\ {selected, wanted, current, streams} \subseteq Shown \cup {NoShown}
  /\ selections \in 0 .. MaxSelect
  /\ orders \in Seq(Shown) /\ requests \in Seq(Shown)
  /\ client \in {"none", "ready", "awaiting"}
  /\ ended \subseteq Shown
  /\ {up, overtaken} \subseteq BOOLEAN

(* Each action keeps it.                                                   *)
LEMMA PaneRestKept == PaneRest /\ [PreviewNext]_previewVars => PaneRest'
<1> SUFFICES ASSUME PaneRest, [PreviewNext]_previewVars PROVE PaneRest'
  OBVIOUS
<1> USE DEF PaneRest
<1>0. MaxSelect \in Nat
  BY PreviewAssumption
<1>1. ASSUME NEW s \in Shown, Select(s) PROVE PaneRest'
  <2>1. selections' \in 0 .. MaxSelect
    BY <1>0, <1>1 DEF Select
  <2>2. orders' \in Seq(Shown)
    BY <1>1 DEF Select
  <2> QED
    BY <1>1, <2>1, <2>2 DEF Select, daemonVars
<1>2. ASSUME NEW connects \in BOOLEAN, TakeOrder(connects) PROVE PaneRest'
  <2>1. Head(orders) \in Shown /\ Tail(orders) \in Seq(Shown)
    BY <1>2 DEF TakeOrder
  <2>2. requests' \in Seq(Shown)
    <3>1. requests' = requests \/ requests' = Append(requests, Head(orders))
      BY <1>2, Zenon DEF TakeOrder
    <3> DEFINE order == Head(orders)
    <3>2. order \in Shown
      BY <2>1
    <3> HIDE DEF order
    <3>3. Append(requests, order) \in Seq(Shown)
      BY <3>2
    <3> QED
      BY <3>1, <3>3 DEF order
  <2>3. up' \in BOOLEAN
    BY <1>2, Zenon DEF TakeOrder
  <2>4. client' \in {"none", "ready", "awaiting"} /\ wanted' \in Shown \cup {NoShown}
    BY <1>2, <2>1 DEF TakeOrder
  <2>5. /\ UNCHANGED <<pageVars, current, streams, ended, overtaken>>
        /\ orders' = Tail(orders)
    BY <1>2 DEF TakeOrder
  <2> HIDE DEF TakeOrder
  <2> QED
    BY <2>1, <2>2, <2>3, <2>4, <2>5 DEF pageVars
<1>3. CASE TakeReply
  BY <1>3 DEF TakeReply, pageVars, daemonVars
<1>4. CASE AttachTimesOut
  BY <1>4 DEF AttachTimesOut, pageVars, daemonVars
<1>5. CASE ReadStream
  BY <1>5 DEF ReadStream, ApplyResponse, pageVars, daemonVars
<1>6. ASSUME NEW late \in BOOLEAN, HandleAttach(late) PROVE PaneRest'
  <2>1. Head(requests) \in Shown /\ Tail(requests) \in Seq(Shown)
    BY <1>6 DEF HandleAttach
  <2>2. streams' \in Shown \cup {NoShown}
    BY <1>6, <2>1 DEF HandleAttach
  <2>3. overtaken' \in {TRUE, overtaken} /\ requests' = Tail(requests)
        /\ UNCHANGED <<pageVars, orders, client, up, wanted, current, ended>>
    BY <1>6, Zenon DEF HandleAttach
  <2> QED
    BY <2>1, <2>2, <2>3 DEF pageVars
<1>7. ASSUME NEW s \in Shown, NEW lagged \in BOOLEAN, Update(s, lagged)
      PROVE  PaneRest'
  BY <1>7 DEF Update, pageVars
<1>8. ASSUME NEW s \in Shown, NEW killed \in BOOLEAN, SessionEnds(s, killed)
      PROVE  PaneRest'
  <2>1. streams' \in {streams, NoShown} /\ ended' = ended \cup {s}
        /\ UNCHANGED <<pageVars, orders, client, up, wanted, current, requests, overtaken>>
    BY <1>8 DEF SessionEnds
  <2> QED
    BY <2>1 DEF pageVars
<1>9. CASE ConnectionCloses
  <2>1. /\ requests' = <<>> /\ <<>> \in Seq(Shown)
        /\ streams' = NoShown /\ up' = FALSE
        /\ UNCHANGED <<pageVars, orders, client, wanted, current, ended, overtaken>>
    BY <1>9 DEF ConnectionCloses
  <2> QED
    BY <2>1 DEF pageVars
<1>10. CASE FindClosed
  BY <1>10 DEF FindClosed, pageVars, daemonVars
<1>11. CASE UNCHANGED previewVars
  BY <1>11 DEF previewVars
<1> QED
  BY <1>1, <1>2, <1>3, <1>4, <1>5, <1>6, <1>7, <1>8, <1>9, <1>10, <1>11
     DEF PreviewNext

(* Screens, shown and on their way, hold updates that were made.           *)
PaneScreens ==
  /\ stream \in Seq(MadeResponse)
  /\ output \in [Shown -> 0 .. MaxOutput]
  /\ buffer \in Screen \cup {NoScreen}

(* Each action keeps those.                                                *)
LEMMA PaneScreensKept ==
  PaneBounds /\ PaneRest' /\ [PreviewNext]_previewVars => PaneScreens'
<1> SUFFICES ASSUME PaneBounds, PaneRest', [PreviewNext]_previewVars PROVE PaneScreens'
  OBVIOUS
<1>0. MaxOutput \in Nat /\ PaneScreens /\ PaneRest
  BY PreviewAssumption DEF PaneBounds, PreviewTypeOK, PaneScreens, PaneRest
<1> USE DEF PaneScreens
<1>1. ASSUME NEW s \in Shown, Select(s) PROVE PaneScreens'
  BY <1>0, <1>1 DEF Select, daemonVars
<1>2. ASSUME NEW connects \in BOOLEAN, TakeOrder(connects) PROVE PaneScreens'
  BY <1>0, <1>2 DEF TakeOrder
<1>3. CASE TakeReply
  <2>1. stream # <<>>
    BY <1>3 DEF TakeReply
  <2>2. stream' \in Seq(MadeResponse)
    BY <1>3, <2>1, MadeRead DEF TakeReply
  <2>3. buffer' \in Screen \cup {NoScreen}
    <3>1. [of |-> Head(stream).of, has |-> 1 .. Head(stream).at] \in Screen
      BY <2>1, MadeRead DEF Screen
    <3> QED
      BY <1>0, <1>3, <3>1 DEF TakeReply
  <2> QED
    BY <1>0, <1>3, <2>2, <2>3 DEF TakeReply, daemonVars
<1>4. CASE AttachTimesOut
  BY <1>0, <1>4 DEF AttachTimesOut, daemonVars
<1>5. CASE ReadStream
  <2>1. stream # <<>>
    BY <1>5 DEF ReadStream
  <2>2. stream' \in Seq(MadeResponse)
    BY <1>5, <2>1, MadeRead DEF ReadStream
  <2>3. buffer' \in Screen \cup {NoScreen}
    <3>1. [of |-> Head(stream).of, has |-> 1 .. Head(stream).at] \in Screen
      BY <2>1, MadeRead DEF Screen
    <3>2. CASE Head(stream).kind = "exited" \/ buffer = NoScreen
      BY <1>5, <3>2 DEF ReadStream, ApplyResponse
    <3>3. CASE Head(stream).kind = "state" /\ buffer # NoScreen
      BY <1>5, <3>1, <3>3 DEF ReadStream, ApplyResponse
    <3>4. CASE Head(stream).kind = "update" /\ buffer # NoScreen
      <4>1. buffer' = [buffer EXCEPT !.has = @ \cup {Head(stream).at}]
        BY <1>5, <3>4 DEF ReadStream, ApplyResponse
      <4>2. buffer \in [of : Shown, has : SUBSET (1 .. MaxOutput)]
        BY <1>0, <3>4 DEF Screen
      <4>3. Head(stream).at \in 1 .. MaxOutput
        BY <2>1, <3>4, MadeRead
      <4> QED
        BY <4>1, <4>2, <4>3 DEF Screen
    <3>5. CASE Head(stream).kind = "error" /\ buffer # NoScreen
      BY <1>0, <1>5, <3>5 DEF ReadStream, ApplyResponse
    <3> QED
      BY <2>1, <3>2, <3>3, <3>4, <3>5, MadeRead
  <2> QED
    BY <1>0, <1>5, <2>2, <2>3 DEF ReadStream, daemonVars
<1>6. ASSUME NEW late \in BOOLEAN, HandleAttach(late) PROVE PaneScreens'
  <2> DEFINE s == Head(requests)
             reply == IF s \in ended THEN Other("error", s) ELSE State(s)
             lates == late /\ streams # NoShown /\ streams # s
                      /\ output[streams] < MaxOutput
  <2>1. s \in Shown /\ buffer' = buffer
    BY <1>0, <1>6 DEF HandleAttach, PaneRest
  <2>2. reply \in MadeResponse
    BY <1>0, <2>1 DEF Other, State, MadeResponse, Response
  <2>4. CASE lates
    <3> DEFINE update == [kind |-> "update", of |-> streams, at |-> output'[streams]]
    <3>1. output' = [output EXCEPT ![streams] = @ + 1] /\ streams \in Shown
      BY <1>0, <1>6, <2>4 DEF HandleAttach, PaneRest
    <3>2. output[streams] \in 0 .. MaxOutput /\ output[streams] < MaxOutput
      BY <1>0, <2>4, <3>1
    <3>3. output' \in [Shown -> 0 .. MaxOutput] /\ output'[streams] \in 1 .. MaxOutput
      BY <1>0, <3>1, <3>2
    <3>4. update \in MadeResponse
      BY <1>0, <3>1, <3>3 DEF MadeResponse, Response
    <3>5. stream' = stream \o <<reply, update>>
      BY <1>6, <2>4 DEF HandleAttach
    <3> HIDE DEF reply, update
    <3>6. stream' \in Seq(MadeResponse)
      BY <1>0, <2>2, <3>4, <3>5
    <3> QED
      BY <1>0, <2>1, <3>3, <3>6
  <2>5. CASE ~lates
    <3>1. stream' = Append(stream, reply) /\ output' = output
      BY <1>6, <2>5 DEF HandleAttach
    <3> HIDE DEF reply
    <3>2. stream' \in Seq(MadeResponse)
      BY <1>0, <2>2, <3>1, MadeSent
    <3> QED
      BY <1>0, <2>1, <3>1, <3>2
  <2> QED
    BY <2>4, <2>5
<1>7. ASSUME NEW s \in Shown, NEW lagged \in BOOLEAN, Update(s, lagged)
      PROVE  PaneScreens'
  <2> DEFINE new == [kind |-> IF lagged THEN "state" ELSE "update", of |-> s,
                     at |-> output'[s]]
  <2>1. output' \in [Shown -> 0 .. MaxOutput] /\ output'[s] \in 1 .. MaxOutput
    BY <1>0, <1>7 DEF Update
  <2>2. new \in MadeResponse
    BY <1>0, <2>1 DEF MadeResponse, Response
  <2>3. stream' = (IF streams # s THEN stream ELSE Append(stream, new)) /\ buffer' = buffer
    BY <1>7 DEF Update
  <2> HIDE DEF new
  <2>4. stream' \in Seq(MadeResponse)
    BY <1>0, <2>2, <2>3, MadeSent
  <2> QED
    BY <1>0, <2>1, <2>3, <2>4
<1>8. ASSUME NEW s \in Shown, NEW killed \in BOOLEAN, SessionEnds(s, killed)
      PROVE  PaneScreens'
  <2> DEFINE new == Other("exited", s)
  <2>1. new \in MadeResponse
    BY <1>0 DEF Other, MadeResponse, Response
  <2>2. stream' \in {stream, Append(stream, new)} /\ UNCHANGED <<output, buffer>>
    BY <1>8 DEF SessionEnds
  <2> HIDE DEF new
  <2>3. stream' \in Seq(MadeResponse)
    BY <1>0, <2>1, <2>2, MadeSent
  <2> QED
    BY <1>0, <2>2, <2>3
<1>9. CASE ConnectionCloses
  BY <1>0, <1>9 DEF ConnectionCloses
<1>10. CASE FindClosed
  BY <1>0, <1>10 DEF FindClosed, daemonVars
<1>11. CASE UNCHANGED previewVars
  BY <1>0, <1>11 DEF previewVars
<1> QED
  BY <1>1, <1>2, <1>3, <1>4, <1>5, <1>6, <1>7, <1>8, <1>9, <1>10, <1>11
     DEF PreviewNext

(* The preview's buffer never shows an update beyond the session's bound,  *)
(* and nothing on the connection is of an unknown session.                 *)
THEOREM PreviewTyped == PreviewSpec => []PreviewTypeOK
<1>1. PreviewInit => PaneBounds
  <2> SUFFICES ASSUME PreviewInit PROVE PaneBounds
    OBVIOUS
  <2>1. 0 \in 0 .. MaxSelect /\ 0 \in 0 .. MaxOutput
    BY PreviewAssumption
  <2>2. stream \in Seq(MadeResponse) /\ stream \in Seq(Response)
        /\ orders \in Seq(Shown) /\ requests \in Seq(Shown)
    BY DEF PreviewInit
  <2>3. output \in [Shown -> 0 .. MaxOutput]
    BY <2>1 DEF PreviewInit
  <2> QED
    BY <2>1, <2>2, <2>3 DEF PreviewInit, PaneBounds, PreviewTypeOK
<1>2. PaneBounds => PaneRest
  BY DEF PaneBounds, PreviewTypeOK, PaneRest
<1>3. PaneRest /\ PaneScreens => PaneBounds
  BY MadeAreResponses DEF PaneBounds, PreviewTypeOK, PaneRest, PaneScreens
<1>4. PaneBounds /\ [PreviewNext]_previewVars => PaneBounds'
  <2> SUFFICES ASSUME PaneBounds, [PreviewNext]_previewVars PROVE PaneBounds'
    OBVIOUS
  <2>1. PaneRest' /\ PaneScreens'
    BY <1>2, PaneRestKept, PaneScreensKept
  <2> QED
    BY <1>3, <2>1, PTL
<1>5. PaneBounds => PreviewTypeOK
  BY DEF PaneBounds
<1> QED
  BY <1>1, <1>4, <1>5, PTL DEF PreviewSpec
=============================================================================
