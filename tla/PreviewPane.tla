----------------------------- MODULE PreviewPane -----------------------------
(***************************************************************************)
(* The preview of the TUI's session page (tui/sessions/preview.rs): the    *)
(* page asks for the session under the cursor, a subscriber thread attaches*)
(* to it over its own daemon connection and applies what the connection    *)
(* streams to the buffer the page draws.                                   *)
(*                                                                         *)
(* A screen is the set of its session's updates that it shows.  The daemon *)
(* takes its snapshot and subscribes the connection in one step here:      *)
(* ScreenStream is about what happens in between.                          *)
(***************************************************************************)
EXTENDS Naturals, Sequences

CONSTANTS
  Shown,          \* sessions of the page
  NoShown,        \* no session
  MaxSelect,      \* bound: changes of the selection
  MaxOutput       \* bound: updates of each session

ASSUME NoShownAssumption == NoShown \notin Shown
ASSUME PreviewAssumption == {MaxSelect, MaxOutput} \subseteq Nat

VARIABLES
  selected,       \* preview_attached_daemon_id
  selections,     \* how often it has changed
  orders,         \* the channel from the page to the subscriber
  client,         \* the subscriber's connection: none, ready or awaiting
  up,             \* is that connection open at the daemon's end?
  wanted,         \* the session of the attach that is awaited
  current,        \* current_session
  requests,       \* attach requests on their way to the daemon
  stream,         \* responses on their way to the subscriber
  streams,        \* the session the daemon streams to the connection
  output,         \* how many updates each session has made
  ended,          \* sessions that have exited
  buffer,         \* PreviewBuffer: whose screen, and which updates it shows
  overtaken       \* history: an aborted forwarder got a last update in

previewVars == <<selected, selections, orders, client, up, wanted, current,
                 requests, stream, streams, output, ended, buffer, overtaken>>
pageVars == <<selected, selections>>
daemonVars == <<up, streams, output, ended, overtaken>>

Screen == [of : Shown, has : SUBSET (1 .. MaxOutput)]
NoScreen == [of |-> NoShown, has |-> {}]
Response == [kind : {"state", "update", "exited", "error"}, of : Shown,
             at : 0 .. MaxOutput]

PreviewTypeOK ==
  /\ {selected, wanted, current, streams} \subseteq Shown \cup {NoShown}
  /\ selections \in 0 .. MaxSelect
  /\ orders \in Seq(Shown) /\ requests \in Seq(Shown)
  /\ client \in {"none", "ready", "awaiting"}
  /\ stream \in Seq(Response)
  /\ output \in [Shown -> 0 .. MaxOutput]
  /\ ended \subseteq Shown
  /\ buffer \in Screen \cup {NoScreen}
  /\ {up, overtaken} \subseteq BOOLEAN

PreviewInit ==
  /\ selected = NoShown /\ wanted = NoShown /\ current = NoShown
  /\ streams = NoShown
  /\ selections = 0
  /\ orders = <<>> /\ requests = <<>> /\ stream = <<>>
  /\ client = "none" /\ up = FALSE
  /\ output = [s \in Shown |-> 0]
  /\ ended = {}
  /\ buffer = NoScreen
  /\ overtaken = FALSE

State(s) == [kind |-> "state", of |-> s, at |-> output[s]]
Other(kind, s) == [kind |-> kind, of |-> s, at |-> 0]

-----------------------------------------------------------------------------
(* fetch_preview_daemon, with the cursor on another session: it orders an  *)
(* attach, once, and does not learn what becomes of it.                    *)
Select(s) ==
  /\ s # selected
  /\ selections < MaxSelect
  /\ selected' = s /\ selections' = selections + 1
  /\ orders' = Append(orders, s)
  /\ UNCHANGED <<client, wanted, current, requests, stream, daemonVars, buffer>>

(* An order: connect first if need be, and attach.  An order that finds no *)
(* daemon is dropped, and one on a connection that has closed is lost.     *)
TakeOrder(connects) ==
  /\ client # "awaiting" /\ orders # <<>>
  /\ orders' = Tail(orders)
  /\ IF client = "ready" \/ connects
       THEN /\ client' = "awaiting"
            /\ wanted' = Head(orders)
            /\ up' = (up \/ client = "none")
            /\ requests' = IF up' THEN Append(requests, Head(orders))
                           ELSE requests
       ELSE UNCHANGED <<client, up, wanted, requests>>
  /\ UNCHANGED <<pageVars, current, stream, streams, output, ended, buffer,
                 overtaken>>

(* The next response is the attach's, or so the subscriber thinks: a       *)
(* snapshot, of whatever session, becomes the screen of the session it     *)
(* wanted; anything else ends the attach.                                  *)
TakeReply ==
  /\ client = "awaiting" /\ stream # <<>>
  /\ client' = "ready"
  /\ stream' = Tail(stream)
  /\ IF Head(stream).kind = "state"
       THEN /\ buffer' = [of |-> Head(stream).of, has |-> 1 .. Head(stream).at]
            /\ current' = wanted
       ELSE /\ current' = NoShown
            /\ UNCHANGED buffer
  /\ UNCHANGED <<pageVars, orders, wanted, requests, daemonVars>>

(* The three seconds of an attach pass.                                    *)
AttachTimesOut ==
  /\ client = "awaiting" /\ up /\ stream = <<>>
  /\ client' = "ready"
  /\ current' = NoShown
  /\ UNCHANGED <<pageVars, orders, wanted, requests, stream, daemonVars, buffer>>

(* Fault: a snapshot that answers a lag is not expected.                   *)
ApplyUpdatesOnly(r) ==
  /\ buffer' = IF r.kind = "exited" THEN NoScreen
               ELSE IF r.kind = "update" /\ buffer # NoScreen
                 THEN [buffer EXCEPT !.has = @ \cup {r.at}]
                 ELSE buffer
  /\ current' = IF r.kind = "exited" THEN NoShown ELSE current

(* What a response does to the buffer, if there is one; nothing checks     *)
(* which session it is of.                                                 *)
ApplyResponse(r) ==
  /\ buffer' =
       CASE r.kind = "exited" -> NoScreen
         [] r.kind = "state" /\ buffer # NoScreen ->
              [of |-> r.of, has |-> 1 .. r.at]
         [] r.kind = "update" /\ buffer # NoScreen ->
              [buffer EXCEPT !.has = @ \cup {r.at}]
         [] OTHER -> buffer
  /\ current' = IF r.kind = "exited" THEN NoShown ELSE current

(* Without an order, and with a session, the subscriber reads the stream.  *)
ReadStream ==
  /\ client = "ready" /\ current # NoShown
  /\ orders = <<>> /\ stream # <<>>
  /\ stream' = Tail(stream)
  /\ ApplyResponse(Head(stream))
  /\ UNCHANGED <<pageVars, orders, client, wanted, requests, daemonVars>>

-----------------------------------------------------------------------------
(* The daemon handles an attach: it aborts the connection's forwarder, and *)
(* answers with a snapshot, or an error when the session has gone.  An     *)
(* aborted forwarder that is just running may still get an update through. *)
HandleAttach(late) ==
  /\ requests # <<>>
  /\ requests' = Tail(requests)
  /\ LET s == Head(requests)
         reply == IF s \in ended THEN Other("error", s) ELSE State(s)
         lates == late /\ streams # NoShown /\ streams # s
                  /\ output[streams] < MaxOutput
     IN
     /\ streams' = IF s \in ended THEN NoShown ELSE s
     /\ IF lates
          THEN /\ output' = [output EXCEPT ![streams] = @ + 1]
               /\ stream' = stream \o <<reply, [kind |-> "update", of |-> streams,
                                                at |-> output'[streams]]>>
               /\ overtaken' = TRUE
          ELSE /\ stream' = Append(stream, reply)
               /\ UNCHANGED <<output, overtaken>>
  /\ UNCHANGED <<pageVars, orders, client, up, wanted, current, ended, buffer>>

(* A session's screen changes; the connection that streams it gets the     *)
(* update, or a snapshot if it has lagged behind.                          *)
Update(s, lagged) ==
  /\ s \notin ended /\ output[s] < MaxOutput
  /\ output' = [output EXCEPT ![s] = @ + 1]
  /\ stream' = IF streams # s THEN stream
               ELSE Append(stream, [kind |-> IF lagged THEN "state" ELSE "update",
                                    of |-> s, at |-> output'[s]])
  /\ UNCHANGED <<pageVars, orders, client, up, wanted, current, requests,
                 streams, ended, buffer, overtaken>>

(* A session ends; one that is killed does not tell its clients.           *)
SessionEnds(s, killed) ==
  /\ s \notin ended
  /\ ended' = ended \cup {s}
  /\ IF streams = s
       THEN /\ streams' = NoShown
            /\ stream' = IF killed THEN stream
                         ELSE Append(stream, Other("exited", s))
       ELSE UNCHANGED <<streams, stream>>
  /\ UNCHANGED <<pageVars, orders, client, up, wanted, current, requests,
                 output, buffer, overtaken>>

(* The connection closes,                                                  *)
ConnectionCloses ==
  /\ up
  /\ up' = FALSE
  /\ requests' = <<>>
  /\ streams' = NoShown
  /\ UNCHANGED <<pageVars, orders, client, wanted, current, stream, output, ended,
                 buffer, overtaken>>

(* which the subscriber notices when it reads the end of it.               *)
FindClosed ==
  /\ ~up /\ stream = <<>>
  /\ client = "awaiting" \/ (client = "ready" /\ current # NoShown /\ orders = <<>>)
  /\ client' = "none"
  /\ current' = NoShown
  /\ UNCHANGED <<pageVars, orders, wanted, requests, stream, daemonVars, buffer>>

PreviewNext ==
  \/ \E s \in Shown : Select(s)
  \/ \E connects \in BOOLEAN : TakeOrder(connects)
  \/ TakeReply \/ AttachTimesOut \/ ReadStream
  \/ \E late \in BOOLEAN : HandleAttach(late)
  \/ \E s \in Shown, flag \in BOOLEAN : Update(s, flag) \/ SessionEnds(s, flag)
  \/ ConnectionCloses \/ FindClosed

PreviewSpec == PreviewInit /\ [][PreviewNext]_previewVars

-----------------------------------------------------------------------------
(* Once the subscriber has caught up with its connection, and the daemon   *)
(* streams to it the session it thinks it shows, the preview is that       *)
(* session's screen, every update included, through changes of the         *)
(* selection, timeouts, replies taken for other requests and reconnects;   *)
(* unless an aborted forwarder's last update overtook the new snapshot.    *)
CaughtUpIsCurrent ==
  /\ client = "ready" /\ stream = <<>> /\ requests = <<>>
  /\ current # NoShown /\ current = streams
  /\ ~overtaken
  => buffer = [of |-> current, has |-> 1 .. output[current]]
=============================================================================
