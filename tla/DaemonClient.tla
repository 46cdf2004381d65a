---------------------------- MODULE DaemonClient ----------------------------
(***************************************************************************)
(* Requests of one client over its connection to the daemon (client.rs):   *)
(* one at a time, each waits for the next response on the connection, for  *)
(* a while.  Responses carry no request id: the answer to a request that   *)
(* timed out is still to come, and is taken for the answer to the next.    *)
(***************************************************************************)
EXTENDS Naturals, Sequences

CONSTANTS
  MaxAsk,         \* bound: requests of all connections
  MaxConnection   \* bound: connections made

ASSUME ClientAssumption == {MaxAsk, MaxConnection} \subseteq Nat

(* Requests by what their caller accepts: spawn_session_named, ping and    *)
(* list_sessions a response of their own kind, kill_session Ok, and        *)
(* send_input, send_text, resize and detach any response but an error.     *)
AskKind == {"hello", "spawn", "kill", "input"}

VARIABLES
  link,           \* connection to the daemon: up, lost or none
  asks,           \* requests so far: their kinds, in order
  waiting,        \* is the client waiting for a response?
  asked,          \* requests the daemon has yet to handle, by number
  answers,        \* its responses on the way: number of the request, success
  carriedOut,     \* history: requests the daemon has carried out
  reportedDone,   \* history: requests reported to the caller as done
  expired,        \* history: requests of this connection that timed out
  connections,    \* history: connections made
  doubtful        \* history: requests made on a connection after a timeout

clientVars == <<link, asks, waiting, asked, answers, carriedOut, reportedDone,
                expired, connections, doubtful>>

AskNumber == 1 .. MaxAsk
Answer == [to : AskNumber, ok : BOOLEAN]

ClientTypeOK ==
  /\ link \in {"none", "up", "lost"}
  /\ asks \in Seq(AskKind) /\ Len(asks) <= MaxAsk
  /\ waiting \in BOOLEAN
  /\ asked \in Seq(AskNumber)
  /\ answers \in Seq(Answer)
  /\ {carriedOut, reportedDone, doubtful} \subseteq SUBSET AskNumber
  /\ expired \in 0 .. MaxAsk
  /\ connections \in 0 .. MaxConnection

ClientInit ==
  /\ link = "none" /\ connections = 0
  /\ asks = <<>> /\ waiting = FALSE
  /\ asked = <<>> /\ answers = <<>>
  /\ carriedOut = {} /\ reportedDone = {} /\ doubtful = {}
  /\ expired = 0

-----------------------------------------------------------------------------
(* request_with_timeout: the request goes to the writer task, and the      *)
(* client waits.                                                           *)
Sends(kind) ==
  /\ asks' = Append(asks, kind)
  /\ waiting' = TRUE

(* Fault: the new connection keeps the channel of the old one's responses. *)
ConnectKeepsAnswers ==
  /\ ~waiting /\ connections < MaxConnection
  /\ Len(asks) < MaxAsk
  /\ Sends("hello")
  /\ link' = "up"
  /\ connections' = connections + 1
  /\ asked' = <<Len(asks')>>
  /\ expired' = 0
  /\ UNCHANGED <<answers, carriedOut, reportedDone, doubtful>>

(* connect_to and reconnect: new tasks and channels, the old ones aborted, *)
(* so that nothing of an old connection reaches the client; and then the   *)
(* handshake, a request like any other.                                    *)
Connect ==
  /\ ~waiting /\ connections < MaxConnection
  /\ Len(asks) < MaxAsk
  /\ Sends("hello")
  /\ link' = "up"
  /\ connections' = connections + 1
  /\ asked' = <<Len(asks')>>
  /\ answers' = <<>>
  /\ expired' = 0
  /\ UNCHANGED <<carriedOut, reportedDone, doubtful>>

(* A request.  After one that timed out, even the handshake, the client    *)
(* can still be used: nothing closes its connection.  Nor does the client  *)
(* know that the connection is lost before it reads the end of it.         *)
Ask(kind) ==
  /\ link # "none" /\ ~waiting
  /\ Len(asks) < MaxAsk
  /\ Sends(kind)
  /\ asked' = IF link = "up" THEN Append(asked, Len(asks')) ELSE asked
  /\ doubtful' = IF expired > 0 THEN doubtful \cup {Len(asks')} ELSE doubtful
  /\ UNCHANGED <<link, answers, carriedOut, reportedDone, expired,
                 connections>>

(* The daemon handles the requests of a connection in order (handle_client).*)
Handle(ok) ==
  /\ link = "up" /\ asked # <<>>
  /\ asked' = Tail(asked)
  /\ answers' = Append(answers, [to |-> Head(asked), ok |-> ok])
  /\ carriedOut' = IF ok THEN carriedOut \cup {Head(asked)} ELSE carriedOut
  /\ UNCHANGED <<link, asks, waiting, reportedDone, expired,
                 connections, doubtful>>

(* The kind of response each request gets when it succeeds.                *)
ResponseKind(kind) == IF kind \in {"kill", "input"} THEN "ok" ELSE kind

(* What the caller makes of a response; perform_handshake lets anything    *)
(* but an error pass.                                                      *)
Accepts(kind, answer) ==
  /\ answer.ok
  /\ \/ kind \in {"hello", "input"}
     \/ ResponseKind(kind) = ResponseKind(asks[answer.to])

(* The next response is the answer.                                        *)
TakeAnswer ==
  /\ waiting /\ answers # <<>>
  /\ waiting' = FALSE
  /\ answers' = Tail(answers)
  /\ reportedDone' = IF Accepts(asks[Len(asks)], Head(answers))
                       THEN reportedDone \cup {Len(asks)} ELSE reportedDone
  /\ UNCHANGED <<link, asks, asked, carriedOut, expired, connections,
                 doubtful>>

TimeOut ==
  /\ waiting
  /\ waiting' = FALSE
  /\ expired' = expired + 1
  /\ UNCHANGED <<link, asks, asked, answers, carriedOut, reportedDone, connections, doubtful>>

(* The daemon goes: what it has sent can still be read.                    *)
LinkLost ==
  /\ link = "up"
  /\ link' = "lost"
  /\ asked' = <<>>
  /\ UNCHANGED <<asks, waiting, answers, carriedOut, reportedDone,
                 expired, connections, doubtful>>

(* The response channel is closed and empty.                               *)
FindLinkLost ==
  /\ link = "lost" /\ waiting /\ answers = <<>>
  /\ waiting' = FALSE
  /\ UNCHANGED <<link, asks, asked, answers, carriedOut, reportedDone,
                 expired, connections, doubtful>>

ClientNext ==
  \/ Connect
  \/ \E kind \in AskKind \ {"hello"} : Ask(kind)
  \/ \E ok \in BOOLEAN : Handle(ok)
  \/ TakeAnswer \/ TimeOut \/ LinkLost \/ FindLinkLost

ClientSpec == ClientInit /\ [][ClientNext]_clientVars

-----------------------------------------------------------------------------
(* A request reported as done has been carried out by the daemon, across   *)
(* failures, lost connections and reconnects, unless an earlier request on *)
(* the same connection timed out.                                          *)
DoneIsDone == reportedDone \subseteq carriedOut \cup doubtful

(* One timeout shifts every later answer of the connection: the next       *)
(* response is the answer to the request that many before it.              *)
AnswersAreShifted ==
  waiting /\ answers # <<>> => Head(answers).to = Len(asks) - expired
=============================================================================
