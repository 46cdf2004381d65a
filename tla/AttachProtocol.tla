--------------------------- MODULE AttachProtocol ---------------------------
(***************************************************************************)
(* Attaching to a session over a socket connection (handle_client in       *)
(* daemon/client_handler.rs with the Attach and Detach arms of             *)
(* handle_request): the connection's own record of what it is attached to, *)
(* the forwarder task that streams updates to it, and the session's        *)
(* attached_count, a wrapping u64 that all connections share.              *)
(*                                                                         *)
(* The sessions themselves come and go as SessionTable allows, between any *)
(* two steps of an attach.                                                 *)
(***************************************************************************)
EXTENDS Integers, FiniteSets

CONSTANTS
  Client,        \* connections
  Session,       \* session ids
  None,          \* no session, no client
  CountModulus,  \* attached_count wraps at this value (2^64 in the code)
  Faults         \* what may go wrong on the client's side

ASSUME ClientAssumption == IsFiniteSet(Client)
ASSUME NoneAssumption == None \notin Client \cup Session
ASSUME CountModulusAssumption ==
  CountModulus \in Nat /\ CountModulus > Cardinality(Client)
ASSUME FaultsAssumption == Faults \subseteq {"strayDetach", "writerStops"}

VARIABLES
  status,        \* SessionTable: unused, live (in Daemon.sessions) or gone
  count,         \* Session.attached_count
  sizedBy,       \* the client whose initial_size the session has
  pc,            \* where the connection's handler is
  target,        \* the session of the attach under way
  attached,      \* the handler's attached_session
  forwarder,     \* the session its forwarder task streams, None without one
  writerAlive,   \* does the connection's writer task still take responses?
  leaked,        \* history: connections that lost the handle of a forwarder
  stray          \* history: sessions whose count was given back without a hold
                 \* or whose hold was dropped

vars == <<status, count, sizedBy, pc, target, attached, forwarder, writerAlive,
          leaked, stray>>

Table == INSTANCE SessionTable WITH Id <- Session

TypeOK ==
  /\ Table!TypeOK
  /\ count \in [Session -> 0 .. (CountModulus - 1)]
  /\ sizedBy \in [Session -> Client \cup {None}]
  /\ pc \in [Client -> {"read", "count", "snapshot", "subscribe", "cleanup",
                        "closed"}]
  /\ target \in [Client -> Session \cup {None}]
  /\ attached \in [Client -> Session \cup {None}]
  /\ forwarder \in [Client -> Session \cup {None}]
  /\ writerAlive \in [Client -> BOOLEAN]
  /\ leaked \subseteq Client
  /\ stray \subseteq Session

Init ==
  /\ Table!Init
  /\ count = [s \in Session |-> 0]
  /\ sizedBy = [s \in Session |-> None]
  /\ pc = [c \in Client |-> "closed"]
  /\ target = [c \in Client |-> None]
  /\ attached = [c \in Client |-> None]
  /\ forwarder = [c \in Client |-> None]
  /\ writerAlive = [c \in Client |-> FALSE]
  /\ leaked = {}
  /\ stray = {}

Live(s) == s \in Session /\ status[s] = "live"

-----------------------------------------------------------------------------
(* fetch_add and fetch_sub, which wrap.                                    *)
Increment(s) == count' = [count EXCEPT ![s] = (@ + 1) % CountModulus]

(* Fault: the count is a signed number that does not wrap.               *)
GiveBackBelowZero(c, s) ==
  IF Live(s)
  THEN /\ count' = [count EXCEPT ![s] = @ - 1]
       /\ stray' = IF forwarder[c] = s THEN stray ELSE stray \cup {s}
  ELSE UNCHANGED <<count, stray>>

(* The handler gives back one attachment of s, if s is still in the map.   *)
(* Nothing checks that this connection holds one.                          *)
GiveBack(c, s) ==
  IF Live(s)
  THEN /\ count' = [count EXCEPT ![s] = (@ - 1) % CountModulus]
       /\ stray' = IF forwarder[c] = s THEN stray ELSE stray \cup {s}
  ELSE UNCHANGED <<count, stray>>

AfterSend(c, next) == IF writerAlive[c] THEN next ELSE "cleanup"

-----------------------------------------------------------------------------
(* The listener hands a new connection to a handler.                       *)
Accept(c) ==
  /\ pc[c] = "closed"
  /\ pc' = [pc EXCEPT ![c] = "read"]
  /\ writerAlive' = [writerAlive EXCEPT ![c] = TRUE]
  /\ UNCHANGED <<status, count, sizedBy, target, attached, forwarder, leaked,
                 stray>>

(* Fault: the old forwarder is not aborted on a re-attach.                 *)
BeginAttachKeepingForwarder(c, s) ==
  /\ pc[c] = "read"
  /\ pc' = [pc EXCEPT ![c] = "count"]
  /\ target' = [target EXCEPT ![c] = s]
  /\ IF attached[c] = None THEN UNCHANGED <<count, stray>>
     ELSE GiveBack(c, attached[c])
  /\ UNCHANGED <<status, sizedBy, attached, forwarder, writerAlive, leaked>>

(* An Attach request arrives.  A connection that is attached aborts its    *)
(* forwarder and gives its attachment back, but still records it.          *)
BeginAttach(c, s) ==
  /\ pc[c] = "read"
  /\ pc' = [pc EXCEPT ![c] = "count"]
  /\ target' = [target EXCEPT ![c] = s]
  /\ \/ /\ attached[c] = None
        /\ UNCHANGED <<count, stray, forwarder>>
     \/ /\ attached[c] # None
        /\ GiveBack(c, attached[c])
        /\ forwarder' = [forwarder EXCEPT ![c] = None]
  /\ UNCHANGED <<status, sizedBy, attached, writerAlive, leaked>>

(* Fault: the initial size is applied while one client is attached.        *)
CountAttachOffByOne(c) ==
  /\ pc[c] = "count"
  /\ Live(target[c])
  /\ Increment(target[c])
  /\ \/ UNCHANGED sizedBy
     \/ /\ count[target[c]] <= 1
        /\ sizedBy' = [sizedBy EXCEPT ![target[c]] = c]
  /\ pc' = [pc EXCEPT ![c] = "snapshot"]
  /\ UNCHANGED <<status, target, attached, forwarder, writerAlive, leaked,
                 stray>>

(* handle_request(Attach), first lock: the initial size is applied when no *)
(* other client is attached, and this one is counted.                      *)
CountAttach(c) ==
  /\ pc[c] = "count"
  /\ Live(target[c])
  /\ Increment(target[c])
  /\ \/ UNCHANGED sizedBy
     \/ /\ count[target[c]] = 0
        /\ sizedBy' = [sizedBy EXCEPT ![target[c]] = c]
  /\ pc' = [pc EXCEPT ![c] = "snapshot"]
  /\ UNCHANGED <<status, target, attached, forwarder, writerAlive, leaked,
                 stray>>

(* "Session not found": the reply is an error and nothing is undone.       *)
RefuseAttach(c) ==
  /\ pc[c] = "count"
  /\ ~Live(target[c])
  /\ pc' = [pc EXCEPT ![c] = AfterSend(c, "read")]
  /\ target' = [target EXCEPT ![c] = None]
  /\ UNCHANGED <<status, count, sizedBy, attached, forwarder, writerAlive,
                 leaked, stray>>

(* Second lock: the snapshot is taken and sent, or the session has         *)
(* disappeared.  When the writer is gone the handler leaves its loop, and  *)
(* the attachment just counted is never given back.                        *)
SendSnapshot(c) ==
  /\ pc[c] = "snapshot"
  /\ pc' = [pc EXCEPT ![c] =
              AfterSend(c, IF Live(target[c]) THEN "subscribe" ELSE "read")]
  /\ IF pc'[c] = "subscribe" THEN UNCHANGED target
     ELSE target' = [target EXCEPT ![c] = None]
  /\ stray' = IF pc'[c] = "cleanup" THEN stray \cup {target[c]} ELSE stray
  /\ UNCHANGED <<status, count, sizedBy, attached, forwarder, writerAlive,
                 leaked>>

(* Third lock: the connection subscribes and starts its forwarder; if the  *)
(* session left the map meanwhile the old record stays.                    *)
Subscribe(c) ==
  /\ pc[c] = "subscribe"
  /\ \/ /\ Live(target[c])
        /\ attached' = [attached EXCEPT ![c] = target[c]]
        /\ forwarder' = [forwarder EXCEPT ![c] = target[c]]
        /\ leaked' = IF forwarder[c] # None THEN leaked \cup {c} ELSE leaked
     \/ /\ ~Live(target[c])
        /\ UNCHANGED <<attached, forwarder, leaked>>
  /\ target' = [target EXCEPT ![c] = None]
  /\ pc' = [pc EXCEPT ![c] = "read"]
  /\ UNCHANGED <<status, count, sizedBy, writerAlive, stray>>

(* Fault: Detach clears the record and leaves the forwarder running.       *)
DetachKeepingForwarder(c, s) ==
  /\ pc[c] = "read"
  /\ "strayDetach" \in Faults \/ attached[c] = s
  /\ GiveBack(c, s)
  /\ attached' = [attached EXCEPT ![c] = IF @ = s THEN None ELSE @]
  /\ pc' = [pc EXCEPT ![c] = AfterSend(c, "read")]
  /\ UNCHANGED <<status, sizedBy, target, forwarder, writerAlive, leaked>>

(* Detach: the forwarder is aborted when it is this session's, the count   *)
(* goes down whoever asks.  A client that detaches from a session it is    *)
(* not attached to is one of the faults.                                   *)
Detach(c, s) ==
  /\ pc[c] = "read"
  /\ "strayDetach" \in Faults \/ attached[c] = s
  /\ GiveBack(c, s)
  /\ \/ /\ attached[c] = s
        /\ forwarder' = [forwarder EXCEPT ![c] = None]
        /\ attached' = [attached EXCEPT ![c] = None]
     \/ /\ attached[c] # s
        /\ UNCHANGED <<forwarder, attached>>
  /\ pc' = [pc EXCEPT ![c] = AfterSend(c, "read")]
  /\ UNCHANGED <<status, sizedBy, target, writerAlive, leaked>>

(* The client closes the connection, or a read fails.                      *)
Disconnect(c) ==
  /\ pc[c] = "read"
  /\ pc' = [pc EXCEPT ![c] = "cleanup"]
  /\ UNCHANGED <<status, count, sizedBy, target, attached, forwarder,
                 writerAlive, leaked, stray>>

(* A write to the client fails and the writer task ends.                   *)
WriterStops(c) ==
  /\ "writerStops" \in Faults
  /\ writerAlive[c]
  /\ writerAlive' = [writerAlive EXCEPT ![c] = FALSE]
  /\ UNCHANGED <<status, count, sizedBy, pc, target, attached, forwarder,
                 leaked, stray>>

(* Fault: a disconnect does not give the attachment back.                  *)
CleanUpKeepingCount(c) ==
  /\ pc[c] = "cleanup"
  /\ forwarder' = [forwarder EXCEPT ![c] = None]
  /\ attached' = [attached EXCEPT ![c] = None]
  /\ writerAlive' = [writerAlive EXCEPT ![c] = FALSE]
  /\ pc' = [pc EXCEPT ![c] = "closed"]
  /\ UNCHANGED <<status, count, sizedBy, target, leaked, stray>>

(* After the loop: abort the forwarder, give the attachment back.          *)
CleanUp(c) ==
  /\ pc[c] = "cleanup"
  /\ \/ /\ attached[c] = None
        /\ UNCHANGED <<count, stray>>
     \/ /\ attached[c] # None
        /\ GiveBack(c, attached[c])
  /\ forwarder' = [forwarder EXCEPT ![c] = None]
  /\ attached' = [attached EXCEPT ![c] = None]
  /\ writerAlive' = [writerAlive EXCEPT ![c] = FALSE]
  /\ pc' = [pc EXCEPT ![c] = "closed"]
  /\ UNCHANGED <<status, sizedBy, target, leaked>>

(* Spawns, kills and exits, as the session table allows.                   *)
TableStep ==
  /\ Table!Next
  /\ UNCHANGED <<count, sizedBy, pc, target, attached, forwarder, writerAlive,
                 leaked, stray>>

ClientStep(c) ==
  \/ Accept(c)
  \/ CountAttach(c)
  \/ RefuseAttach(c)
  \/ SendSnapshot(c)
  \/ Subscribe(c)
  \/ Disconnect(c)
  \/ WriterStops(c)
  \/ CleanUp(c)
  \/ \E s \in Session : BeginAttach(c, s) \/ Detach(c, s)

Next == TableStep \/ \E c \in Client : ClientStep(c)

Spec == Init /\ [][Next]_vars

-----------------------------------------------------------------------------
(* A connection holds an attachment of s while its forwarder streams s, or *)
(* while it has been counted and not subscribed yet.                       *)
Holds(c, s) ==
  \/ forwarder[c] = s
  \/ pc[c] \in {"snapshot", "subscribe"} /\ target[c] = s

Holders(s) == {c \in Client : Holds(c, s)}

(* The count of a live session is exactly the number of connections that   *)
(* hold it, through re-attaches, failed attaches, disconnects and sessions *)
(* that vanish in mid-attach, until some connection gives back what it     *)
(* does not hold or drops what it holds.                                   *)
CountIsHolders ==
  \A s \in Session : Live(s) /\ s \notin stray => count[s] = Cardinality(Holders(s))

(* No forwarder runs beside the one a connection records, which would      *)
(* duplicate every update to its client.                                   *)
OneStream == leaked = {}

(* Between requests every forwarder that runs streams the session its      *)
(* connection records, and is the only one, so that Detach and disconnect  *)
(* stop all that streams to a client.                                      *)
StreamIsRecorded ==
  /\ OneStream
  /\ \A c \in Client : forwarder[c] # None => attached[c] = forwarder[c]

(* An attach resizes a session only when no other connection holds it.     *)
SizeIsNotStolen ==
  [][\A s \in Session :
       sizedBy'[s] # sizedBy[s] /\ s \notin stray => Holders(s) = {}]_vars

-----------------------------------------------------------------------------
(* daemon/mod.rs calls attached_count the "number of attached frontend     *)
(* clients": with every connection idle it should be the number of         *)
(* connections that stream the session.                                    *)
CountIsAttachedClients ==
  (\A c \in Client : pc[c] \in {"read", "closed"}) =>
    \A s \in Session :
      Live(s) => count[s] = Cardinality({c \in Client : forwarder[c] = s})
=============================================================================
