---------------------------- MODULE SemanticBus ----------------------------
(***************************************************************************)
(* The semantic event bus (semantic_state.rs): a map of session states     *)
(* under a lock and a broadcast channel of events.  Every operation        *)
(* changes the map under the lock and emits its event after releasing it,  *)
(* so what two tasks change in one order they may emit in the other.       *)
(*                                                                         *)
(* The tasks are the spawn, the notification relay and the end of each     *)
(* daemon session, and the watcher that imports the sessions of state      *)
(* files (daemon/entry.rs).  Each subscriber (daemon/client_handler.rs)    *)
(* takes snapshots and then applies events as daemon_subscriber.rs does.   *)
(*                                                                         *)
(* Of a state the owner, the activity and the current tool are kept;       *)
(* runtime, title and context travel by the same two steps and are left    *)
(* out, as are the events that carry only them.  Of the tool events        *)
(* ToolStarted is kept, which subscribers take for an activity of          *)
(* toolRunning; ToolCompleted changes no activity they show.               *)
(***************************************************************************)
EXTENDS Naturals, Sequences

CONSTANTS
  Daemon,        \* ids of PTY sessions the daemon spawns
  External,      \* ids of sessions known from state files only
  Tool,          \* names of tools
  Content,       \* what a state file may say of its session
  NoSession,     \* not a session
  Client,        \* connections that subscribe to all sessions
  Capacity       \* of the event channel (256 in the code)

ASSUME SessionAssumption ==
  Daemon \cap External = {} /\ NoSession \notin Daemon \cup External

Alive == {"idle", "toolRunning"}

ASSUME ContentAssumption ==
  Content \subseteq [activity : Alive, tool : {"none"} \cup Tool]
ASSUME CapacityAssumption == Capacity \in Nat \ {0}

VARIABLES
  owner,         \* states: who a session's state belongs to, none if absent
  activity,      \* states: its activity, gone when it is not alive
  tool,          \* states: its current tool
  life,          \* how far the spawn of each daemon session is
  ending,        \* how far the end of each daemon session is
  file,          \* the state file of each session
  pending,       \* each task: the event it has yet to emit
  watcher,       \* the state-file watcher's step and its local variables
  sub,           \* each connection: out, registered (receiver made), in
  queue,         \* each receiver's unread events
  lagged,        \* receivers that lost their oldest events
  view,          \* what each subscriber shows of each session
  lost,          \* history: connections that lagged since they subscribed
  outrun,        \* history: sessions with a birth and an end out of order
  overstated     \* history: external sessions whose last event was the start of
                 \* a tool in another activity than toolRunning

busVars == <<owner, activity, tool>>
sessionVars == <<life, ending, file>>
clientVars == <<sub, queue, lagged, view, lost>>
history == <<outrun, overstated>>
vars == <<busVars, sessionVars, pending, watcher, clientVars, history>>

Session == Daemon \cup External

(* There is no state file.                                                 *)
NoFile == [activity |-> "none", tool |-> "none"]
Unread == [s \in Session |-> NoFile]

Event == [id : Session, kind : {"spawned", "exited"} \cup Alive]
NoEvent == [id |-> NoSession, kind |-> "none"]
EventOf(s, k) == [id |-> s, kind |-> k]

SpawnTask(s) == <<"spawn", s>>
RelayTask(s) == <<"relay", s>>
EndTask(s) == <<"end", s>>
WatcherTask == <<"watcher", NoSession>>
Task == ({"spawn", "relay", "end"} \X Daemon) \cup {WatcherTask}

WatcherStep == {"idle", "check", "import", "tool", "initial", "sweep",
                "remove"}

TypeOK ==
  /\ owner \in [Session -> {"none", "daemon", "external"}]
  /\ activity \in [Session -> {"none", "gone"} \cup Alive]
  /\ tool \in [Session -> {"none"} \cup Tool]
  /\ life \in [Daemon -> {"unborn", "started", "published"}]
  /\ ending \in [Daemon -> {"no", "announced", "removed"}]
  /\ file \in [Session -> Content \cup {NoFile}]
  /\ pending \in [Task -> Event \cup {NoEvent}]
  /\ watcher \in [step : WatcherStep, read : [Session -> Content \cup {NoFile}],
                  todo : SUBSET Session, current : SUBSET Session,
                  known : SUBSET Session, target : Session \cup {NoSession}]
  /\ sub \in [Client -> {"out", "registered", "in"}]
  /\ queue \in [Client -> Seq(Event)]
  /\ \A c \in Client : Len(queue[c]) <= Capacity
  /\ lagged \subseteq Client
  /\ view \in [Client -> [Session -> {"none", "gone"} \cup Alive]]
  /\ lost \subseteq Client
  /\ outrun \subseteq Session
  /\ overstated \subseteq External

Unseen == [s \in Session |-> "none"]

Init ==
  /\ owner = [s \in Session |-> "none"]
  /\ activity = Unseen
  /\ tool = [s \in Session |-> "none"]
  /\ life = [s \in Daemon |-> "unborn"]
  /\ ending = [s \in Daemon |-> "no"]
  /\ file = Unread
  /\ pending = [t \in Task |-> NoEvent]
  /\ watcher = [step |-> "idle", read |-> Unread, todo |-> {}, current |-> {},
                known |-> {}, target |-> NoSession]
  /\ sub = [c \in Client |-> "out"]
  /\ queue = [c \in Client |-> <<>>]
  /\ lagged = {}
  /\ view = [c \in Client |-> Unseen]
  /\ lost = {}
  /\ outrun = {}
  /\ overstated = {}

-----------------------------------------------------------------------------
(* The lock-protected half of an operation: a new state, a changed         *)
(* activity (of a session that is not alive nothing shows), a changed      *)
(* tool, no state.                                                         *)
InsertState(s, who, a, t) ==
  /\ owner' = [owner EXCEPT ![s] = who]
  /\ activity' = [activity EXCEPT ![s] = a]
  /\ tool' = [tool EXCEPT ![s] = t]

SetActivity(s, a) ==
  /\ activity' = [activity EXCEPT ![s] = IF @ \in Alive THEN a ELSE @]
  /\ UNCHANGED owner

SetTool(s, t) == tool' = [tool EXCEPT ![s] = t]

RemoveState(s) == InsertState(s, "none", "none", "none")

(* A task takes one operation at a time and emits before the next.         *)
Ready(t) == pending[t] = NoEvent

Emits(t, s, k) == pending' = [pending EXCEPT ![t] = EventOf(s, k)]

Announcing(s, k) == \E t \in Task : pending[t] = EventOf(s, k)

Outruns(s, condition) == outrun' = IF condition THEN outrun \cup {s} ELSE outrun

-----------------------------------------------------------------------------
(* A session's child starts; its inference may write a state file, and the *)
(* session may already be killed or exit.                                  *)
StartSession(s) ==
  /\ life[s] = "unborn"
  /\ life' = [life EXCEPT ![s] = "started"]
  /\ UNCHANGED <<busVars, ending, file, pending, watcher, clientVars, history>>

(* session_spawned, whatever state the id had before.                      *)
Publish(s) ==
  /\ life[s] = "started"
  /\ life' = [life EXCEPT ![s] = "published"]
  /\ InsertState(s, "daemon", "idle", "none")
  /\ Emits(SpawnTask(s), s, "spawned")
  /\ Outruns(s, Announcing(s, "exited"))
  /\ UNCHANGED <<ending, file, watcher, clientVars, overstated>>

(* process_notification, StatusChanged: silent when nothing changes.       *)
StatusChanged(s, a) ==
  /\ owner[s] # "none" /\ activity[s] # a
  /\ SetActivity(s, a)
  /\ SetTool(s, IF a = "toolRunning" THEN tool[s] ELSE "none")
  /\ Emits(RelayTask(s), s, a)

(* ToolStarted: emitted in any case.                                       *)
ToolStarted(s) ==
  /\ owner[s] # "none"
  /\ SetActivity(s, "toolRunning")
  /\ \E t \in Tool : SetTool(s, t)
  /\ Emits(RelayTask(s), s, "toolRunning")

(* ToolCompleted: the tool is over, whatever the activity.                 *)
ToolCompleted(s) ==
  /\ owner[s] # "none"
  /\ SetTool(s, "none")
  /\ UNCHANGED <<owner, activity, pending>>

(* CommandStarted: the state changes and no event says so.                 *)
CommandStarted(s) ==
  /\ owner[s] # "none"
  /\ SetActivity(s, "toolRunning")
  /\ \E t \in Tool : SetTool(s, t)
  /\ UNCHANGED pending

RelayNotification(s) ==
  /\ life[s] # "unborn"
  /\ Ready(RelayTask(s))
  /\ \/ \E a \in Alive : StatusChanged(s, a)
     \/ ToolStarted(s) \/ ToolCompleted(s)
     \/ CommandStarted(s)
  /\ UNCHANGED <<sessionVars, watcher, clientVars, history>>

(* session_exited, by whichever of kill and exit path is first (their race *)
(* is in SessionRegistry), maybe before the session is published; it does  *)
(* nothing when the bus has no state.                                      *)
EndSession(s) ==
  /\ life[s] # "unborn" /\ ending[s] = "no"
  /\ ending' = [ending EXCEPT ![s] = "announced"]
  /\ \/ /\ owner[s] = "none"
        /\ UNCHANGED <<busVars, pending>>
     \/ /\ owner[s] # "none"
        /\ activity' = [activity EXCEPT ![s] = "gone"]
        /\ Emits(EndTask(s), s, "exited")
        /\ UNCHANGED <<owner, tool>>
  /\ Outruns(s, life[s] = "started" \/ Announcing(s, "spawned"))
  /\ UNCHANGED <<life, file, watcher, clientVars, overstated>>

(* session_removed, which tells nobody: what the watcher has imported      *)
(* since session_exited goes without an event.                             *)
ForgetSession(s) ==
  /\ ending[s] = "announced" /\ Ready(EndTask(s))
  /\ ending' = [ending EXCEPT ![s] = "removed"]
  /\ RemoveState(s)
  /\ Outruns(s, activity[s] \in Alive)
  /\ UNCHANGED <<life, file, pending, watcher, clientVars, overstated>>

(* A hook or the inference engine writes or removes a state file: before a *)
(* daemon session starts there is none.                                    *)
WriteFile(s) ==
  /\ s \in Daemon => life[s] # "unborn"
  /\ \E content \in Content \cup {NoFile} : file' = [file EXCEPT ![s] = content]
  /\ UNCHANGED <<busVars, life, ending, pending, watcher, clientVars, history>>

-----------------------------------------------------------------------------
(* The watcher: a poll reads the files, and each session found is checked  *)
(* and, if the daemon does not own it, imported; what was read of it is    *)
(* then dropped.                                                           *)
Imported == [watcher EXCEPT !.step = "check", !.target = NoSession,
                            !.read[watcher.target] = NoFile]

Poll ==
  /\ watcher.step = "idle"
  /\ watcher' = [watcher EXCEPT !.step = "check", !.read = file,
                   !.todo = {s \in Session : file[s] # NoFile}, !.current = {}]
  /\ UNCHANGED <<busVars, sessionVars, pending, clientVars, history>>

CheckOwner(s) ==
  /\ watcher.step = "check" /\ s \in watcher.todo
  /\ Ready(WatcherTask)
  /\ watcher' =
       IF owner[s] = "daemon"
       THEN [watcher EXCEPT !.todo = @ \ {s}, !.read[s] = NoFile]
       ELSE [watcher EXCEPT !.todo = @ \ {s}, !.current = @ \cup {s},
                            !.target = s, !.step = "import"]
  /\ UNCHANGED <<busVars, sessionVars, pending, clientVars, history>>

(* An event of the watcher.  A started tool is shown as the activity       *)
(* toolRunning, whatever activity the file gives.                          *)
Tells(s, k) ==
  /\ Emits(WatcherTask, s, k)
  /\ overstated' = IF s \in External /\ k = "toolRunning" /\ activity'[s] # k
                   THEN overstated \cup {s} ELSE overstated \ {s}

(* A changed tool of the file: ToolStarted, unless it is only over.        *)
ChangeTool(s, t) ==
  /\ SetTool(s, t)
  /\ UNCHANGED <<owner, activity>>
  /\ IF t \in {tool[s], "none"} THEN UNCHANGED <<pending, overstated>>
     ELSE Tells(s, "toolRunning")

(* Fault: a new session's first activity is not emitted.                   *)
ImportWithoutActivity ==
  LET s == watcher.target
      f == watcher.read[s] IN
  /\ watcher.step = "import"
  /\ \/ /\ owner[s] = "none"
        /\ InsertState(s, "external", f.activity, f.tool)
        /\ Tells(s, "spawned")
        /\ Outruns(s, Announcing(s, "exited"))
     \/ /\ owner[s] # "none" /\ activity[s] # f.activity
        /\ SetActivity(s, f.activity)
        /\ Tells(s, f.activity)
        /\ UNCHANGED <<tool, outrun>>
     \/ /\ owner[s] # "none" /\ activity[s] = f.activity
        /\ ChangeTool(s, f.tool)
        /\ UNCHANGED outrun
  /\ watcher' = Imported
  /\ UNCHANGED <<sessionVars, clientVars>>

(* import_external_session, under the lock: a new session gets a state and *)
(* SessionSpawned, a known one an event for a changed activity or, if that *)
(* is the same, for a changed tool.                                        *)
Import ==
  LET s == watcher.target
      f == watcher.read[s] IN
  /\ watcher.step = "import"
  /\ \/ /\ owner[s] = "none"
        /\ InsertState(s, "external", f.activity, f.tool)
        /\ Tells(s, "spawned")
        /\ Outruns(s, Announcing(s, "exited"))
        /\ watcher' = IF f.activity = "idle" THEN Imported
                       ELSE [watcher EXCEPT !.step = "initial"]
     \/ /\ owner[s] # "none" /\ activity[s] # f.activity
        /\ SetActivity(s, f.activity)
        /\ Tells(s, f.activity)
        /\ watcher' = [watcher EXCEPT !.step = "tool"]
        /\ UNCHANGED <<tool, outrun>>
     \/ /\ owner[s] # "none" /\ activity[s] = f.activity
        /\ ChangeTool(s, f.tool)
        /\ watcher' = Imported
        /\ UNCHANGED outrun
  /\ UNCHANGED <<sessionVars, clientVars>>

(* After the event of a changed activity the lock is taken once more for   *)
(* the tool.                                                               *)
ImportTool ==
  LET s == watcher.target IN
  /\ watcher.step = "tool" /\ Ready(WatcherTask)
  /\ IF owner[s] = "none" THEN UNCHANGED <<busVars, pending, overstated>>
     ELSE ChangeTool(s, watcher.read[s].tool)
  /\ watcher' = Imported
  /\ UNCHANGED <<sessionVars, clientVars, outrun>>

(* After SessionSpawned the lock is taken once more for the activity.      *)
ImportInitialActivity ==
  LET s == watcher.target IN
  /\ watcher.step = "initial" /\ Ready(WatcherTask)
  /\ IF owner[s] = "none" THEN UNCHANGED pending
     ELSE Emits(WatcherTask, s, watcher.read[s].activity)
  /\ watcher' = Imported
  /\ UNCHANGED <<busVars, sessionVars, clientVars, history>>

(* Then the sessions of the last poll that this one did not find.          *)
BeginSweep ==
  /\ watcher.step = "check" /\ watcher.todo = {} /\ Ready(WatcherTask)
  /\ watcher' = [watcher EXCEPT !.step = "sweep", !.todo = watcher.known \ watcher.current]
  /\ UNCHANGED <<busVars, sessionVars, pending, clientVars, history>>

CheckGone(s) ==
  /\ watcher.step = "sweep" /\ s \in watcher.todo
  /\ Ready(WatcherTask)
  /\ watcher' =
       IF owner[s] = "daemon"
       THEN [watcher EXCEPT !.todo = @ \ {s}]
       ELSE [watcher EXCEPT !.todo = @ \ {s}, !.target = s, !.step = "remove"]
  /\ UNCHANGED <<busVars, sessionVars, pending, clientVars, history>>

(* Fault: the state is removed and nobody is told.                         *)
RemoveSilently ==
  /\ watcher.step = "remove"
  /\ RemoveState(watcher.target)
  /\ watcher' = [watcher EXCEPT !.step = "sweep", !.target = NoSession]
  /\ UNCHANGED <<sessionVars, pending, clientVars, history>>

(* remove_external_session, whose argument nothing checks any more.        *)
RemoveExternal ==
  LET s == watcher.target IN
  /\ watcher.step = "remove"
  /\ \/ /\ owner[s] = "none"
        /\ UNCHANGED <<busVars, pending, outrun>>
     \/ /\ owner[s] # "none"
        /\ RemoveState(s)
        /\ Emits(WatcherTask, s, "exited")
        /\ Outruns(s, Announcing(s, "spawned"))
  /\ watcher' = [watcher EXCEPT !.step = "sweep", !.target = NoSession]
  /\ UNCHANGED <<sessionVars, clientVars, overstated>>

EndSweep ==
  /\ watcher.step = "sweep" /\ watcher.todo = {} /\ Ready(WatcherTask)
  /\ watcher' = [watcher EXCEPT !.step = "idle", !.known = watcher.current,
                                !.current = {}]
  /\ UNCHANGED <<busVars, sessionVars, pending, clientVars, history>>

-----------------------------------------------------------------------------
Receivers == {c \in Client : sub[c] # "out"}

(* broadcast::Sender::send: a receiver that is Capacity behind loses its   *)
(* oldest event.                                                           *)
Push(c, e) ==
  IF Len(queue[c]) < Capacity THEN Append(queue[c], e)
  ELSE Append(Tail(queue[c]), e)

(* emit, with the lock released.                                           *)
Emit(t) ==
  /\ ~Ready(t)
  /\ queue' = [c \in Client |-> IF c \in Receivers THEN Push(c, pending[t]) ELSE queue[c]]
  /\ lagged' = lagged \cup {c \in Receivers : Len(queue[c]) = Capacity}
  /\ lost' = lost \cup {c \in Receivers : Len(queue[c]) = Capacity}
  /\ pending' = [pending EXCEPT ![t] = NoEvent]
  /\ UNCHANGED <<busVars, sessionVars, watcher, sub, view, history>>

(* SubscribeEvents: the receiver is made before the snapshots are taken.   *)
Register(c) ==
  /\ sub[c] = "out"
  /\ sub' = [sub EXCEPT ![c] = "registered"]
  /\ UNCHANGED <<busVars, sessionVars, pending, watcher, queue, lagged, view,
                 lost, history>>

(* apply_snapshot for every session the bus knows; the subscriber keeps    *)
(* what it shows of all others.                                            *)
Snapshots(v) == [s \in Session |-> IF owner[s] = "none" THEN v[s] ELSE activity[s]]

Sync(c) ==
  /\ sub[c] = "registered"
  /\ sub' = [sub EXCEPT ![c] = "in"]
  /\ view' = [view EXCEPT ![c] = Snapshots(@)]
  /\ UNCHANGED <<busVars, sessionVars, pending, watcher, queue, lagged, lost, history>>

(* apply_event: a spawn shows the session, whatever was shown before; the  *)
(* other events change only what is shown alive.                           *)
Shown(v, k) ==
  IF k = "spawned" THEN "idle"
  ELSE IF v \notin Alive THEN v
  ELSE IF k = "exited" THEN "gone" ELSE k

Forward(c) ==
  /\ sub[c] = "in" /\ c \notin lagged /\ queue[c] # <<>>
  /\ LET e == Head(queue[c]) IN
       view' = [view EXCEPT ![c][e.id] = Shown(@, e.kind)]
  /\ queue' = [queue EXCEPT ![c] = Tail(@)]
  /\ UNCHANGED <<busVars, sessionVars, pending, watcher, sub, lagged, lost, history>>

(* Fault: a lagged receiver just goes on with what is left.                *)
ResyncByContinuing(c) ==
  /\ sub[c] = "in" /\ c \in lagged
  /\ lagged' = lagged \ {c}
  /\ UNCHANGED <<busVars, sessionVars, pending, watcher, sub, queue, view, lost, history>>

(* RecvError::Lagged: snapshots, and then the events still in the channel. *)
Resync(c) ==
  /\ sub[c] = "in" /\ c \in lagged
  /\ lagged' = lagged \ {c}
  /\ view' = [view EXCEPT ![c] = Snapshots(@)]
  /\ UNCHANGED <<busVars, sessionVars, pending, watcher, sub, queue, lost, history>>

(* The connection ends; the next one starts with nothing.                  *)
Disconnect(c) ==
  /\ sub[c] = "in"
  /\ sub' = [sub EXCEPT ![c] = "out"]
  /\ queue' = [queue EXCEPT ![c] = <<>>]
  /\ lagged' = lagged \ {c}
  /\ lost' = lost \ {c}
  /\ view' = [view EXCEPT ![c] = Unseen]
  /\ UNCHANGED <<busVars, sessionVars, pending, watcher, history>>

-----------------------------------------------------------------------------
WatcherStepTaken ==
  \/ Poll \/ BeginSweep \/ EndSweep
  \/ Import \/ ImportTool \/ ImportInitialActivity \/ RemoveExternal
  \/ \E s \in Session : CheckOwner(s) \/ CheckGone(s)

Next ==
  \/ \E s \in Daemon :
       StartSession(s) \/ Publish(s) \/ RelayNotification(s) \/ EndSession(s)
       \/ ForgetSession(s)
  \/ \E s \in Session : WriteFile(s)
  \/ WatcherStepTaken
  \/ \E t \in Task : Emit(t)
  \/ \E c \in Client :
       Register(c) \/ Sync(c) \/ Forward(c) \/ Resync(c) \/ Disconnect(c)

Spec == Init /\ [][Next]_vars

(* What was begun under the lock is emitted, and connections keep reading; *)
(* sessions, files and the end of a connection promise nothing.            *)
Fairness ==
  /\ \A t \in Task : WF_vars(Emit(t))
  /\ \A c \in Client : WF_vars(Sync(c)) /\ WF_vars(Forward(c) \/ Resync(c))

FairSpec == Spec /\ Fairness

-----------------------------------------------------------------------------
(* Nothing is on its way to the subscribers.                               *)
Quiet ==
  /\ \A t \in Task : Ready(t)
  /\ watcher.step \notin {"initial", "tool"}
  /\ lagged = {}
  /\ \A c \in Client : queue[c] = <<>>

(* Subscribing before the snapshots are taken leaves no gap: once nothing  *)
(* is on its way every subscriber shows every session that is alive on the *)
(* bus, lagged or not, if the session's birth and end were not emitted out *)
(* of order.                                                               *)
LiveIsShown ==
  Quiet => \A c \in Client, s \in Session :
    sub[c] = "in" /\ s \notin outrun /\ activity[s] \in Alive => view[c][s] \in Alive

(* And it shows no session alive that is not, unless it lagged: a resync   *)
(* takes back nothing.                                                     *)
GoneIsNotShown ==
  Quiet => \A c \in Client, s \in Session :
    sub[c] = "in" /\ c \notin lost /\ s \notin outrun /\ view[c][s] \in Alive
      => activity[s] \in Alive

(* Of a session that only the watcher reports, every subscriber shows the  *)
(* activity of its state file, in spite of replayed and lost events, or a  *)
(* running tool, and that only if the file named a new tool after its last *)
(* change of activity, to one that runs none.                              *)
ExternalIsMirrored ==
  Quiet => \A c \in Client, s \in External :
    sub[c] = "in" /\ owner[s] # "none" =>
      \/ view[c][s] = activity[s]
      \/ view[c][s] = "toolRunning" /\ s \in overstated

(* A subscriber that stays learns of a session that stays.                 *)
LiveIsLearnt ==
  \A c \in Client, s \in Session :
    (sub[c] = "in" /\ activity[s] \in Alive)
      ~> (sub[c] # "in" \/ activity[s] \notin Alive \/ view[c][s] \in Alive
          \/ s \in outrun)

-----------------------------------------------------------------------------
(* daemon/entry.rs: "Skip sessions the daemon owns via its inference       *)
(* engine" and "Only remove if it's still external (not daemon-owned)".    *)
WatcherSkipsOwned ==
  watcher.step \in {"import", "remove"} => owner[watcher.target] # "daemon"
=============================================================================
