-------------------------- MODULE SemanticBusProofs --------------------------
(***************************************************************************)
(* Proofs about SemanticBus, for any daemon sessions, sessions of state    *)
(* files, subscribers and channel capacity: once nothing is on its way,    *)
(* subscribers agree with the bus on what is alive, and mirror the         *)
(* sessions of state files.                                                *)
(***************************************************************************)
EXTENDS SemanticBus, SequenceTheorems, TLAPS

-----------------------------------------------------------------------------
(* The watcher carries a session it found in a file, and its own event is  *)
(* out before it takes the lock.                                           *)
WatcherKeeps ==
  /\ watcher.step \in {"check", "import", "tool", "initial"} =>
       \A s \in watcher.todo : watcher.read[s] \in Content
  /\ watcher.step \in {"import", "tool", "initial"} =>
       /\ watcher.target \in Session \ watcher.todo
       /\ watcher.read[watcher.target] \in Content
  /\ watcher.step = "remove" => watcher.target \in Session
  /\ watcher.step \in {"import", "remove"} => Ready(WatcherTask)

(* A task's event is about its own session, and the tasks that take one    *)
(* operation have no event before it.                                      *)
TasksKeep ==
  /\ \A k \in {"spawn", "relay", "end"}, s \in Daemon :
       Ready(<<k, s>>) \/ pending[<<k, s>>].id = s
  /\ \A s \in Daemon :
       /\ life[s] # "published" => Ready(SpawnTask(s))
       /\ ending[s] = "no" => Ready(EndTask(s))

(* What is alive belongs to somebody; what the watcher alone reports is    *)
(* alive, and its birth and end come out in order.                         *)
OwnersAgree ==
  /\ \A s \in Session : activity[s] \in Alive => owner[s] # "none"
  /\ \A s \in External :
       (owner[s] # "none" => activity[s] \in Alive) /\ s \notin outrun

(* An event that turns a session on or off, and the one that is true.      *)
Turns(e, s) == e.id = s /\ e.kind \in {"spawned", "exited"}

Truth(s) == IF activity[s] \in Alive THEN "spawned" ELSE "exited"

(* While a session's births and ends are in order, only the true one is    *)
(* still to be emitted.                                                    *)
OnlyTruthPending ==
  \A s \in Session, t \in Task :
    s \notin outrun /\ Turns(pending[t], s) => pending[t].kind = Truth(s)

(* Connections that have not subscribed, or not taken their snapshots.     *)
ClientsAgree ==
  /\ \A c \in Client : sub[c] = "out" => queue[c] = <<>> /\ c \notin lost
  /\ \A c \in Client : sub[c] # "in" => view[c] = Unseen
  /\ lagged \subseteq lost

LastTurn(c, i, s) ==
  /\ Turns(queue[c][i], s)
  /\ \A j \in i + 1 .. Len(queue[c]) : ~ Turns(queue[c][j], s)

NoTurn(c, s) == \A i \in 1 .. Len(queue[c]) : ~ Turns(queue[c][i], s)

(* The truth is out, and c can be expected to know it: an end is lost on   *)
(* those that lagged.                                                      *)
Told(c, s) ==
  /\ s \notin outrun /\ ~ Announcing(s, Truth(s))
  /\ sub[c] # "out"
  /\ activity[s] \in Alive \/ c \notin lost

(* The last turn a queue holds is the true one, and with none in the queue *)
(* the view is right, or about to be resynchronised.                       *)
QueueTells ==
  \A c \in Client, s \in Session : Told(c, s) =>
    /\ \A i \in 1 .. Len(queue[c]) : LastTurn(c, i, s) => queue[c][i].kind = Truth(s)
    /\ sub[c] = "in" /\ c \notin lagged /\ NoTurn(c, s) =>
         (view[c][s] \in Alive <=> activity[s] \in Alive)

BusInv ==
  /\ TypeOK /\ WatcherKeeps /\ TasksKeep /\ OwnersAgree
  /\ OnlyTruthPending /\ ClientsAgree /\ QueueTells

-----------------------------------------------------------------------------
(* Of a session of the watcher's: has it an event to come, its own or the  *)
(* one for the first activity?                                             *)
Busy(s) ==
  \/ pending[WatcherTask].id = s
  \/ watcher.step = "initial" /\ watcher.target = s

(* The activity of a session, or the tool that its last event started; and *)
(* the event that brings it.                                               *)
Shows(v, s) == v = activity[s] \/ (v = "toolRunning" /\ s \in overstated)

Mirrors(k, s) == Shows(k, s) \/ (k = "spawned" /\ activity[s] = "idle")

(* What the event to come will say.                                        *)
WatcherTells ==
  /\ watcher.step = "initial" /\ watcher.target \in External =>
       /\ owner[watcher.target] # "none"
       /\ activity[watcher.target] = watcher.read[watcher.target].activity
  /\ \A s \in External : pending[WatcherTask].id = s /\ owner[s] # "none" =>
       LET k == pending[WatcherTask].kind IN
       \/ Mirrors(k, s)
       \/ k = "spawned" /\ watcher.step = "initial" /\ watcher.target = s

LastAbout(c, i, s) ==
  /\ queue[c][i].id = s
  /\ \A j \in i + 1 .. Len(queue[c]) : queue[c][j].id # s

NoneAbout(c, s) == \A i \in 1 .. Len(queue[c]) : queue[c][i].id # s

(* The last event a queue holds of a session brings its activity, and with *)
(* none in the queue the view has it, or is about to be resynchronised.    *)
QueueMirrors ==
  \A c \in Client, s \in External :
    owner[s] # "none" /\ ~ Busy(s) /\ sub[c] # "out" =>
      /\ \A i \in 1 .. Len(queue[c]) : LastAbout(c, i, s) => Mirrors(queue[c][i].kind, s)
      /\ sub[c] = "in" /\ c \notin lagged /\ NoneAbout(c, s) => Shows(view[c][s], s)

MirrorInv == WatcherTells /\ QueueMirrors

-----------------------------------------------------------------------------
(* Names of tasks and events.                                              *)
LEMMA TaskFacts ==
  /\ WatcherTask \in Task
  /\ \A s \in Daemon : SpawnTask(s) \in Task /\ RelayTask(s) \in Task /\ EndTask(s) \in Task
  /\ \A t \in Task : t = WatcherTask \/ \E k \in {"spawn", "relay", "end"}, s \in Daemon :
                                          t = <<k, s>>
  /\ \A k \in {"spawn", "relay", "end"}, s \in Daemon : <<k, s>> # WatcherTask
BY DEF Task, WatcherTask, SpawnTask, RelayTask, EndTask

(* The events are the pairs of a session and a kind, and none is NoEvent. *)
LEMMA EventFacts ==
  /\ NoEvent \notin Event /\ \A s \in Session : NoEvent.id # s
  /\ \A s \in Session, k \in {"spawned", "exited"} \cup Alive :
       EventOf(s, k) \in Event /\ EventOf(s, k) # NoEvent
  /\ \A s, k : EventOf(s, k).id = s /\ EventOf(s, k).kind = k
  /\ \A e \in Event : /\ e.id \in Session
                      /\ e.kind \in {"spawned", "exited"} \cup Alive
                      /\ e = EventOf(e.id, e.kind)
BY SessionAssumption DEF NoEvent, Event, EventOf, Session

(* What a state file says is an activity and a tool.                       *)
LEMMA ContentFacts ==
  \A f \in Content : f.activity \in Alive /\ f.tool \in {"none"} \cup Tool /\ f # NoFile
BY ContentAssumption DEF NoFile, Alive

(* What a queue is after a push: its length, and where its entries are.    *)
LEMMA PushProperties ==
  ASSUME NEW c \in Client, queue[c] \in Seq(Event), NEW e \in Event,
         Len(queue[c]) <= Capacity
  PROVE  /\ Push(c, e) \in Seq(Event)
         /\ Len(queue[c]) < Capacity =>
              /\ Len(Push(c, e)) = Len(queue[c]) + 1
              /\ \A i \in 1 .. Len(queue[c]) : Push(c, e)[i] = queue[c][i]
         /\ Len(queue[c]) = Capacity =>
              /\ Len(Push(c, e)) = Len(queue[c])
              /\ \A i \in 1 .. Len(queue[c]) - 1 : Push(c, e)[i] = queue[c][i + 1]
         /\ Len(Push(c, e)) \in 1 .. Capacity
         /\ Push(c, e)[Len(Push(c, e))] = e
<1> DEFINE q == queue[c]
<1>0. Len(q) \in Nat /\ Capacity \in Nat \ {0}
  BY CapacityAssumption, LenProperties
<1>1. CASE Len(q) < Capacity
  <2>1. Push(c, e) = Append(q, e)
    BY <1>1 DEF Push
  <2> QED
    BY <1>0, <1>1, <2>1, AppendProperties
<1>2. CASE Len(q) = Capacity
  <2>1. Push(c, e) = Append(Tail(q), e)
    BY <1>0, <1>2 DEF Push
  <2>2. q # <<>>
    BY <1>0, <1>2, EmptySeq
  <2>3. /\ Tail(q) \in Seq(Event)
        /\ Len(Tail(q)) = Len(q) - 1
        /\ \A i \in 1 .. Len(Tail(q)) : Tail(q)[i] = q[i + 1]
    BY <2>2, HeadTailProperties
  <2>4. /\ Push(c, e) \in Seq(Event)
        /\ Len(Push(c, e)) = Len(Tail(q)) + 1
        /\ \A i \in 1 .. Len(Tail(q)) : Push(c, e)[i] = Tail(q)[i]
        /\ Push(c, e)[Len(Tail(q)) + 1] = e
    BY <2>1, <2>3, AppendProperties
  <2> QED
    BY <1>0, <1>2, <2>3, <2>4
<1> QED
  BY <1>0, <1>1, <1>2

-----------------------------------------------------------------------------
(* The types of what the daemon's tasks change.                            *)
TasksTypeOK ==
  /\ owner \in [Session -> {"none", "daemon", "external"}]
  /\ activity \in [Session -> {"none", "gone"} \cup Alive]
  /\ tool \in [Session -> {"none"} \cup Tool]
  /\ life \in [Daemon -> {"unborn", "started", "published"}]
  /\ ending \in [Daemon -> {"no", "announced", "removed"}]
  /\ file \in [Session -> Content \cup {NoFile}]
  /\ pending \in [Task -> Event \cup {NoEvent}]
  /\ watcher \in [step : WatcherStep, read : [Session -> Content \cup {NoFile}],
                  todo : SUBSET Session, current : SUBSET Session,
                  known : SUBSET Session, target : Session \cup {NoSession}]
  /\ outrun \subseteq Session
  /\ overstated \subseteq External

(* And of what the connections change.                                     *)
ClientsTypeOK ==
  /\ sub \in [Client -> {"out", "registered", "in"}]
  /\ queue \in [Client -> Seq(Event)]
  /\ \A c \in Client : Len(queue[c]) <= Capacity
  /\ lagged \subseteq Client
  /\ view \in [Client -> [Session -> {"none", "gone"} \cup Alive]]
  /\ lost \subseteq Client

(* The type invariant, apart for the tasks and for the clients.           *)
LEMMA TypeParts == TypeOK <=> TasksTypeOK /\ ClientsTypeOK
BY DEF TypeOK, TasksTypeOK, ClientsTypeOK

(* A step of the bus and the watcher leaves the connections alone; a       *)
(* connection's step leaves them alone; Emit connects the two.             *)
BusStep ==
  \/ \E s \in Daemon :
       StartSession(s) \/ Publish(s) \/ RelayNotification(s) \/ EndSession(s)
       \/ ForgetSession(s)
  \/ \E s \in Session : WriteFile(s)
  \/ WatcherStepTaken

ClientStep ==
  \E c \in Client : Register(c) \/ Sync(c) \/ Forward(c) \/ Resync(c) \/ Disconnect(c)

(* A step is one of the tasks, of a client, or an event that is sent.     *)
LEMMA NextParts ==
  [Next]_vars => BusStep \/ ClientStep \/ (\E t \in Task : Emit(t)) \/ UNCHANGED vars
BY DEF Next, BusStep, ClientStep

(* The tasks do not touch what the clients keep.                          *)
LEMMA BusStepClients == BusStep => UNCHANGED clientVars
BY DEF BusStep, StartSession, Publish, RelayNotification, EndSession, ForgetSession,
       WriteFile, WatcherStepTaken, Poll, BeginSweep, EndSweep, Import, ImportTool,
       ImportInitialActivity, RemoveExternal, CheckOwner, CheckGone, clientVars

(* The clients do not touch what the tasks keep.                          *)
LEMMA ClientStepTasks ==
  ClientStep => UNCHANGED <<busVars, sessionVars, pending, watcher, history>>
BY DEF history, ClientStep, Register, Sync, Forward, Resync, Disconnect

-----------------------------------------------------------------------------
TaskInv == TasksTypeOK /\ WatcherKeeps /\ TasksKeep /\ OwnersAgree /\ OnlyTruthPending

(* The bus and the watcher keep their types.                               *)
LEMMA TaskTypes == TasksTypeOK /\ WatcherKeeps /\ BusStep => TasksTypeOK'
<1> SUFFICES ASSUME TasksTypeOK, WatcherKeeps, BusStep PROVE TasksTypeOK'
  OBVIOUS
<1> USE DEF history
<1>1. ASSUME NEW s \in Daemon, StartSession(s) PROVE TasksTypeOK'
  BY <1>1 DEF StartSession, TasksTypeOK, busVars
<1>2. ASSUME NEW s \in Daemon, Publish(s) PROVE TasksTypeOK'
  BY <1>2, TaskFacts, EventFacts
  DEF Publish, TasksTypeOK, InsertState, Emits, Outruns, Session, Alive
<1>3. ASSUME NEW s \in Daemon, RelayNotification(s) PROVE TasksTypeOK'
  <2>1. RelayTask(s) \in Task /\ s \in Session /\ "toolRunning" \in Alive
    BY TaskFacts DEF Session, Alive
  <2>2. CASE \E a \in Alive : StatusChanged(s, a)
    <3>1. PICK a \in Alive : StatusChanged(s, a)
      BY <2>2
    <3>2. EventOf(s, a) \in Event
      BY <2>1, EventFacts
    <3> QED
      BY <1>3, <2>1, <3>1, <3>2
      DEF RelayNotification, StatusChanged, TasksTypeOK, SetActivity, SetTool, Emits, sessionVars
  <2>3. CASE ToolStarted(s)
    BY <1>3, <2>1, <2>3, EventFacts
    DEF RelayNotification, ToolStarted, TasksTypeOK, SetActivity, SetTool, Emits, sessionVars
  <2>4. CASE CommandStarted(s)
    BY <1>3, <2>1, <2>4
    DEF RelayNotification, CommandStarted, TasksTypeOK, SetActivity, SetTool, sessionVars
  <2>5. CASE ToolCompleted(s)
    BY <1>3, <2>1, <2>5
    DEF RelayNotification, ToolCompleted, TasksTypeOK, SetTool, sessionVars
  <2> QED
    BY <1>3, <2>2, <2>3, <2>4, <2>5 DEF RelayNotification
<1>4. ASSUME NEW s \in Daemon, EndSession(s) PROVE TasksTypeOK'
  BY <1>4, TaskFacts, EventFacts
  DEF EndSession, TasksTypeOK, Emits, Outruns, Session, busVars
<1>5. ASSUME NEW s \in Daemon, ForgetSession(s) PROVE TasksTypeOK'
  BY <1>5 DEF ForgetSession, TasksTypeOK, RemoveState, InsertState, Outruns, Session
<1>6. ASSUME NEW s \in Session, WriteFile(s) PROVE TasksTypeOK'
  BY <1>6 DEF WriteFile, TasksTypeOK, busVars
<1>7. CASE Poll
  BY <1>7 DEF Poll, TasksTypeOK, busVars, sessionVars, WatcherStep
<1>8. ASSUME NEW s \in Session, CheckOwner(s) PROVE TasksTypeOK'
  BY <1>8 DEF CheckOwner, TasksTypeOK, busVars, sessionVars, WatcherStep
<1>9. watcher.step \in {"import", "tool", "initial"} =>
        /\ watcher.target \in Session
        /\ watcher.read[watcher.target].activity \in Alive
        /\ watcher.read[watcher.target].tool \in {"none"} \cup Tool
  BY ContentFacts DEF WatcherKeeps
<1>10. watcher.step \in {"import", "tool", "initial"} =>
         Imported \in [step : WatcherStep, read : [Session -> Content \cup {NoFile}],
                       todo : SUBSET Session, current : SUBSET Session,
                       known : SUBSET Session, target : Session \cup {NoSession}]
  BY <1>9 DEF Imported, TasksTypeOK, WatcherStep
<1>11. ASSUME NEW s \in Session, NEW k \in {"spawned"} \cup Alive, Tells(s, k)
       PROVE  /\ pending' \in [Task -> Event \cup {NoEvent}]
              /\ overstated' \subseteq External
  BY <1>11, TaskFacts, EventFacts DEF Tells, Emits, TasksTypeOK
<1>12. ASSUME NEW s \in Session, NEW t \in {"none"} \cup Tool, ChangeTool(s, t)
       PROVE  /\ pending' \in [Task -> Event \cup {NoEvent}]
              /\ overstated' \subseteq External
              /\ tool' \in [Session -> {"none"} \cup Tool]
  <2>1. tool' \in [Session -> {"none"} \cup Tool]
    BY <1>12 DEF ChangeTool, SetTool, TasksTypeOK
  <2>2. CASE t \in {tool[s], "none"}
    BY <1>12, <2>1, <2>2 DEF ChangeTool, TasksTypeOK
  <2>3. CASE t \notin {tool[s], "none"}
    BY <1>11, <1>12, <2>1, <2>3 DEF ChangeTool, Alive
  <2> QED
    BY <2>2, <2>3
<1>13. CASE Import
  <2> DEFINE s == watcher.target
             f == watcher.read[s]
  <2>1. s \in Session /\ f.activity \in Alive /\ f.tool \in {"none"} \cup Tool
    BY <1>9, <1>13 DEF Import
  <2>2. watcher' \in [step : WatcherStep, read : [Session -> Content \cup {NoFile}],
                      todo : SUBSET Session, current : SUBSET Session,
                      known : SUBSET Session, target : Session \cup {NoSession}]
    <3>1. watcher.step = "import" /\ watcher' \in
            {Imported, [watcher EXCEPT !.step = "initial"], [watcher EXCEPT !.step = "tool"]}
      BY <1>13 DEF Import
    <3> QED
      BY <1>10, <3>1 DEF TasksTypeOK, WatcherStep
  <2>3. outrun' \subseteq Session /\ UNCHANGED sessionVars
    BY <1>13, <2>1 DEF Import, TasksTypeOK, Outruns
  <2>4. CASE owner[s] = "none"
    <3>1. InsertState(s, "external", f.activity, f.tool) /\ Tells(s, "spawned")
      BY <1>13, <2>4 DEF Import
    <3> QED
      BY <1>11, <2>1, <2>2, <2>3, <3>1 DEF TasksTypeOK, InsertState, sessionVars
  <2>5. CASE owner[s] # "none" /\ activity[s] # f.activity
    <3>1. SetActivity(s, f.activity) /\ Tells(s, f.activity) /\ tool' = tool
      BY <1>13, <2>5 DEF Import
    <3> QED
      BY <1>11, <2>1, <2>2, <2>3, <3>1 DEF TasksTypeOK, SetActivity, sessionVars
  <2>6. CASE owner[s] # "none" /\ activity[s] = f.activity
    <3>1. ChangeTool(s, f.tool)
      BY <1>13, <2>6 DEF Import
    <3> QED
      BY <1>12, <2>1, <2>2, <2>3, <3>1 DEF TasksTypeOK, ChangeTool, sessionVars
  <2> QED
    BY <2>4, <2>5, <2>6
<1>14. CASE ImportTool
  <2> DEFINE s == watcher.target
             f == watcher.read[s]
  <2>1. s \in Session /\ f.tool \in {"none"} \cup Tool /\ watcher' = Imported
    BY <1>9, <1>14 DEF ImportTool
  <2>2. CASE owner[s] = "none"
    BY <1>10, <1>14, <2>1, <2>2 DEF ImportTool, TasksTypeOK, busVars, sessionVars
  <2>3. CASE owner[s] # "none"
    <3>1. ChangeTool(s, f.tool)
      BY <1>14, <2>3 DEF ImportTool
    <3> QED
      BY <1>10, <1>12, <1>14, <2>1, <3>1 DEF ImportTool, TasksTypeOK, ChangeTool, sessionVars
  <2> QED
    BY <2>2, <2>3
<1>15. CASE ImportInitialActivity
  <2>1. watcher.target \in Session /\ watcher.read[watcher.target].activity \in Alive
    BY <1>9, <1>15 DEF ImportInitialActivity
  <2>2. pending' \in [Task -> Event \cup {NoEvent}]
    <3> DEFINE e == EventOf(watcher.target, watcher.read[watcher.target].activity)
    <3>1. e \in Event
      BY <2>1, EventFacts
    <3>2. pending' = pending \/ pending' = [pending EXCEPT ![WatcherTask] = e]
      BY <1>15 DEF ImportInitialActivity, Emits
    <3> HIDE DEF e
    <3> QED
      BY <3>1, <3>2 DEF TasksTypeOK
  <2> QED
    BY <1>10, <1>15, <2>2 DEF ImportInitialActivity, TasksTypeOK, busVars, sessionVars
<1>16. CASE BeginSweep
  BY <1>16 DEF BeginSweep, TasksTypeOK, busVars, sessionVars, WatcherStep
<1>17. ASSUME NEW s \in Session, CheckGone(s) PROVE TasksTypeOK'
  BY <1>17 DEF CheckGone, TasksTypeOK, busVars, sessionVars, WatcherStep
<1>18. CASE RemoveExternal
  <2>1. watcher.target \in Session
    BY <1>18 DEF RemoveExternal, WatcherKeeps
  <2>2. watcher' \in [step : WatcherStep, read : [Session -> Content \cup {NoFile}],
                      todo : SUBSET Session, current : SUBSET Session,
                      known : SUBSET Session, target : Session \cup {NoSession}]
    BY <1>18 DEF RemoveExternal, TasksTypeOK, WatcherStep
  <2>3. pending' \in [Task -> Event \cup {NoEvent}]
    BY <1>18, <2>1, TaskFacts, EventFacts DEF RemoveExternal, TasksTypeOK, Emits
  <2>4. /\ owner' \in [Session -> {"none", "daemon", "external"}]
        /\ activity' \in [Session -> {"none", "gone"} \cup Alive]
        /\ tool' \in [Session -> {"none"} \cup Tool]
        /\ outrun' \subseteq Session
    BY <1>18, <2>1
    DEF RemoveExternal, TasksTypeOK, RemoveState, InsertState, Outruns, busVars
  <2> QED
    BY <1>18, <2>2, <2>3, <2>4 DEF RemoveExternal, TasksTypeOK, sessionVars
<1>19. CASE EndSweep
  BY <1>19 DEF EndSweep, TasksTypeOK, busVars, sessionVars, WatcherStep
<1> QED
  BY <1>1, <1>2, <1>3, <1>4, <1>5, <1>6, <1>7, <1>8, <1>13, <1>14, <1>15, <1>16,
     <1>17, <1>18, <1>19 DEF BusStep, WatcherStepTaken

(* The daemon's own tasks leave the watcher's event alone.                 *)
LEMMA DaemonTasks ==
  ASSUME TasksTypeOK, NEW s \in Daemon,
         StartSession(s) \/ Publish(s) \/ RelayNotification(s) \/ EndSession(s)
         \/ ForgetSession(s)
  PROVE  /\ pending'[WatcherTask] = pending[WatcherTask] /\ watcher' = watcher
         /\ overstated' = overstated
BY TaskFacts
DEF history, StartSession, Publish, RelayNotification, StatusChanged, ToolStarted,
    ToolCompleted, CommandStarted, EndSession, ForgetSession, Emits, SpawnTask, RelayTask, EndTask,
    WatcherTask, TasksTypeOK

(* The order of the watcher task is kept by every task.                   *)
LEMMA WatcherSteps == TasksTypeOK /\ WatcherKeeps /\ BusStep => WatcherKeeps'
<1> SUFFICES ASSUME TasksTypeOK, WatcherKeeps, BusStep PROVE WatcherKeeps'
  OBVIOUS
<1>1. ASSUME NEW s \in Daemon,
             StartSession(s) \/ Publish(s) \/ RelayNotification(s) \/ EndSession(s)
             \/ ForgetSession(s)
      PROVE  WatcherKeeps'
  BY <1>1, DaemonTasks DEF WatcherKeeps, Ready
<1>2. ASSUME NEW s \in Session, WriteFile(s) PROVE WatcherKeeps'
  BY <1>2 DEF WriteFile, WatcherKeeps, Ready
<1>3. CASE Poll
  BY <1>3 DEF Poll, WatcherKeeps, TasksTypeOK
<1>4. ASSUME NEW s \in Session, CheckOwner(s) PROVE WatcherKeeps'
  BY <1>4 DEF CheckOwner, WatcherKeeps, Ready, TasksTypeOK
<1>5. CASE Import \/ ImportTool \/ ImportInitialActivity
  <2>1. /\ watcher.step \in {"import", "tool", "initial"}
        /\ watcher' \in {Imported, [watcher EXCEPT !.step = "initial"],
                        [watcher EXCEPT !.step = "tool"]}
    <3>1. CASE Import
      BY <3>1 DEF Import
    <3>2. CASE ImportTool \/ ImportInitialActivity
      BY <3>2 DEF ImportTool, ImportInitialActivity
    <3> QED
      BY <1>5, <3>1, <3>2
  <2>2. CASE watcher' = Imported
    BY <2>1, <2>2 DEF Imported, WatcherKeeps, TasksTypeOK
  <2>3. CASE watcher' # Imported
    BY <2>1, <2>3 DEF WatcherKeeps, TasksTypeOK
  <2> QED
    BY <2>2, <2>3
<1>6. CASE BeginSweep \/ EndSweep
  BY <1>6 DEF BeginSweep, EndSweep, WatcherKeeps, TasksTypeOK
<1>7. ASSUME NEW s \in Session, CheckGone(s) PROVE WatcherKeeps'
  BY <1>7 DEF CheckGone, WatcherKeeps, Ready, TasksTypeOK
<1>8. CASE RemoveExternal
  BY <1>8 DEF RemoveExternal, WatcherKeeps, TasksTypeOK
<1> QED
  BY <1>1, <1>2, <1>3, <1>4, <1>5, <1>6, <1>7, <1>8 DEF BusStep, WatcherStepTaken

-----------------------------------------------------------------------------
(* What a step means to one session, whichever task takes it.              *)
Others(s) ==
  \A r \in Session \ {s} : owner'[r] = owner[r] /\ activity'[r] = activity[r]

Emitted(t, e) ==
  /\ t \in Task /\ Ready(t)
  /\ pending'[t] = e /\ \A u \in Task \ {t} : pending'[u] = pending[u]

ByItsTask(t, s) == s \in External => t = WatcherTask

Birth(s, t) ==
  /\ Others(s) /\ owner'[s] # "none" /\ activity'[s] \in Alive
  /\ Emitted(t, EventOf(s, "spawned")) /\ ByItsTask(t, s)
  /\ Outruns(s, Announcing(s, "exited"))

Change(s, t) ==
  /\ Others(s) /\ owner'[s] = owner[s]
  /\ activity'[s] \in Alive <=> activity[s] \in Alive
  /\ pending' = pending \/ \E a \in Alive : Emitted(t, EventOf(s, a))
  /\ outrun' = outrun

Death(s, t) ==
  /\ Others(s) /\ activity'[s] \notin Alive
  /\ s \in External => owner'[s] = "none"
  /\ Emitted(t, EventOf(s, "exited")) /\ ByItsTask(t, s)
  /\ Outruns(s, Announcing(s, "spawned"))
       \/ (s \in Daemon /\ outrun' = outrun \cup {s})

(* Without an event, of a session that was not alive, or is noted.         *)
Forgotten(s) ==
  /\ s \in Daemon /\ Others(s) /\ activity'[s] \notin Alive
  /\ pending' = pending
  /\ outrun' = outrun \/ outrun' = outrun \cup {s}
  /\ activity[s] \in Alive => outrun' = outrun \cup {s}

Rests == UNCHANGED <<owner, activity, pending, outrun>>

Effect(s, t) == Birth(s, t) \/ Change(s, t) \/ Death(s, t) \/ Forgotten(s)

(* Every step of the bus and the watcher is one of these.                  *)
LEMMA Effects ==
  ASSUME TaskInv, BusStep
  PROVE  Rests \/ \E s \in Session, t \in Task : Effect(s, t)
<1> USE DEF TaskInv, busVars, history
<1>1. ASSUME NEW s \in Daemon, StartSession(s) PROVE Rests
  BY <1>1 DEF StartSession, Rests
<1>2. ASSUME NEW s \in Daemon, Publish(s) PROVE Birth(s, SpawnTask(s))
  <2>1. Emitted(SpawnTask(s), EventOf(s, "spawned"))
    BY <1>2, TaskFacts DEF Publish, Emits, Emitted, TasksTypeOK, TasksKeep
  <2> QED
    BY <1>2, <2>1, SessionAssumption
    DEF Publish, InsertState, Birth, Others, ByItsTask, TasksTypeOK, Session, Alive
<1>3. ASSUME NEW s \in Daemon, RelayNotification(s) PROVE Change(s, RelayTask(s))
  <2>1. RelayTask(s) \in Task /\ s \in Session /\ "toolRunning" \in Alive
    BY TaskFacts DEF Session, Alive
  <2>2. CASE \E a \in Alive : StatusChanged(s, a)
    <3>1. PICK a \in Alive : StatusChanged(s, a)
      BY <2>2
    <3>2. Emitted(RelayTask(s), EventOf(s, a))
      BY <1>3, <2>1, <3>1 DEF RelayNotification, StatusChanged, Emits, Emitted, TasksTypeOK
    <3> QED
      BY <1>3, <2>1, <3>1, <3>2
      DEF RelayNotification, StatusChanged, SetActivity, Change, Others, TasksTypeOK
  <2>3. CASE ToolStarted(s)
    <3>1. Emitted(RelayTask(s), EventOf(s, "toolRunning"))
      BY <1>3, <2>1, <2>3 DEF RelayNotification, ToolStarted, Emits, Emitted, TasksTypeOK
    <3> QED
      BY <1>3, <2>1, <2>3, <3>1
      DEF RelayNotification, ToolStarted, SetActivity, Change, Others, TasksTypeOK
  <2>4. CASE CommandStarted(s)
    BY <1>3, <2>1, <2>4
    DEF RelayNotification, CommandStarted, SetActivity, Change, Others, TasksTypeOK
  <2>5. CASE ToolCompleted(s)
    BY <1>3, <2>1, <2>5 DEF RelayNotification, ToolCompleted, Change, Others
  <2> QED
    BY <1>3, <2>2, <2>3, <2>4, <2>5 DEF RelayNotification
<1>4. ASSUME NEW s \in Daemon, EndSession(s)
      PROVE  Death(s, EndTask(s)) \/ Forgotten(s)
  <2>0. s \in Session /\ s \notin External
    BY SessionAssumption DEF Session
  <2>1. CASE owner[s] = "none"
    <3>1. activity[s] \notin Alive
      BY <2>0, <2>1 DEF OwnersAgree
    <3> QED
      BY <1>4, <2>0, <2>1, <3>1
      DEF EndSession, Forgotten, Others, Outruns, busVars
  <2>2. CASE owner[s] # "none"
    <3>1. Emitted(EndTask(s), EventOf(s, "exited"))
      BY <1>4, <2>2, TaskFacts DEF EndSession, Emits, Emitted, TasksTypeOK, TasksKeep
    <3>2. activity'[s] = "gone" /\ Others(s)
      BY <1>4, <2>0, <2>2 DEF EndSession, Others, TasksTypeOK
    <3> QED
      BY <1>4, <2>0, <3>1, <3>2 DEF EndSession, Outruns, Death, ByItsTask, Alive
  <2> QED
    BY <2>1, <2>2
<1>5. ASSUME NEW s \in Daemon, ForgetSession(s) PROVE Forgotten(s)
  BY <1>5 DEF ForgetSession, RemoveState, InsertState, Outruns, Forgotten, Others,
              TasksTypeOK, Session, Alive
<1>6. ASSUME NEW s \in Session, WriteFile(s) \/ CheckOwner(s) \/ CheckGone(s) PROVE Rests
  BY <1>6 DEF WriteFile, CheckOwner, CheckGone, Rests
<1>7. CASE Poll \/ BeginSweep \/ EndSweep
  BY <1>7 DEF Poll, BeginSweep, EndSweep, Rests
<1>8. watcher.step \in {"import", "tool", "initial"} =>
        /\ watcher.target \in Session /\ WatcherTask \in Task
        /\ watcher.read[watcher.target].activity \in Alive
  BY ContentFacts, TaskFacts DEF WatcherKeeps
<1>9. ASSUME NEW s \in Session, NEW t, ChangeTool(s, t), outrun' = outrun,
             WatcherTask \in Task, Ready(WatcherTask)
      PROVE  Change(s, WatcherTask)
  <2>1. pending' = pending \/ Emitted(WatcherTask, EventOf(s, "toolRunning"))
    BY <1>9 DEF ChangeTool, Tells, Emits, Emitted, TasksTypeOK
  <2> QED
    BY <1>9, <2>1 DEF ChangeTool, Change, Others, Alive
<1>10. CASE Import
  <2> DEFINE s == watcher.target
             a == watcher.read[s].activity
  <2>1. s \in Session /\ a \in Alive /\ WatcherTask \in Task /\ Ready(WatcherTask)
    BY <1>8, <1>10 DEF Import, WatcherKeeps
  <2>2. CASE owner[s] = "none"
    <3>1. Emitted(WatcherTask, EventOf(s, "spawned"))
      BY <1>10, <2>1, <2>2 DEF Import, Tells, Emits, Emitted, TasksTypeOK
    <3>2. Birth(s, WatcherTask)
      BY <1>10, <2>1, <2>2, <3>1
      DEF Import, InsertState, Birth, Others, ByItsTask, TasksTypeOK
    <3> QED
      BY <2>1, <3>2 DEF Effect
  <2>3. CASE owner[s] # "none" /\ activity[s] # a
    <3>1. Emitted(WatcherTask, EventOf(s, a))
      BY <1>10, <2>1, <2>3 DEF Import, Tells, Emits, Emitted, TasksTypeOK
    <3>2. SetActivity(s, a) /\ outrun' = outrun
      BY <1>10, <2>3 DEF Import
    <3>3. Change(s, WatcherTask)
      BY <2>1, <3>1, <3>2 DEF SetActivity, Change, Others, TasksTypeOK
    <3> QED
      BY <2>1, <3>3 DEF Effect
  <2>4. CASE owner[s] # "none" /\ activity[s] = a
    <3>1. ChangeTool(s, watcher.read[s].tool) /\ outrun' = outrun
      BY <1>10, <2>4 DEF Import
    <3> QED
      BY <1>9, <2>1, <3>1 DEF Effect
  <2> QED
    BY <2>2, <2>3, <2>4
<1>11. CASE ImportTool
  <2> DEFINE s == watcher.target
  <2>1. s \in Session /\ WatcherTask \in Task /\ Ready(WatcherTask)
    BY <1>8, <1>11 DEF ImportTool
  <2>2. CASE owner[s] = "none"
    BY <1>11, <2>2 DEF ImportTool, Rests
  <2>3. CASE owner[s] # "none"
    <3>1. ChangeTool(s, watcher.read[s].tool) /\ outrun' = outrun
      BY <1>11, <2>3 DEF ImportTool
    <3> QED
      BY <1>9, <2>1, <3>1 DEF Effect
  <2> QED
    BY <2>2, <2>3
<1>12. CASE ImportInitialActivity
  <2> DEFINE s == watcher.target
             a == watcher.read[s].activity
  <2>1. s \in Session /\ a \in Alive /\ WatcherTask \in Task
    BY <1>8, <1>12 DEF ImportInitialActivity
  <2>2. pending' = pending \/ Emitted(WatcherTask, EventOf(s, a))
    BY <1>12, <2>1 DEF ImportInitialActivity, Emits, Emitted, TasksTypeOK
  <2>3. Change(s, WatcherTask)
    BY <1>12, <2>1, <2>2 DEF ImportInitialActivity, Change, Others
  <2> QED
    BY <2>1, <2>3 DEF Effect
<1>13. CASE RemoveExternal
  <2> DEFINE s == watcher.target
  <2>1. s \in Session /\ WatcherTask \in Task /\ Ready(WatcherTask)
    BY <1>13, TaskFacts DEF RemoveExternal, WatcherKeeps
  <2>2. CASE owner[s] = "none"
    BY <1>13, <2>2 DEF RemoveExternal, Rests
  <2>3. CASE owner[s] # "none"
    <3>1. Emitted(WatcherTask, EventOf(s, "exited"))
      BY <1>13, <2>1, <2>3 DEF RemoveExternal, Emits, Emitted, TasksTypeOK
    <3>2. Death(s, WatcherTask)
      BY <1>13, <2>1, <2>3, <3>1
      DEF RemoveExternal, RemoveState, InsertState, Death, Others, ByItsTask, TasksTypeOK, Alive
    <3> QED
      BY <2>1, <3>2 DEF Effect
  <2> QED
    BY <2>2, <2>3
<1>14. ASSUME NEW s \in Daemon
       PROVE  s \in Session /\ SpawnTask(s) \in Task /\ RelayTask(s) \in Task /\ EndTask(s) \in Task
  BY TaskFacts DEF Session
<1> QED
  BY <1>1, <1>2, <1>3, <1>4, <1>5, <1>6, <1>7, <1>10, <1>11, <1>12, <1>13,
     <1>14
  DEF BusStep, WatcherStepTaken, Effect

-----------------------------------------------------------------------------

(* A step of the watcher leaves the tasks of the daemon where they are.   *)
LEMMA WatcherTasks ==
  ASSUME TasksTypeOK, WatcherStepTaken, NEW k \in {"spawn", "relay", "end"}, NEW s \in Daemon
  PROVE  pending'[<<k, s>>] = pending[<<k, s>>] /\ life' = life /\ ending' = ending
<1>1. UNCHANGED sessionVars
  BY DEF WatcherStepTaken, Poll, CheckOwner, Import, ImportTool, ImportInitialActivity,
         BeginSweep, CheckGone, RemoveExternal, EndSweep
<1>2. pending' = pending \/ \E r, m : Emits(WatcherTask, r, m)
  BY DEF WatcherStepTaken, Poll, CheckOwner, Import, ImportTool, ChangeTool, Tells,
         ImportInitialActivity, BeginSweep, CheckGone, RemoveExternal, EndSweep
<1>3. <<k, s>> # WatcherTask /\ <<k, s>> \in Task
  BY TaskFacts DEF SpawnTask, RelayTask, EndTask
<1> QED
  BY <1>1, <1>2, <1>3 DEF Emits, TasksTypeOK, sessionVars

(* The order of the three tasks of a session is kept by every task.       *)
LEMMA TaskOrder == TasksTypeOK /\ TasksKeep /\ BusStep => TasksKeep'
<1> SUFFICES ASSUME TasksTypeOK, TasksKeep, BusStep PROVE TasksKeep'
  OBVIOUS
<1>1. ASSUME NEW s \in Daemon, StartSession(s) PROVE TasksKeep'
  BY <1>1 DEF StartSession, TasksKeep, TasksTypeOK, Ready
<1>2. ASSUME NEW s \in Daemon, Publish(s) PROVE TasksKeep'
  <2>1. /\ pending' = [pending EXCEPT ![<<"spawn", s>>] = EventOf(s, "spawned")]
        /\ life' = [life EXCEPT ![s] = "published"] /\ ending' = ending
    BY <1>2 DEF Publish, Emits, SpawnTask
  <2> QED
    BY <2>1, TaskFacts, EventFacts DEF TasksKeep, TasksTypeOK, Ready, SpawnTask, EndTask
<1>3. ASSUME NEW s \in Daemon, RelayNotification(s) PROVE TasksKeep'
  <2>1. pending' = pending \/ \E k : pending' = [pending EXCEPT ![<<"relay", s>>] = EventOf(s, k)]
    BY <1>3 DEF RelayNotification, StatusChanged, ToolStarted, ToolCompleted, CommandStarted, Emits,
               RelayTask
  <2>2. life' = life /\ ending' = ending
    BY <1>3 DEF RelayNotification, sessionVars
  <2>3. CASE pending' = pending
    BY <2>2, <2>3 DEF TasksKeep, Ready
  <2>4. ASSUME NEW k, pending' = [pending EXCEPT ![<<"relay", s>>] = EventOf(s, k)]
        PROVE  TasksKeep'
    BY <2>2, <2>4, TaskFacts, EventFacts DEF TasksKeep, TasksTypeOK, Ready, SpawnTask, EndTask
  <2> QED
    BY <2>1, <2>3, <2>4
<1>4. ASSUME NEW s \in Daemon, EndSession(s) PROVE TasksKeep'
  <2>1. pending' = pending \/ pending' = [pending EXCEPT ![<<"end", s>>] = EventOf(s, "exited")]
    BY <1>4 DEF EndSession, Emits, EndTask
  <2>2. life' = life /\ ending' = [ending EXCEPT ![s] = "announced"]
    BY <1>4 DEF EndSession
  <2>3. CASE pending' = pending
    BY <2>2, <2>3 DEF TasksKeep, TasksTypeOK, Ready
  <2>4. CASE pending' = [pending EXCEPT ![<<"end", s>>] = EventOf(s, "exited")]
    BY <2>2, <2>4, TaskFacts, EventFacts DEF TasksKeep, TasksTypeOK, Ready, SpawnTask, EndTask
  <2> QED
    BY <2>1, <2>3, <2>4
<1>5. ASSUME NEW s \in Daemon, ForgetSession(s) PROVE TasksKeep'
  BY <1>5 DEF ForgetSession, TasksKeep, TasksTypeOK, Ready
<1>6. ASSUME NEW s \in Session, WriteFile(s) PROVE TasksKeep'
  BY <1>6 DEF WriteFile, TasksKeep, Ready
<1>7. CASE WatcherStepTaken
  BY <1>7, WatcherTasks DEF TasksKeep, Ready, SpawnTask, EndTask
<1> QED
  BY <1>1, <1>2, <1>3, <1>4, <1>5, <1>6, <1>7 DEF BusStep

(* Only the watcher speaks of the sessions of state files.                 *)
LEMMA ExternalEvents ==
  ASSUME TasksKeep, NEW s \in External, NEW t \in Task, pending[t].id = s
  PROVE  t = WatcherTask
BY TaskFacts, EventFacts, SessionAssumption DEF TasksKeep, Ready, Session

(* Who owns a session stays in step with the tasks.                       *)
LEMMA OwnerSteps == TaskInv /\ BusStep => OwnersAgree'
<1> SUFFICES ASSUME TaskInv, BusStep PROVE OwnersAgree'
  OBVIOUS
<1>0. OwnersAgree /\ TasksKeep /\ External \subseteq Session /\ Daemon \cap External = {}
  BY SessionAssumption DEF TaskInv, Session
<1>1. CASE Rests
  BY <1>0, <1>1 DEF Rests, OwnersAgree
<1>2. ASSUME NEW r \in Session, NEW t \in Task, Effect(r, t) PROVE OwnersAgree'
  <2>1. \A s \in Session \ {r} :
          owner'[s] = owner[s] /\ activity'[s] = activity[s] /\ (s \in outrun' => s \in outrun)
    BY <1>2 DEF Effect, Birth, Change, Death, Forgotten, Others, Outruns
  <2>2. activity'[r] \in Alive => owner'[r] # "none"
    BY <1>0, <1>2 DEF Effect, Birth, Change, Death, Forgotten, OwnersAgree
  <2>3. r \in External => (owner'[r] # "none" => activity'[r] \in Alive)
    BY <1>0, <1>2 DEF Effect, Birth, Change, Death, Forgotten, OwnersAgree
  <2>4. ASSUME r \in External, NEW k PROVE Ready(WatcherTask) => ~ Announcing(r, k)
    BY <1>0, <2>4, ExternalEvents, EventFacts DEF Announcing, Ready
  <2>5. r \in External => r \notin outrun'
    <3>1. CASE Birth(r, t)
      BY <1>0, <2>4, <3>1 DEF Birth, ByItsTask, Emitted, Outruns, OwnersAgree
    <3>2. CASE Death(r, t)
      BY <1>0, <2>4, <3>2 DEF Death, ByItsTask, Emitted, Outruns, OwnersAgree
    <3> QED
      BY <1>0, <1>2, <3>1, <3>2 DEF Effect, Change, Forgotten, OwnersAgree
  <2> QED
    BY <1>0, <2>1, <2>2, <2>3, <2>5 DEF OwnersAgree
<1> QED
  BY <1>1, <1>2, Effects

(* What an effect on session r leaves of the others, and of its own truth. *)
LEMMA TruthSteps ==
  ASSUME TaskInv, BusStep
  PROVE  /\ OnlyTruthPending'
         /\ outrun \subseteq outrun'
         /\ \A s \in Session :
              s \notin outrun' /\ ~ Announcing(s, Truth(s))' =>
                /\ ~ Announcing(s, Truth(s))
                /\ activity'[s] \in Alive <=> activity[s] \in Alive
<1>0. OnlyTruthPending /\ "spawned" \notin Alive /\ "exited" \notin Alive
  BY DEF TaskInv, Alive
<1>1. CASE Rests
  BY <1>0, <1>1 DEF Rests, OnlyTruthPending, Truth, Turns, Announcing
<1>2. ASSUME NEW r \in Session, NEW t \in Task, Effect(r, t)
      PROVE  /\ OnlyTruthPending'
             /\ outrun \subseteq outrun'
             /\ \A s \in Session :
                  s \notin outrun' /\ ~ Announcing(s, Truth(s))' =>
                    /\ ~ Announcing(s, Truth(s))
                    /\ activity'[s] \in Alive <=> activity[s] \in Alive
  <2>1. /\ \A s \in Session \ {r} : activity'[s] = activity[s] /\ Truth(s)' = Truth(s)
        /\ outrun \subseteq outrun'
    BY <1>2 DEF Effect, Birth, Change, Death, Forgotten, Others, Outruns, Truth
  <2>2. \/ pending' = pending
        \/ \E k : Emitted(t, EventOf(r, k))
    BY <1>2 DEF Effect, Birth, Change, Death, Forgotten
  <2>3. \A s \in Session : \A k : Announcing(s, k) => Announcing(s, k)'
    <3>1. SUFFICES ASSUME NEW s \in Session, NEW k, NEW u \in Task, pending[u] = EventOf(s, k)
                   PROVE  pending'[u] = EventOf(s, k)
      BY DEF Announcing
    <3>2. ~ Ready(u)
      BY <3>1, EventFacts DEF Ready
    <3> QED
      BY <2>2, <3>1, <3>2 DEF Emitted
  <2>4. \A s \in Session \ {r}, u \in Task : Turns(pending[u], s)' => Turns(pending[u], s) /\ pending'[u] = pending[u]
    BY <2>2, EventFacts DEF Emitted, Turns
  <2>5. CASE Birth(r, t)
    <3>1. Truth(r)' = "spawned" /\ Announcing(r, "spawned")'
      BY <2>5 DEF Birth, Truth, Emitted, Announcing
    <3>2. ASSUME r \notin outrun', NEW u \in Task, Turns(pending[u], r)'
          PROVE  pending'[u].kind = "spawned"
      <4>1. CASE u = t
        BY <2>5, <4>1, EventFacts DEF Birth, Emitted
      <4>2. CASE u # t
        <5>1. pending'[u] = pending[u] /\ ~ Announcing(r, "exited")
          BY <2>5, <3>2, <4>2 DEF Birth, Emitted, Outruns
        <5>2. pending[u] \in Event
          BY <3>2, <5>1, EventFacts DEF TaskInv, TasksTypeOK, Turns
        <5> QED
          BY <3>2, <5>1, <5>2, EventFacts DEF Turns, Announcing
      <4> QED
        BY <4>1, <4>2
    <3> QED
      BY <1>0, <2>1, <2>3, <2>4, <3>1, <3>2 DEF OnlyTruthPending
  <2>6. CASE Death(r, t)
    <3>1. Truth(r)' = "exited" /\ Announcing(r, "exited")'
      BY <2>6 DEF Death, Truth, Emitted, Announcing
    <3>2. ASSUME r \notin outrun', NEW u \in Task, Turns(pending[u], r)'
          PROVE  pending'[u].kind = "exited"
      <4>1. CASE u = t
        BY <2>6, <4>1, EventFacts DEF Death, Emitted
      <4>2. CASE u # t
        <5>1. pending'[u] = pending[u] /\ ~ Announcing(r, "spawned")
          BY <2>6, <3>2, <4>2 DEF Death, Emitted, Outruns
        <5>2. pending[u] \in Event
          BY <3>2, <5>1, EventFacts DEF TaskInv, TasksTypeOK, Turns
        <5> QED
          BY <3>2, <5>1, <5>2, EventFacts DEF Turns, Announcing
      <4> QED
        BY <4>1, <4>2
    <3> QED
      BY <1>0, <2>1, <2>3, <2>4, <3>1, <3>2 DEF OnlyTruthPending
  <2>7. CASE Change(r, t) \/ Forgotten(r)
    <3>1. r \notin outrun' => (activity'[r] \in Alive <=> activity[r] \in Alive)
      BY <2>7 DEF Change, Forgotten
    <3>2. r \notin outrun' => Truth(r)' = Truth(r)
      BY <3>1 DEF Truth
    <3>3. \A u \in Task : Turns(pending[u], r)' => Turns(pending[u], r) /\ pending'[u] = pending[u]
      BY <1>0, <2>7, EventFacts DEF Change, Forgotten, Emitted, Turns
    <3> QED
      BY <1>0, <2>1, <2>3, <2>4, <3>1, <3>2, <3>3 DEF OnlyTruthPending
  <2> QED
    BY <1>2, <2>5, <2>6, <2>7 DEF Effect
<1> QED
  BY <1>1, <1>2, Effects

(* Together: the invariant of the tasks is kept by their steps.           *)
LEMMA TaskSteps == TaskInv /\ BusStep => TaskInv'
BY TaskTypes, WatcherSteps, TaskOrder, OwnerSteps, TruthSteps DEF TaskInv

(* It is kept when a task sends the event it has prepared.                *)
LEMMA TaskEmits ==
  ASSUME TaskInv, NEW t \in Task, Emit(t)
  PROVE  TaskInv'
<1>1. /\ pending' = [pending EXCEPT ![t] = NoEvent]
      /\ UNCHANGED <<busVars, sessionVars, watcher, outrun, overstated>>
  BY DEF Emit, history
<1>2. pending'[t] = NoEvent /\ \A u \in Task \ {t} : pending'[u] = pending[u]
  BY <1>1 DEF TaskInv, TasksTypeOK
<1>3. TasksTypeOK'
  BY <1>1 DEF TaskInv, TasksTypeOK, busVars, sessionVars
<1>4. WatcherKeeps'
  BY <1>1, <1>2, TaskFacts DEF TaskInv, WatcherKeeps, Ready
<1>5. TasksKeep'
  BY <1>1, <1>2, TaskFacts DEF TaskInv, TasksKeep, Ready, SpawnTask, RelayTask, EndTask, sessionVars
<1>6. OwnersAgree'
  BY <1>1 DEF TaskInv, OwnersAgree, busVars
<1>7. OnlyTruthPending'
  BY <1>1, <1>2, EventFacts DEF TaskInv, OnlyTruthPending, Turns, Truth, busVars
<1> QED
  BY <1>3, <1>4, <1>5, <1>6, <1>7 DEF TaskInv

(* It speaks of nothing else.                                             *)
LEMMA TaskStays ==
  TaskInv /\ UNCHANGED <<busVars, sessionVars, pending, watcher, history>> => TaskInv'
BY DEF TaskInv, TasksTypeOK, WatcherKeeps, TasksKeep, OwnersAgree, OnlyTruthPending,
       Turns, Truth, Ready, busVars, sessionVars, history

-----------------------------------------------------------------------------
(* Where the entries of a queue are after a push: those that are left kept *)
(* their order, and the new one is the last.                               *)
LEMMA PushShifts ==
  ASSUME NEW c \in Client, queue[c] \in Seq(Event), NEW e \in Event,
         Len(queue[c]) <= Capacity
  PROVE  \E d \in {0, 1} :
           /\ Len(queue[c]) < Capacity => d = 0
           /\ Len(Push(c, e)) = Len(queue[c]) + 1 - d
           /\ \A i \in 1 .. Len(Push(c, e)) - 1 : Push(c, e)[i] = queue[c][i + d]
<1>0. Len(queue[c]) \in Nat /\ Capacity \in Nat
  BY CapacityAssumption, LenProperties
<1>1. CASE Len(queue[c]) < Capacity
  BY <1>0, <1>1, PushProperties
<1>2. CASE Len(queue[c]) = Capacity
  <2>1. /\ Len(Push(c, e)) = Len(queue[c])
        /\ \A i \in 1 .. Len(queue[c]) - 1 : Push(c, e)[i] = queue[c][i + 1]
    BY <1>2, PushProperties
  <2> QED
    BY <1>0, <1>2, <2>1
<1> QED
  BY <1>0, <1>1, <1>2

(* The receivers are the clients that have subscribed.                    *)
LEMMA ReceiverFacts == \A c \in Client : c \in Receivers <=> sub[c] # "out"
BY DEF Receivers

(* An event that is sent goes to the end of the queue of every receiver.  *)
LEMMA ClientEmits ==
  ASSUME TasksTypeOK, ClientsTypeOK, ClientsAgree, NEW t \in Task, Emit(t)
  PROVE  ClientsTypeOK' /\ ClientsAgree'
<1>1. pending[t] \in Event
  BY DEF TasksTypeOK, Emit, Ready
<1>2. \A c \in Client : Push(c, pending[t]) \in Seq(Event) /\ Len(Push(c, pending[t])) <= Capacity
  BY <1>1, PushProperties, CapacityAssumption DEF ClientsTypeOK
<1>3. \A c \in Client : queue'[c] = queue[c] \/ queue'[c] = Push(c, pending[t])
  BY DEF Emit
<1>4. queue' \in [Client -> Seq(Event)]
  BY <1>2 DEF Emit, ClientsTypeOK
<1>5. \A c \in Client : Len(queue'[c]) <= Capacity
  BY <1>2, <1>3 DEF ClientsTypeOK
<1>6. Receivers \subseteq Client
  BY DEF Receivers
<1>7. ClientsTypeOK'
  BY <1>4, <1>5, <1>6 DEF Emit, ClientsTypeOK
<1>8. ClientsAgree'
  BY ReceiverFacts DEF Emit, ClientsAgree
<1> QED
  BY <1>7, <1>8

(* A snapshot of the sessions is a view of them.                          *)
LEMMA SnapshotsType ==
  ASSUME TasksTypeOK, NEW v \in [Session -> {"none", "gone"} \cup Alive]
  PROVE  Snapshots(v) \in [Session -> {"none", "gone"} \cup Alive]
BY DEF Snapshots, TasksTypeOK

(* The types of the clients are kept by their steps.                      *)
LEMMA ClientTypes == TasksTypeOK /\ ClientsTypeOK /\ ClientStep => ClientsTypeOK'
<1> SUFFICES ASSUME TasksTypeOK, ClientsTypeOK, ClientStep PROVE ClientsTypeOK'
  OBVIOUS
<1>1. PICK c \in Client : Register(c) \/ Sync(c) \/ Forward(c) \/ Resync(c) \/ Disconnect(c)
  BY DEF ClientStep
<1>2. Snapshots(view[c]) \in [Session -> {"none", "gone"} \cup Alive]
  BY SnapshotsType DEF ClientsTypeOK
<1>3. CASE Register(c)
  BY <1>3 DEF Register, ClientsTypeOK
<1>4. CASE Sync(c)
  BY <1>2, <1>4 DEF Sync, ClientsTypeOK
<1>5. CASE Forward(c)
  <2>1. queue[c] \in Seq(Event) /\ queue[c] # <<>>
    BY <1>5 DEF Forward, ClientsTypeOK
  <2>2. /\ Tail(queue[c]) \in Seq(Event) /\ Len(Tail(queue[c])) = Len(queue[c]) - 1
        /\ Head(queue[c]) \in Event
    BY <2>1, HeadTailProperties
  <2>3. Len(Tail(queue[c])) <= Capacity
    BY <2>1, <2>2, LenProperties, CapacityAssumption DEF ClientsTypeOK
  <2>4. queue' \in [Client -> Seq(Event)] /\ \A d \in Client : Len(queue'[d]) <= Capacity
    BY <1>5, <2>2, <2>3 DEF Forward, ClientsTypeOK
  <2>5. PICK e \in Event : view' = [view EXCEPT ![c][e.id] = Shown(@, e.kind)]
    BY <1>5, <2>2 DEF Forward
  <2>6. \A v \in {"none", "gone"} \cup Alive : Shown(v, e.kind) \in {"none", "gone"} \cup Alive
    BY EventFacts DEF Shown, Alive
  <2>7. view' \in [Client -> [Session -> {"none", "gone"} \cup Alive]]
    <3>1. e.id \in Session
      BY EventFacts
    <3> QED
      BY <2>5, <2>6, <3>1 DEF ClientsTypeOK
  <2> QED
    BY <1>5, <2>4, <2>7 DEF Forward, ClientsTypeOK
<1>6. CASE Resync(c)
  BY <1>2, <1>6 DEF Resync, ClientsTypeOK
<1>7. CASE Disconnect(c)
  <2>1. Unseen \in [Session -> {"none", "gone"} \cup Alive] /\ <<>> \in Seq(Event)
        /\ Len(<<>>) <= Capacity
    BY CapacityAssumption, EmptySeq DEF Unseen
  <2> QED
    BY <1>7, <2>1 DEF Disconnect, ClientsTypeOK
<1> QED
  BY <1>1, <1>3, <1>4, <1>5, <1>6, <1>7

(* A client's subscription stays in step with its queue, view and losses. *)
LEMMA ClientOrder == ClientsTypeOK /\ ClientsAgree /\ ClientStep => ClientsAgree'
<1> SUFFICES ASSUME ClientsTypeOK, ClientsAgree, ClientStep PROVE ClientsAgree'
  OBVIOUS
<1>1. ASSUME NEW c \in Client, Register(c) PROVE ClientsAgree'
  BY <1>1 DEF Register, ClientsTypeOK, ClientsAgree
<1>2. ASSUME NEW c \in Client, Sync(c) PROVE ClientsAgree'
  BY <1>2 DEF Sync, ClientsTypeOK, ClientsAgree
<1>3. ASSUME NEW c \in Client, Forward(c) PROVE ClientsAgree'
  <2>1. \A d \in Client \ {c} : view'[d] = view[d] /\ queue'[d] = queue[d]
    BY <1>3 DEF Forward, ClientsTypeOK
  <2> QED
    BY <1>3, <2>1 DEF Forward, ClientsAgree
<1>4. ASSUME NEW c \in Client, Resync(c) PROVE ClientsAgree'
  BY <1>4 DEF Resync, ClientsTypeOK, ClientsAgree
<1>5. ASSUME NEW c \in Client, Disconnect(c) PROVE ClientsAgree'
  BY <1>5 DEF Disconnect, ClientsTypeOK, ClientsAgree
<1> QED
  BY <1>1, <1>2, <1>3, <1>4, <1>5 DEF ClientStep

-----------------------------------------------------------------------------
(* Steps of the bus and the watcher make nothing true that is not told.    *)
LEMMA QueueBus == BusInv /\ BusStep => QueueTells'
<1> SUFFICES ASSUME BusInv, BusStep, NEW c \in Client, NEW s \in Session, Told(c, s)'
             PROVE  /\ \A i \in 1 .. Len(queue'[c]) :
                         LastTurn(c, i, s)' => queue'[c][i].kind = Truth(s)'
                    /\ sub'[c] = "in" /\ c \notin lagged' /\ NoTurn(c, s)' =>
                         (view'[c][s] \in Alive <=> activity'[s] \in Alive)
  BY DEF QueueTells
<1>1. queue' = queue /\ sub' = sub /\ lagged' = lagged /\ view' = view /\ lost' = lost
  BY BusStepClients DEF clientVars
<1>2. /\ s \notin outrun /\ ~ Announcing(s, Truth(s))
      /\ activity'[s] \in Alive <=> activity[s] \in Alive
  BY TruthSteps, TypeParts DEF BusInv, TaskInv, Told
<1>3. Told(c, s) /\ Truth(s)' = Truth(s)
  BY <1>1, <1>2 DEF Told, Truth
<1>4. /\ \A i \in 1 .. Len(queue[c]) : LastTurn(c, i, s)' <=> LastTurn(c, i, s)
      /\ NoTurn(c, s)' <=> NoTurn(c, s)
  BY <1>1 DEF LastTurn, NoTurn
<1> QED
  BY <1>1, <1>2, <1>3, <1>4 DEF BusInv, QueueTells

(* An event is pushed: a turn of s is the truth, any other event leaves    *)
(* the last turn of s the last.                                            *)
LEMMA QueueEmit ==
  ASSUME BusInv, NEW t \in Task, Emit(t)
  PROVE  QueueTells'
<1> SUFFICES ASSUME NEW c \in Client, NEW s \in Session, Told(c, s)'
             PROVE  /\ \A i \in 1 .. Len(queue'[c]) :
                         LastTurn(c, i, s)' => queue'[c][i].kind = Truth(s)
                    /\ sub[c] = "in" /\ c \notin lagged' /\ NoTurn(c, s)' =>
                         (view[c][s] \in Alive <=> activity[s] \in Alive)
  BY DEF QueueTells, Truth, Emit, busVars
<1> DEFINE e == pending[t]
           q == queue[c]
<1>1. /\ e \in Event /\ q \in Seq(Event) /\ Len(q) <= Capacity /\ Len(q) \in Nat
      /\ Capacity \in Nat /\ t \in Task
  BY TypeParts, LenProperties, CapacityAssumption DEF BusInv, TasksTypeOK, ClientsTypeOK, Emit, Ready
<1>2. /\ s \notin outrun /\ sub[c] # "out"
      /\ activity[s] \in Alive \/ c \notin lost
      /\ \A k : ~ Announcing(s, k)' /\ e # EventOf(s, k) => ~ Announcing(s, k)
  <2>1. \A u \in Task \ {t} : pending'[u] = pending[u]
    BY TypeParts DEF Emit, BusInv, TasksTypeOK
  <2> QED
    BY <2>1 DEF Told, Emit, busVars, history, Announcing
<1>3. queue'[c] = Push(c, e)
  BY <1>2, ReceiverFacts DEF Emit
<1>4. /\ Len(queue'[c]) \in 1 .. Capacity
      /\ queue'[c][Len(queue'[c])] = e
  BY <1>1, <1>3, PushProperties
<1>5. CASE Turns(e, s)
  <2>1. e.kind = Truth(s)
    BY <1>1, <1>2, <1>5 DEF BusInv, OnlyTruthPending
  <2>2. ASSUME NEW i \in 1 .. Len(queue'[c]), LastTurn(c, i, s)' PROVE queue'[c][i].kind = Truth(s)
    <3>1. \A j \in i + 1 .. Len(queue'[c]) : ~ Turns(queue'[c][j], s)
      BY <2>2 DEF LastTurn
    <3>2. i = Len(queue'[c])
      BY <1>4, <1>5, <3>1
    <3> QED
      BY <1>4, <2>1, <3>2
  <2>3. ~ NoTurn(c, s)'
    BY <1>4, <1>5 DEF NoTurn
  <2> QED
    BY <2>2, <2>3
<1>6. CASE ~ Turns(e, s)
  <2>1. PICK k : k = Truth(s) /\ ~ Announcing(s, k)'
    BY DEF Told, Truth, Emit, busVars
  <2>2. Told(c, s)
    <3>1. e # EventOf(s, k)
      BY <1>6, <2>1, EventFacts DEF Turns, Truth
    <3> QED
      BY <1>2, <2>1, <3>1 DEF Told
  <2>3. PICK d \in {0, 1} :
          /\ Len(q) < Capacity => d = 0
          /\ Len(queue'[c]) = Len(q) + 1 - d
          /\ \A i \in 1 .. Len(queue'[c]) - 1 : queue'[c][i] = q[i + d]
    BY <1>1, <1>3, PushShifts
  <2>4. ASSUME NEW i \in 1 .. Len(queue'[c]), LastTurn(c, i, s)' PROVE queue'[c][i].kind = Truth(s)
    <3>1. /\ Turns(queue'[c][i], s)
          /\ \A j \in i + 1 .. Len(queue'[c]) : ~ Turns(queue'[c][j], s)
      BY <2>4 DEF LastTurn
    <3>2. i # Len(queue'[c])
      BY <1>4, <1>6, <3>1
    <3>3. i + d \in 1 .. Len(q) /\ queue'[c][i] = q[i + d]
      BY <1>1, <2>3, <3>2
    <3>4. ASSUME NEW j \in i + d + 1 .. Len(q) PROVE ~ Turns(q[j], s)
      <4>1. j - d \in i + 1 .. Len(queue'[c]) /\ j - d \in 1 .. Len(queue'[c]) - 1 /\ (j - d) + d = j
        BY <1>1, <2>3
      <4> QED
        BY <2>3, <3>1, <4>1
    <3>5. LastTurn(c, i + d, s)
      BY <3>1, <3>3, <3>4 DEF LastTurn
    <3> QED
      BY <2>2, <3>3, <3>5 DEF BusInv, QueueTells
  <2>5. ASSUME sub[c] = "in", c \notin lagged', NoTurn(c, s)'
        PROVE  view[c][s] \in Alive <=> activity[s] \in Alive
    <3>1. c \notin lagged /\ Len(q) # Capacity
      BY <1>2, <2>5, ReceiverFacts DEF Emit
    <3>2. d = 0
      BY <1>1, <2>3, <3>1
    <3>3. \A i \in 1 .. Len(q) : q[i] = queue'[c][i] /\ i \in 1 .. Len(queue'[c])
      BY <1>1, <2>3, <3>2
    <3>4. NoTurn(c, s)
      BY <2>5, <3>3 DEF NoTurn
    <3> QED
      BY <2>2, <2>5, <3>1, <3>4 DEF BusInv, QueueTells
  <2> QED
    BY <2>4, <2>5
<1> QED
  BY <1>5, <1>6

(* A queue loses its head to the view.                                     *)
LEMMA HeadGone ==
  ASSUME ClientsTypeOK, NEW c \in Client, Forward(c)
  PROVE  \E e \in Event :
           /\ Len(queue[c]) \in Nat \ {0} /\ e = queue[c][1]
           /\ Len(queue'[c]) = Len(queue[c]) - 1
           /\ \A i \in 1 .. Len(queue'[c]) : queue'[c][i] = queue[c][i + 1]
           /\ \A s \in Session :
                view'[c][s] = IF s = e.id THEN Shown(view[c][s], e.kind) ELSE view[c][s]
<1>1. queue[c] \in Seq(Event) /\ queue[c] # <<>>
  BY DEF Forward, ClientsTypeOK
<1>2. /\ Head(queue[c]) \in Event /\ Head(queue[c]) = queue[c][1]
      /\ Len(Tail(queue[c])) = Len(queue[c]) - 1
      /\ \A i \in 1 .. Len(Tail(queue[c])) : Tail(queue[c])[i] = queue[c][i + 1]
  BY <1>1, HeadTailProperties
<1>3. Len(queue[c]) \in Nat \ {0}
  BY <1>1, LenProperties, EmptySeq
<1>4. queue'[c] = Tail(queue[c])
  BY DEF Forward, ClientsTypeOK
<1>5. PICK e \in Event : e = queue[c][1] /\ view' = [view EXCEPT ![c][e.id] = Shown(@, e.kind)]
  BY <1>2 DEF Forward
<1>6. \A s \in Session :
        view'[c][s] = IF s = e.id THEN Shown(view[c][s], e.kind) ELSE view[c][s]
  BY <1>5 DEF ClientsTypeOK
<1> QED
  BY <1>2, <1>3, <1>4, <1>5, <1>6

(* A forwarded event leaves the rest of the queue telling the truth.      *)
LEMMA QueueForward ==
  ASSUME BusInv, NEW c \in Client, Forward(c), NEW s \in Session, Told(c, s)
  PROVE  /\ \A i \in 1 .. Len(queue'[c]) : LastTurn(c, i, s)' => queue'[c][i].kind = Truth(s)
         /\ NoTurn(c, s)' => (view'[c][s] \in Alive <=> activity[s] \in Alive)
<1>1. PICK e \in Event :
        /\ Len(queue[c]) \in Nat \ {0} /\ e = queue[c][1]
        /\ Len(queue'[c]) = Len(queue[c]) - 1
        /\ \A i \in 1 .. Len(queue'[c]) : queue'[c][i] = queue[c][i + 1]
        /\ \A r \in Session :
             view'[c][r] = IF r = e.id THEN Shown(view[c][r], e.kind) ELSE view[c][r]
  BY HeadGone, TypeParts DEF BusInv
<1>2. ASSUME NEW i \in 1 .. Len(queue'[c]), LastTurn(c, i, s)' PROVE queue'[c][i].kind = Truth(s)
  <2>1. i + 1 \in 1 .. Len(queue[c]) /\ queue'[c][i] = queue[c][i + 1]
    BY <1>1
  <2>2. ASSUME NEW j \in i + 2 .. Len(queue[c]) PROVE ~ Turns(queue[c][j], s)
    <3>1. j - 1 \in i + 1 .. Len(queue'[c]) /\ j - 1 \in 1 .. Len(queue'[c]) /\ (j - 1) + 1 = j
      BY <1>1
    <3> QED
      BY <1>1, <1>2, <3>1 DEF LastTurn
  <2>3. LastTurn(c, i + 1, s)
    BY <1>2, <2>1, <2>2 DEF LastTurn
  <2> QED
    BY <2>1, <2>3 DEF BusInv, QueueTells
<1>3. ASSUME NoTurn(c, s)' PROVE view'[c][s] \in Alive <=> activity[s] \in Alive
  <2>1. \A j \in 2 .. Len(queue[c]) : ~ Turns(queue[c][j], s)
    <3>1. SUFFICES ASSUME NEW j \in 2 .. Len(queue[c]) PROVE ~ Turns(queue[c][j], s)
      OBVIOUS
    <3>2. j - 1 \in 1 .. Len(queue'[c]) /\ (j - 1) + 1 = j
      BY <1>1
    <3> QED
      BY <1>1, <1>3, <3>2 DEF NoTurn
  <2>2. CASE Turns(e, s)
    <3>1. LastTurn(c, 1, s)
      BY <1>1, <2>1, <2>2 DEF LastTurn
    <3>2. e.kind = Truth(s)
      BY <1>1, <3>1 DEF BusInv, QueueTells
    <3>3. view'[c][s] = Shown(view[c][s], e.kind)
      BY <1>1, <2>2 DEF Turns
    <3> QED
      BY <3>2, <3>3 DEF Shown, Truth, Alive
  <2>3. CASE ~ Turns(e, s)
    <3>1. NoTurn(c, s)
      BY <1>1, <2>1, <2>3 DEF NoTurn
    <3>2. view[c][s] \in Alive <=> activity[s] \in Alive
      BY <3>1 DEF Forward, BusInv, QueueTells
    <3>3. e.id = s => e.kind \in Alive
      BY <2>3, EventFacts DEF Turns
    <3>4. view'[c][s] \in Alive <=> view[c][s] \in Alive
      BY <1>1, <3>3 DEF Shown, Alive
    <3> QED
      BY <3>2, <3>4
  <2> QED
    BY <2>2, <2>3
<1> QED
  BY <1>2, <1>3

(* Snapshots show every session alive that is, and keep the others.        *)
LEMMA SnapshotFacts ==
  ASSUME OwnersAgree, NEW s \in Session, NEW v
  PROVE  /\ activity[s] \in Alive => Snapshots(v)[s] = activity[s]
         /\ Snapshots(v)[s] \in {v[s], activity[s]}
BY DEF OwnersAgree, Snapshots

(* So does every other step of a client.                                  *)
LEMMA QueueClient == BusInv /\ ClientStep => QueueTells'
<1> SUFFICES ASSUME BusInv, ClientStep, NEW d \in Client, NEW s \in Session, Told(d, s)'
             PROVE  /\ \A i \in 1 .. Len(queue'[d]) :
                         LastTurn(d, i, s)' => queue'[d][i].kind = Truth(s)
                    /\ sub'[d] = "in" /\ d \notin lagged' /\ NoTurn(d, s)' =>
                         (view'[d][s] \in Alive <=> activity[s] \in Alive)
  BY ClientStepTasks DEF QueueTells, Truth, busVars
<1>1. /\ s \notin outrun /\ ~ Announcing(s, Truth(s))
      /\ sub'[d] # "out"
      /\ activity[s] \in Alive \/ d \notin lost'
  BY ClientStepTasks DEF Told, Announcing, Truth, busVars, history
<1>2. ClientsTypeOK /\ TasksTypeOK /\ ClientsAgree /\ OwnersAgree
  BY TypeParts DEF BusInv
<1>3. PICK c \in Client : Register(c) \/ Sync(c) \/ Forward(c) \/ Resync(c) \/ Disconnect(c)
  BY DEF ClientStep
<1>4. CASE d # c
  <2>1. /\ queue'[d] = queue[d] /\ view'[d] = view[d] /\ sub'[d] = sub[d]
        /\ d \in lagged' <=> d \in lagged
        /\ d \in lost' <=> d \in lost
    BY <1>2, <1>3, <1>4 DEF Register, Sync, Forward, Resync, Disconnect, ClientsTypeOK
  <2>2. Told(d, s)
    BY <1>1, <2>1 DEF Told
  <2>3. /\ \A i \in 1 .. Len(queue[d]) : LastTurn(d, i, s)' <=> LastTurn(d, i, s)
        /\ NoTurn(d, s)' <=> NoTurn(d, s)
    BY <2>1 DEF LastTurn, NoTurn
  <2> QED
    BY <2>1, <2>2, <2>3 DEF BusInv, QueueTells
<1>5. CASE d = c /\ Register(c)
  <2>1. queue'[d] = <<>> /\ sub'[d] = "registered"
    BY <1>2, <1>5 DEF Register, ClientsAgree, ClientsTypeOK
  <2> QED
    BY <2>1, EmptySeq
<1>6. CASE d = c /\ (Sync(c) \/ Resync(c))
  <2>1. queue' = queue /\ lost' = lost /\ sub[d] # "out" /\ view'[d] = Snapshots(view[d])
    BY <1>2, <1>6 DEF Sync, Resync, ClientsTypeOK
  <2>2. Told(d, s)
    BY <1>1, <2>1 DEF Told
  <2>3. \A i \in 1 .. Len(queue[d]) : LastTurn(d, i, s)' <=> LastTurn(d, i, s)
    BY <2>1 DEF LastTurn
  <2>4. CASE activity[s] \in Alive
    BY <1>2, <2>1, <2>2, <2>3, <2>4, SnapshotFacts DEF BusInv, QueueTells
  <2>5. CASE activity[s] \notin Alive
    <3>1. Sync(c)
      BY <1>1, <1>2, <1>6, <2>1, <2>5 DEF Resync, ClientsAgree
    <3>2. view[d][s] = "none"
      BY <1>2, <1>6, <3>1 DEF Sync, ClientsAgree, Unseen
    <3>3. view'[d][s] \notin Alive
      BY <1>2, <2>1, <2>5, <3>2, SnapshotFacts DEF Alive
    <3> QED
      BY <2>1, <2>2, <2>3, <2>5, <3>3 DEF BusInv, QueueTells
  <2> QED
    BY <2>4, <2>5
<1>7. CASE d = c /\ Forward(c)
  <2>1. Told(d, s)
    BY <1>1, <1>7 DEF Forward, Told
  <2> QED
    BY <1>7, <2>1, QueueForward
<1>8. CASE d = c /\ Disconnect(c)
  BY <1>1, <1>2, <1>8 DEF Disconnect, ClientsTypeOK
<1> QED
  BY <1>3, <1>4, <1>5, <1>6, <1>7, <1>8

-----------------------------------------------------------------------------

(* The invariant of the bus holds when the daemon starts.                 *)
LEMMA BusInvInit == Init => BusInv
<1> SUFFICES ASSUME Init PROVE BusInv
  OBVIOUS
<1>1. Unseen \in [Session -> {"none"} \cup Alive] /\ \A s \in Session : Unseen[s] \notin Alive
  BY DEF Unseen, Alive
<1>2. <<>> \in Seq(Event) /\ Len(<<>>) <= Capacity
  BY CapacityAssumption, EmptySeq
<1>3. TasksTypeOK
  BY <1>1 DEF Init, TasksTypeOK, WatcherStep, Unread
<1>4. ClientsTypeOK
  BY <1>1, <1>2 DEF Init, ClientsTypeOK
<1>5. WatcherKeeps /\ TasksKeep
  BY TaskFacts DEF Init, WatcherKeeps, TasksKeep, Ready, SpawnTask, RelayTask, EndTask
<1>6. OwnersAgree
  BY <1>1 DEF Init, OwnersAgree, Session
<1>7. OnlyTruthPending
  BY EventFacts DEF Init, OnlyTruthPending, Turns
<1>8. ClientsAgree /\ QueueTells
  BY DEF Init, ClientsAgree, QueueTells, Told
<1> QED
  BY <1>3, <1>4, <1>5, <1>6, <1>7, <1>8, TypeParts DEF BusInv

(* The invariant of the bus, by its parts.                                *)
LEMMA BusInvParts ==
  BusInv <=> TaskInv /\ ClientsTypeOK /\ ClientsAgree /\ QueueTells
BY TypeParts DEF BusInv, TaskInv

(* Every step keeps it.                                                   *)
LEMMA BusInvSteps == BusInv /\ [Next]_vars => BusInv'
<1> SUFFICES ASSUME BusInv, [Next]_vars PROVE BusInv'
  OBVIOUS
<1>0. TaskInv /\ TasksTypeOK /\ ClientsTypeOK /\ ClientsAgree /\ QueueTells
  BY BusInvParts DEF TaskInv
<1>1. CASE BusStep
  <2>1. ClientsTypeOK' /\ ClientsAgree'
    BY <1>0, <1>1, BusStepClients DEF clientVars, ClientsTypeOK, ClientsAgree
  <2>2. TaskInv' /\ QueueTells'
    BY <1>0, <1>1, TaskSteps, QueueBus
  <2> QED
    BY <2>1, <2>2, BusInvParts, PTL
<1>2. CASE ClientStep
  <2>1. TaskInv' /\ QueueTells'
    BY <1>0, <1>2, ClientStepTasks, TaskStays, QueueClient
  <2>2. ClientsTypeOK' /\ ClientsAgree'
    BY <1>0, <1>2, ClientTypes, ClientOrder
  <2> QED
    BY <2>1, <2>2, BusInvParts, PTL
<1>3. ASSUME NEW t \in Task, Emit(t) PROVE BusInv'
  <2>1. TaskInv' /\ ClientsTypeOK' /\ ClientsAgree' /\ QueueTells'
    BY <1>0, <1>3, TaskEmits, ClientEmits, QueueEmit
  <2> QED
    BY <2>1, BusInvParts, PTL
<1>4. CASE UNCHANGED vars
  <2>1. UNCHANGED <<busVars, sessionVars, pending, watcher, history>>
    BY <1>4 DEF vars
  <2>2. TaskInv'
    BY <1>0, <2>1, TaskStays
  <2>3. ClientsTypeOK' /\ ClientsAgree'
    BY <1>0, <1>4 DEF vars, clientVars, ClientsTypeOK, ClientsAgree
  <2>4. QueueTells'
    BY <1>0, <1>4 DEF vars, busVars, clientVars, history, QueueTells, Told, Truth, Announcing,
                      LastTurn, NoTurn
  <2> QED
    BY <2>2, <2>3, <2>4, BusInvParts, PTL
<1> QED
  BY <1>1, <1>2, <1>3, <1>4, NextParts

(* It is an invariant of the specification.                               *)
LEMMA BusInvAlways == Spec => []BusInv
BY BusInvInit, BusInvSteps, PTL DEF Spec

(* The bus, its tasks and its subscribers keep their types, and no queue   *)
(* grows past the channel's capacity.                                      *)
THEOREM BusTyped == Spec => []TypeOK
<1>1. BusInv => TypeOK
  BY DEF BusInv
<1> QED
  BY <1>1, BusInvAlways, PTL

(* Once nothing is on its way, every subscriber shows every live session   *)
(* whose births and ends are in order, and none alive that is not unless   *)
(* it lagged: of Quiet's parts, no event pending and none queued.          *)
LEMMA QuietTells ==
  ASSUME BusInv, Quiet, NEW c \in Client, NEW s \in Session, sub[c] = "in",
         s \notin outrun, activity[s] \in Alive \/ c \notin lost
  PROVE  view[c][s] \in Alive <=> activity[s] \in Alive
<1>1. ~ Announcing(s, Truth(s))
  BY EventFacts DEF Quiet, Ready, Announcing, Truth
<1>2. Told(c, s)
  BY <1>1 DEF Told
<1>3. c \notin lagged /\ NoTurn(c, s)
  BY EmptySeq DEF Quiet, NoTurn
<1> QED
  BY <1>2, <1>3 DEF BusInv, QueueTells

(* Subscribing before the snapshots leaves no gap: once nothing is on its  *)
(* way every subscriber shows every session alive that is, lagged or not.  *)
THEOREM LiveSessionsShown == Spec => []LiveIsShown
<1>1. BusInv => LiveIsShown
  BY QuietTells DEF LiveIsShown
<1> QED
  BY <1>1, BusInvAlways, PTL

(* And none that is not, unless it lagged since it subscribed.             *)
THEOREM GoneSessionsHidden == Spec => []GoneIsNotShown
<1>1. BusInv => GoneIsNotShown
  BY QuietTells DEF GoneIsNotShown
<1> QED
  BY <1>1, BusInvAlways, PTL

-----------------------------------------------------------------------------
(* The daemon's tasks know nothing of the sessions of state files.         *)
LEMMA DaemonLeaves ==
  ASSUME TasksTypeOK, NEW r \in Daemon, NEW s \in External,
         StartSession(r) \/ Publish(r) \/ RelayNotification(r) \/ EndSession(r)
         \/ ForgetSession(r)
  PROVE  /\ owner'[s] = owner[s] /\ activity'[s] = activity[s]
         /\ pending'[WatcherTask] = pending[WatcherTask] /\ watcher' = watcher
<1>1. r # s /\ s \in Session /\ r \in Session
  BY SessionAssumption DEF Session
<1>2. owner'[s] = owner[s] /\ activity'[s] = activity[s]
  <2>1. CASE StartSession(r)
    BY <2>1 DEF StartSession, busVars
  <2>2. CASE Publish(r) \/ ForgetSession(r)
    BY <1>1, <2>2 DEF Publish, ForgetSession, RemoveState, InsertState, TasksTypeOK
  <2>3. CASE RelayNotification(r)
    BY <1>1, <2>3 DEF RelayNotification, StatusChanged, ToolStarted, ToolCompleted,
                      CommandStarted, SetActivity, TasksTypeOK
  <2>4. CASE EndSession(r)
    BY <1>1, <2>4 DEF EndSession, TasksTypeOK, busVars
  <2> QED
    BY <2>1, <2>2, <2>3, <2>4
<1> QED
  BY <1>2, DaemonTasks

(* A step of the watcher, or none at all, of another task.                 *)
LEMMA BusSplit ==
  ASSUME TasksTypeOK, BusStep
  PROVE  \/ /\ \A s \in External : owner'[s] = owner[s] /\ activity'[s] = activity[s]
            /\ pending'[WatcherTask] = pending[WatcherTask] /\ watcher' = watcher
            /\ overstated' = overstated
         \/ WatcherStepTaken
<1>1. ASSUME NEW r \in Daemon,
             StartSession(r) \/ Publish(r) \/ RelayNotification(r) \/ EndSession(r)
             \/ ForgetSession(r)
      PROVE  /\ \A s \in External : owner'[s] = owner[s] /\ activity'[s] = activity[s]
             /\ pending'[WatcherTask] = pending[WatcherTask] /\ watcher' = watcher
             /\ overstated' = overstated
  BY <1>1, DaemonTasks, DaemonLeaves
<1>2. ASSUME NEW r \in Session, WriteFile(r)
      PROVE  /\ \A s \in External : owner'[s] = owner[s] /\ activity'[s] = activity[s]
             /\ pending'[WatcherTask] = pending[WatcherTask] /\ watcher' = watcher
             /\ overstated' = overstated
  BY <1>2 DEF WriteFile, busVars, history
<1> QED
  BY <1>1, <1>2 DEF BusStep

(* What one step of the watcher does to the session of a state file, its   *)
(* event and the step after it.                                            *)
LookOn ==
  \/ Poll \/ BeginSweep \/ EndSweep
  \/ \E s \in Session : CheckOwner(s) \/ CheckGone(s)

(* What the watcher does when it only looks at the files.                 *)
LEMMA LooksOn ==
  ASSUME TasksTypeOK, LookOn
  PROVE  /\ UNCHANGED <<owner, activity, pending, overstated>>
         /\ watcher.step # "initial" /\ watcher'.step # "initial"
BY DEF LookOn, Poll, BeginSweep, EndSweep, CheckOwner, CheckGone, busVars, history, TasksTypeOK

(* An event of the watcher, and what a subscriber will show after it.      *)
LEMMA TellsFacts ==
  ASSUME TasksTypeOK, NEW r \in Session, NEW k, Tells(r, k), WatcherTask \in Task
  PROVE  /\ pending'[WatcherTask] = EventOf(r, k)
         /\ \A s \in Session \ {r} : s \in overstated' <=> s \in overstated
         /\ r \in External /\ k = "toolRunning" => Shows(k, r)'
BY DEF Tells, Emits, TasksTypeOK, Shows

(* A changed tool: what the bus holds of the sessions stays, and an event  *)
(* says so, or nothing does.                                               *)
LEMMA ToolFacts ==
  ASSUME TasksTypeOK, NEW r \in Session, NEW t, ChangeTool(r, t), WatcherTask \in Task
  PROVE  /\ UNCHANGED <<owner, activity>>
         /\ \/ UNCHANGED <<pending, overstated>>
            \/ Tells(r, "toolRunning")
BY DEF ChangeTool

(* What the watcher does when it imports a session: the bus entry of r, and *)
(* the event to send.                                                      *)
LEMMA ImportFacts ==
  ASSUME TaskInv, Import
  PROVE  LET r == watcher.target
             a == watcher.read[r].activity IN
         /\ r \in Session /\ a \in Alive /\ Ready(WatcherTask) /\ watcher.step = "import"
         /\ Others(r)
         /\ \/ /\ owner[r] = "none" /\ owner'[r] = "external" /\ activity'[r] = a
               /\ Tells(r, "spawned")
               /\ IF a = "idle" THEN watcher'.step = "check"
                  ELSE /\ watcher'.step = "initial" /\ watcher'.target = r
                       /\ watcher'.read = watcher.read
            \/ /\ owner[r] # "none" /\ watcher'.step = "tool"
               /\ activity'[r] = IF activity[r] \in Alive THEN a ELSE activity[r]
               /\ Tells(r, a)
            \/ /\ owner[r] # "none" /\ watcher'.step = "check"
               /\ ChangeTool(r, watcher.read[r].tool)
<1> DEFINE r == watcher.target
           a == watcher.read[r].activity
<1>1. r \in Session /\ a \in Alive /\ Ready(WatcherTask) /\ watcher.step = "import"
  BY ContentFacts DEF TaskInv, WatcherKeeps, Import
<1>2. Imported.step = "check"
  BY DEF Imported, TaskInv, TasksTypeOK
<1>3. CASE owner[r] = "none"
  <2>1. /\ InsertState(r, "external", a, watcher.read[r].tool) /\ Tells(r, "spawned")
        /\ watcher' = IF a = "idle" THEN Imported ELSE [watcher EXCEPT !.step = "initial"]
    BY <1>3 DEF Import
  <2>2. IF a = "idle" THEN watcher'.step = "check"
        ELSE watcher'.step = "initial" /\ watcher'.target = r /\ watcher'.read = watcher.read
    BY <1>2, <2>1 DEF TaskInv, TasksTypeOK
  <2>3. owner'[r] = "external" /\ activity'[r] = a /\ Others(r)
    BY <1>1, <2>1 DEF InsertState, Others, TaskInv, TasksTypeOK
  <2> QED
    BY <1>1, <1>3, <2>1, <2>2, <2>3
<1>4. CASE owner[r] # "none" /\ activity[r] # a
  <2>1. /\ SetActivity(r, a) /\ Tells(r, a)
        /\ watcher' = [watcher EXCEPT !.step = "tool"]
    BY <1>4 DEF Import
  <2>2. watcher'.step = "tool"
    BY <2>1 DEF TaskInv, TasksTypeOK
  <2>3. activity'[r] = (IF activity[r] \in Alive THEN a ELSE activity[r]) /\ Others(r)
    BY <1>1, <2>1 DEF SetActivity, Others, TaskInv, TasksTypeOK
  <2> QED
    BY <1>1, <1>4, <2>1, <2>2, <2>3
<1>5. CASE owner[r] # "none" /\ activity[r] = a
  <2>1. ChangeTool(r, watcher.read[r].tool) /\ watcher' = Imported
    BY <1>5 DEF Import
  <2>2. Others(r)
    BY <2>1 DEF ChangeTool, Others
  <2> QED
    BY <1>1, <1>2, <1>5, <2>1, <2>2
<1> QED
  BY <1>3, <1>4, <1>5

(* What it does after the event of a changed activity.                     *)
LEMMA ImportToolFacts ==
  ASSUME TaskInv, ImportTool
  PROVE  LET r == watcher.target IN
         /\ r \in Session /\ Ready(WatcherTask) /\ watcher.step = "tool"
         /\ watcher'.step = "check" /\ UNCHANGED <<owner, activity>>
         /\ UNCHANGED <<pending, overstated>> \/ Tells(r, "toolRunning")
<1> DEFINE r == watcher.target
<1>1. r \in Session /\ Ready(WatcherTask) /\ watcher.step = "tool" /\ WatcherTask \in Task
  BY TaskFacts DEF TaskInv, WatcherKeeps, ImportTool
<1>2. watcher'.step = "check"
  BY DEF ImportTool, Imported, TaskInv, TasksTypeOK
<1>3. CASE owner[r] = "none"
  BY <1>1, <1>2, <1>3 DEF ImportTool, busVars
<1>4. CASE owner[r] # "none"
  <2>1. ChangeTool(r, watcher.read[r].tool)
    BY <1>4 DEF ImportTool
  <2> QED
    BY <1>1, <1>2, <2>1, ToolFacts DEF TaskInv
<1> QED
  BY <1>3, <1>4

(* What it does when it gives a new session its first activity.           *)
LEMMA InitialFacts ==
  ASSUME TaskInv, ImportInitialActivity
  PROVE  LET r == watcher.target IN
         /\ r \in Session /\ Ready(WatcherTask) /\ watcher.step = "initial"
         /\ watcher'.step = "check" /\ UNCHANGED <<owner, activity, overstated>>
         /\ IF owner[r] = "none" THEN pending' = pending
            ELSE pending'[WatcherTask] = EventOf(r, watcher.read[r].activity)
BY TaskFacts DEF TaskInv, WatcherKeeps, ImportInitialActivity, Imported, Emits, TasksTypeOK,
                 busVars, history

(* What it does when it removes a session whose file is gone.             *)
LEMMA RemoveFacts ==
  ASSUME TaskInv, RemoveExternal
  PROVE  LET r == watcher.target IN
         /\ r \in Session /\ Ready(WatcherTask) /\ watcher.step = "remove"
         /\ watcher'.step = "sweep" /\ Others(r) /\ overstated' = overstated
         /\ \/ UNCHANGED <<owner, activity, pending>>
            \/ owner'[r] = "none" /\ pending'[WatcherTask] = EventOf(r, "exited")
<1> DEFINE r == watcher.target
<1>1. r \in Session /\ Ready(WatcherTask) /\ WatcherTask \in Task
  BY TaskFacts DEF TaskInv, WatcherKeeps, RemoveExternal
<1>2. watcher'.step = "sweep" /\ overstated' = overstated
  BY DEF RemoveExternal, TaskInv, TasksTypeOK
<1>3. CASE owner[r] = "none"
  BY <1>1, <1>2, <1>3 DEF RemoveExternal, Others, busVars
<1>4. CASE owner[r] # "none"
  <2>1. pending'[WatcherTask] = EventOf(r, "exited")
    BY <1>1, <1>4 DEF RemoveExternal, Emits, TaskInv, TasksTypeOK
  <2>2. owner'[r] = "none" /\ Others(r)
    BY <1>1, <1>4 DEF RemoveExternal, RemoveState, InsertState, Others, TaskInv, TasksTypeOK
  <2> QED
    BY <1>1, <1>2, <2>1, <2>2 DEF RemoveExternal
<1> QED
  BY <1>3, <1>4

(* What the watcher is about to tell stays what the bus holds.            *)
LEMMA TellsSteps == TaskInv /\ WatcherTells /\ BusStep => WatcherTells'
<1> SUFFICES ASSUME TaskInv, WatcherTells, BusStep PROVE WatcherTells'
  OBVIOUS
<1>0. TasksTypeOK /\ OwnersAgree /\ External \subseteq Session /\ WatcherTask \in Task
  BY TaskFacts DEF TaskInv, Session
<1>1. CASE /\ \A s \in External : owner'[s] = owner[s] /\ activity'[s] = activity[s]
           /\ pending'[WatcherTask] = pending[WatcherTask] /\ watcher' = watcher
           /\ overstated' = overstated
  BY <1>1 DEF WatcherTells, Mirrors, Shows
<1>2. CASE LookOn
  BY <1>0, <1>2, LooksOn DEF WatcherTells, Mirrors, Shows
<1>3. ASSUME NEW r \in Session, Tells(r, "toolRunning"), watcher'.step \in {"check", "tool"}
      PROVE  WatcherTells'
  <2>1. pending'[WatcherTask] = EventOf(r, "toolRunning")
    BY <1>0, <1>3, TellsFacts
  <2>2. r \in External => Mirrors("toolRunning", r)'
    BY <1>0, <1>3, TellsFacts DEF Mirrors
  <2> QED
    BY <1>3, <2>1, <2>2, EventFacts DEF WatcherTells
<1>4. CASE Import
  <2>0. PICK r, a : r = watcher.target /\ a = watcher.read[r].activity
    OBVIOUS
  <2>1. r \in Session /\ Ready(WatcherTask) => \A s \in External : pending[WatcherTask].id # s
    BY <1>0, EventFacts DEF Ready
  <2>2. CASE /\ owner[r] = "none" /\ owner'[r] = "external" /\ activity'[r] = a
             /\ Tells(r, "spawned") /\ r \in Session
             /\ IF a = "idle" THEN watcher'.step = "check"
                ELSE /\ watcher'.step = "initial" /\ watcher'.target = r
                     /\ watcher'.read = watcher.read
    <3>1. pending'[WatcherTask] = EventOf(r, "spawned")
      BY <1>0, <2>2, TellsFacts
    <3>2. a = "idle" => Mirrors("spawned", r)'
      BY <2>2 DEF Mirrors
    <3>3. watcher'.step = "initial" => watcher'.target = r /\ activity'[r] = watcher'.read[r].activity
      BY <2>0, <2>2
    <3> QED
      BY <2>2, <3>1, <3>2, <3>3, EventFacts DEF WatcherTells
  <2>3. CASE /\ owner[r] # "none" /\ watcher'.step = "tool" /\ r \in Session
             /\ activity'[r] = IF activity[r] \in Alive THEN a ELSE activity[r]
             /\ Tells(r, a)
    <3>1. pending'[WatcherTask] = EventOf(r, a)
      BY <1>0, <2>3, TellsFacts
    <3>2. r \in External => activity'[r] = a
      BY <1>0, <2>3 DEF OwnersAgree
    <3>3. r \in External => Mirrors(a, r)'
      BY <3>2 DEF Mirrors, Shows
    <3> QED
      BY <2>3, <3>1, <3>3, EventFacts DEF WatcherTells
  <2>4. CASE /\ watcher'.step = "check" /\ r \in Session /\ Ready(WatcherTask)
             /\ ChangeTool(r, watcher.read[r].tool)
    <3>1. CASE Tells(r, "toolRunning")
      BY <1>3, <2>4, <3>1
    <3>2. CASE UNCHANGED <<pending, overstated>>
      BY <2>1, <2>4, <3>2 DEF WatcherTells
    <3> QED
      BY <1>0, <2>4, <3>1, <3>2, ToolFacts
  <2> QED
    BY <1>4, <2>0, <2>2, <2>3, <2>4, ImportFacts
<1>5. CASE ImportTool
  <2>1. CASE Tells(watcher.target, "toolRunning")
    BY <1>3, <1>5, <2>1, ImportToolFacts
  <2>2. CASE UNCHANGED <<pending, overstated>>
    BY <1>0, <1>5, <2>2, ImportToolFacts, EventFacts DEF WatcherTells, Ready
  <2> QED
    BY <1>5, <2>1, <2>2, ImportToolFacts
<1>6. CASE ImportInitialActivity
  BY <1>0, <1>6, InitialFacts, EventFacts DEF WatcherTells, Ready, Mirrors, Shows
<1>7. CASE RemoveExternal
  BY <1>0, <1>7, RemoveFacts, EventFacts DEF WatcherTells, Ready
<1> QED
  BY <1>0, <1>1, <1>2, <1>4, <1>5, <1>6, <1>7, BusSplit DEF WatcherStepTaken, LookOn

(* A session that nothing will be said of has not just changed.            *)
LEMMA StillSession ==
  ASSUME TaskInv, BusStep, NEW s \in External, owner'[s] # "none", ~ Busy(s)'
  PROVE  /\ owner[s] # "none" /\ ~ Busy(s) /\ activity'[s] = activity[s]
         /\ s \in overstated' <=> s \in overstated
<1>0. TasksTypeOK /\ s \in Session /\ WatcherTask \in Task
  BY TaskFacts DEF TaskInv, Session
<1>1. CASE /\ \A r \in External : owner'[r] = owner[r] /\ activity'[r] = activity[r]
           /\ pending'[WatcherTask] = pending[WatcherTask] /\ watcher' = watcher
           /\ overstated' = overstated
  BY <1>1 DEF Busy
<1>2. CASE LookOn
  BY <1>0, <1>2, LooksOn DEF Busy
<1>3. ASSUME NEW r \in Session, NEW k, Tells(r, k)
      PROVE  r # s /\ (s \in overstated' <=> s \in overstated)
  BY <1>0, <1>3, TellsFacts, EventFacts DEF Busy
<1>4. CASE Import
  <2> DEFINE r == watcher.target
  <2>1. ~ Busy(s) /\ r \in Session /\ Others(r)
    BY <1>0, <1>4, ImportFacts, EventFacts DEF Busy, Ready
  <2>2. CASE \E k : Tells(r, k)
    BY <1>0, <1>3, <2>1, <2>2 DEF Others
  <2>3. CASE ChangeTool(r, watcher.read[r].tool)
    <3>1. UNCHANGED <<owner, activity>> /\ (UNCHANGED <<pending, overstated>> \/ \E k : Tells(r, k))
      BY <1>0, <2>1, <2>3, ToolFacts
    <3> QED
      BY <2>1, <2>2, <3>1
  <2> QED
    BY <1>4, <2>2, <2>3, ImportFacts
<1>5. CASE ImportTool
  <2>1. ~ Busy(s) /\ UNCHANGED <<owner, activity>>
    BY <1>0, <1>5, ImportToolFacts, EventFacts DEF Busy, Ready
  <2> QED
    BY <1>3, <1>5, <2>1, ImportToolFacts
<1>6. CASE ImportInitialActivity
  BY <1>0, <1>6, InitialFacts, EventFacts DEF Busy, Ready
<1>7. CASE RemoveExternal
  BY <1>0, <1>7, RemoveFacts, EventFacts DEF Busy, Ready, Others
<1> QED
  BY <1>0, <1>1, <1>2, <1>4, <1>5, <1>6, <1>7, BusSplit DEF WatcherStepTaken, LookOn

(* A step of a task keeps what the queues will show of an external        *)
(* session.                                                               *)
LEMMA MirrorsBus == BusInv /\ MirrorInv /\ BusStep => QueueMirrors'
<1> SUFFICES ASSUME BusInv, MirrorInv, BusStep, NEW c \in Client, NEW s \in External,
                    owner'[s] # "none", ~ Busy(s)', sub'[c] # "out"
             PROVE  /\ \A i \in 1 .. Len(queue'[c]) : LastAbout(c, i, s)' => Mirrors(queue[c][i].kind, s)'
                    /\ sub'[c] = "in" /\ c \notin lagged' /\ NoneAbout(c, s)' =>
                         Shows(view[c][s], s)'
  BY DEF QueueMirrors
<1>1. queue' = queue /\ sub' = sub /\ lagged' = lagged /\ view' = view
  BY BusStepClients DEF clientVars
<1>2. /\ owner[s] # "none" /\ ~ Busy(s) /\ activity'[s] = activity[s]
      /\ s \in overstated' <=> s \in overstated
  BY BusInvParts, StillSession
<1>3. /\ \A i \in 1 .. Len(queue[c]) : LastAbout(c, i, s)' <=> LastAbout(c, i, s)
      /\ NoneAbout(c, s)' <=> NoneAbout(c, s)
  BY <1>1 DEF LastAbout, NoneAbout
<1> QED
  BY <1>1, <1>2, <1>3 DEF MirrorInv, QueueMirrors, Mirrors, Shows

(* So does an event that is sent.                                         *)
LEMMA MirrorsEmit ==
  ASSUME BusInv, MirrorInv, NEW t \in Task, Emit(t)
  PROVE  MirrorInv'
<1> SUFFICES QueueMirrors'
  <2>1. /\ pending'[WatcherTask] \in {pending[WatcherTask], NoEvent}
        /\ UNCHANGED <<owner, activity, watcher, overstated>>
    BY TypeParts, TaskFacts DEF BusInv, TasksTypeOK, Emit, busVars, history
  <2>2. WatcherTells'
    BY <2>1, EventFacts DEF MirrorInv, WatcherTells, Mirrors, Shows, Session
  <2> QED
    BY <2>2 DEF MirrorInv
<1> SUFFICES ASSUME NEW c \in Client, NEW s \in External,
                    owner[s] # "none", ~ Busy(s)', sub[c] # "out"
             PROVE  /\ \A i \in 1 .. Len(queue'[c]) : LastAbout(c, i, s)' => Mirrors(queue'[c][i].kind, s)
                    /\ sub[c] = "in" /\ c \notin lagged' /\ NoneAbout(c, s)' =>
                         Shows(view[c][s], s)
  BY DEF QueueMirrors, Mirrors, Shows, Emit, busVars, history
<1> DEFINE e == pending[t]
           q == queue[c]
<1>1. /\ e \in Event /\ q \in Seq(Event) /\ Len(q) <= Capacity /\ Len(q) \in Nat
      /\ Capacity \in Nat /\ s \in Session
  BY TypeParts, LenProperties, CapacityAssumption DEF BusInv, TasksTypeOK, ClientsTypeOK, Emit, Ready, Session
<1>2. queue'[c] = Push(c, e)
  BY ReceiverFacts DEF Emit
<1>3. /\ Len(queue'[c]) \in 1 .. Capacity
      /\ queue'[c][Len(queue'[c])] = e
  BY <1>1, <1>2, PushProperties
<1>4. CASE e.id = s
  <2>1. t = WatcherTask
    BY <1>4, ExternalEvents DEF BusInv
  <2>2. Mirrors(e.kind, s)
    BY <1>4, <2>1 DEF MirrorInv, WatcherTells, Mirrors, Busy, Emit
  <2>3. ASSUME NEW i \in 1 .. Len(queue'[c]), LastAbout(c, i, s)' PROVE Mirrors(queue'[c][i].kind, s)
    <3>1. \A j \in i + 1 .. Len(queue'[c]) : queue'[c][j].id # s
      BY <2>3 DEF LastAbout
    <3>2. i = Len(queue'[c])
      BY <1>3, <1>4, <3>1
    <3> QED
      BY <1>3, <2>2, <3>2
  <2>4. ~ NoneAbout(c, s)'
    BY <1>3, <1>4 DEF NoneAbout
  <2> QED
    BY <2>3, <2>4
<1>5. CASE e.id # s
  <2>1. ~ Busy(s)
    BY <1>5, TypeParts, TaskFacts DEF BusInv, TasksTypeOK, Emit, Busy
  <2>2. PICK d \in {0, 1} :
          /\ Len(q) < Capacity => d = 0
          /\ Len(queue'[c]) = Len(q) + 1 - d
          /\ \A i \in 1 .. Len(queue'[c]) - 1 : queue'[c][i] = q[i + d]
    <3>1. queue[c] \in Seq(Event) /\ e \in Event /\ Len(queue[c]) <= Capacity
      BY <1>1
    <3> HIDE DEF e
    <3> QED
      BY <1>2, <3>1, PushShifts
  <2>3. ASSUME NEW i \in 1 .. Len(queue'[c]), LastAbout(c, i, s)' PROVE Mirrors(queue'[c][i].kind, s)
    <3>1. /\ queue'[c][i].id = s
          /\ \A j \in i + 1 .. Len(queue'[c]) : queue'[c][j].id # s
      BY <2>3 DEF LastAbout
    <3>2. i # Len(queue'[c])
      BY <1>3, <1>5, <3>1
    <3>3. i + d \in 1 .. Len(q) /\ queue'[c][i] = q[i + d]
      BY <1>1, <2>2, <3>2
    <3>4. ASSUME NEW j \in i + d + 1 .. Len(q) PROVE q[j].id # s
      <4>1. j - d \in i + 1 .. Len(queue'[c]) /\ j - d \in 1 .. Len(queue'[c]) - 1 /\ (j - d) + d = j
        BY <1>1, <2>2
      <4> QED
        BY <2>2, <3>1, <4>1
    <3>5. LastAbout(c, i + d, s)
      BY <3>1, <3>3, <3>4 DEF LastAbout
    <3> QED
      BY <2>1, <3>3, <3>5 DEF MirrorInv, QueueMirrors, Mirrors
  <2>4. ASSUME sub[c] = "in", c \notin lagged', NoneAbout(c, s)'
        PROVE  Shows(view[c][s], s)
    <3>1. c \notin lagged /\ Len(q) # Capacity
      BY <2>4, ReceiverFacts DEF Emit
    <3>2. d = 0
      BY <1>1, <2>2, <3>1
    <3>3. \A i \in 1 .. Len(q) : q[i] = queue'[c][i] /\ i \in 1 .. Len(queue'[c])
      BY <1>1, <2>2, <3>2
    <3>4. NoneAbout(c, s)
      BY <2>4, <3>3 DEF NoneAbout
    <3> QED
      BY <2>1, <2>4, <3>1, <3>4 DEF MirrorInv, QueueMirrors
  <2> QED
    BY <2>3, <2>4
<1> QED
  BY <1>4, <1>5

(* An activity is shown on arrival because the birth has come before it.   *)
LEMMA MirrorsForward ==
  ASSUME BusInv, MirrorInv, NEW c \in Client, Forward(c), NEW s \in External,
         owner[s] # "none", ~ Busy(s)
  PROVE  /\ \A i \in 1 .. Len(queue'[c]) : LastAbout(c, i, s)' => Mirrors(queue'[c][i].kind, s)
         /\ NoneAbout(c, s)' => Shows(view'[c][s], s)
<1>0. s \in Session /\ sub[c] = "in" /\ c \notin lagged
  BY DEF Session, Forward
<1>1. PICK e \in Event :
        /\ Len(queue[c]) \in Nat \ {0} /\ e = queue[c][1]
        /\ Len(queue'[c]) = Len(queue[c]) - 1
        /\ \A i \in 1 .. Len(queue'[c]) : queue'[c][i] = queue[c][i + 1]
        /\ \A r \in Session :
             view'[c][r] = IF r = e.id THEN Shown(view[c][r], e.kind) ELSE view[c][r]
  BY HeadGone, TypeParts DEF BusInv
<1>2. ASSUME NEW i \in 1 .. Len(queue'[c]), LastAbout(c, i, s)' PROVE Mirrors(queue'[c][i].kind, s)
  <2>1. i + 1 \in 1 .. Len(queue[c]) /\ queue'[c][i] = queue[c][i + 1]
    BY <1>1
  <2>2. ASSUME NEW j \in i + 2 .. Len(queue[c]) PROVE queue[c][j].id # s
    <3>1. j - 1 \in i + 1 .. Len(queue'[c]) /\ j - 1 \in 1 .. Len(queue'[c]) /\ (j - 1) + 1 = j
      BY <1>1
    <3>2. queue'[c][j - 1] = queue[c][j] /\ queue'[c][j - 1].id # s
      BY <1>1, <1>2, <3>1 DEF LastAbout
    <3> QED
      BY <3>2
  <2>3. LastAbout(c, i + 1, s)
    BY <1>2, <2>1, <2>2 DEF LastAbout
  <2> QED
    BY <1>0, <2>1, <2>3 DEF MirrorInv, QueueMirrors, Mirrors
<1>3. ASSUME NoneAbout(c, s)' PROVE Shows(view'[c][s], s)
  <2>1. \A j \in 2 .. Len(queue[c]) : queue[c][j].id # s
    <3>1. SUFFICES ASSUME NEW j \in 2 .. Len(queue[c]) PROVE queue[c][j].id # s
      OBVIOUS
    <3>2. j - 1 \in 1 .. Len(queue'[c]) /\ (j - 1) + 1 = j
      BY <1>1
    <3> QED
      BY <1>1, <1>3, <3>2 DEF NoneAbout
  <2>2. CASE e.id = s
    <3>1. LastAbout(c, 1, s)
      BY <1>1, <2>1, <2>2 DEF LastAbout
    <3>2. Mirrors(e.kind, s)
      BY <1>0, <1>1, <3>1 DEF MirrorInv, QueueMirrors, Mirrors
    <3>3. view'[c][s] = Shown(view[c][s], e.kind)
      BY <1>0, <1>1, <2>2
    <3>4. activity[s] \in Alive /\ s \notin outrun
      BY DEF BusInv, OwnersAgree
    <3>5. CASE e.kind = "spawned"
      <4>1. activity[s] = "idle" /\ view'[c][s] = "idle"
        BY <3>2, <3>3, <3>4, <3>5 DEF Shown, Mirrors, Shows, Alive
      <4> QED
        BY <4>1 DEF Shows
    <3>6. CASE e.kind # "spawned"
      <4>1. Shows(e.kind, s) /\ e.kind \in Alive
        BY <3>2, <3>4, <3>6 DEF Mirrors, Shows, Alive
      <4>2. \A i \in 1 .. Len(queue[c]) : ~ Turns(queue[c][i], s)
        BY <1>1, <2>1, <4>1 DEF Turns, Alive
      <4>3. ~ Announcing(s, Truth(s))
        <5>1. \A t \in Task : pending[t].id # s
          BY ExternalEvents DEF BusInv, Busy
        <5> QED
          BY <5>1, EventFacts DEF Announcing
      <4>4. Told(c, s) /\ NoTurn(c, s)
        BY <1>0, <3>4, <4>2, <4>3 DEF Told, NoTurn
      <4>5. view[c][s] \in Alive
        BY <1>0, <3>4, <4>4 DEF BusInv, QueueTells
      <4>6. view'[c][s] = e.kind
        BY <3>3, <4>1, <4>5 DEF Shown, Alive
      <4> QED
        BY <4>1, <4>6
    <3> QED
      BY <3>5, <3>6
  <2>3. CASE e.id # s
    <3>1. NoneAbout(c, s)
      BY <1>1, <2>1, <2>3 DEF NoneAbout
    <3> QED
      BY <1>0, <1>1, <2>3, <3>1 DEF MirrorInv, QueueMirrors
  <2> QED
    BY <2>2, <2>3
<1> QED
  BY <1>2, <1>3

(* So does a step of a client.                                            *)
LEMMA MirrorsClient == BusInv /\ MirrorInv /\ ClientStep => MirrorInv'
<1> SUFFICES ASSUME BusInv, MirrorInv, ClientStep PROVE QueueMirrors'
  BY ClientStepTasks DEF MirrorInv, WatcherTells, Mirrors, Shows, busVars, history
<1> SUFFICES ASSUME NEW d \in Client, NEW s \in External,
                    owner[s] # "none", ~ Busy(s), sub'[d] # "out"
             PROVE  /\ \A i \in 1 .. Len(queue'[d]) :
                         LastAbout(d, i, s)' => Mirrors(queue'[d][i].kind, s)
                    /\ sub'[d] = "in" /\ d \notin lagged' /\ NoneAbout(d, s)' =>
                         Shows(view'[d][s], s)
  BY ClientStepTasks DEF QueueMirrors, Mirrors, Shows, Busy, busVars, history
<1>2. ClientsTypeOK /\ TasksTypeOK /\ ClientsAgree /\ s \in Session
  BY TypeParts DEF BusInv, Session
<1>3. PICK c \in Client : Register(c) \/ Sync(c) \/ Forward(c) \/ Resync(c) \/ Disconnect(c)
  BY DEF ClientStep
<1>4. CASE d # c
  <2>1. /\ queue'[d] = queue[d] /\ view'[d] = view[d] /\ sub'[d] = sub[d]
        /\ d \in lagged' <=> d \in lagged
    BY <1>2, <1>3, <1>4 DEF Register, Sync, Forward, Resync, Disconnect, ClientsTypeOK
  <2>2. /\ \A i \in 1 .. Len(queue[d]) : LastAbout(d, i, s)' <=> LastAbout(d, i, s)
        /\ NoneAbout(d, s)' <=> NoneAbout(d, s)
    BY <2>1 DEF LastAbout, NoneAbout
  <2> QED
    BY <2>1, <2>2 DEF MirrorInv, QueueMirrors, Mirrors
<1>5. CASE d = c /\ Register(c)
  <2>1. queue'[d] = <<>> /\ sub'[d] = "registered"
    BY <1>2, <1>5 DEF Register, ClientsAgree, ClientsTypeOK
  <2> QED
    BY <2>1, EmptySeq
<1>6. CASE d = c /\ (Sync(c) \/ Resync(c))
  <2>1. queue' = queue /\ sub[d] # "out" /\ view'[d] = Snapshots(view[d])
    BY <1>2, <1>6 DEF Sync, Resync, ClientsTypeOK
  <2>2. \A i \in 1 .. Len(queue[d]) : LastAbout(d, i, s)' <=> LastAbout(d, i, s)
    BY <2>1 DEF LastAbout
  <2>3. view'[d][s] = activity[s]
    BY <1>2, <2>1 DEF Snapshots
  <2> QED
    BY <2>1, <2>2, <2>3 DEF MirrorInv, QueueMirrors, Shows
<1>7. CASE d = c /\ Forward(c)
  BY <1>7, MirrorsForward
<1>8. CASE d = c /\ Disconnect(c)
  BY <1>2, <1>8 DEF Disconnect, ClientsTypeOK
<1> QED
  BY <1>3, <1>4, <1>5, <1>6, <1>7, <1>8

(* It holds when the daemon starts.                                       *)
LEMMA MirrorInit == Init => MirrorInv
BY EventFacts DEF Init, MirrorInv, WatcherTells, QueueMirrors, Session

(* Every step keeps it.                                                   *)
LEMMA MirrorSteps == BusInv /\ MirrorInv /\ [Next]_vars => MirrorInv'
<1> SUFFICES ASSUME BusInv, MirrorInv, [Next]_vars PROVE MirrorInv'
  OBVIOUS
<1>1. CASE BusStep
  <2>1. WatcherTells'
    BY <1>1, BusInvParts, TellsSteps DEF MirrorInv
  <2> QED
    BY <1>1, <2>1, MirrorsBus DEF MirrorInv
<1>2. CASE ClientStep
  BY <1>2, MirrorsClient
<1>3. ASSUME NEW t \in Task, Emit(t) PROVE MirrorInv'
  BY <1>3, MirrorsEmit
<1>4. CASE UNCHANGED vars
  BY <1>4 DEF vars, busVars, clientVars, history, MirrorInv, WatcherTells, QueueMirrors,
              Mirrors, Shows, Busy, LastAbout, NoneAbout
<1> QED
  BY <1>1, <1>2, <1>3, <1>4, NextParts

(* Once nothing is on its way, every subscriber shows of a session that    *)
(* the watcher alone reports the activity of its state file, lagged or     *)
(* not, or a tool that the file named since: a resync takes the activity   *)
(* from the bus, and what is still in the queue ends with the last event.  *)
THEOREM ExternalSessionsMirrored == Spec => []ExternalIsMirrored
<1>1. BusInv /\ MirrorInv => ExternalIsMirrored
  <2> SUFFICES ASSUME BusInv, MirrorInv, Quiet, NEW c \in Client, NEW s \in External,
                      sub[c] = "in", owner[s] # "none"
               PROVE  Shows(view[c][s], s)
    BY DEF ExternalIsMirrored, Shows
  <2>1. ~ Busy(s)
    BY TaskFacts, EventFacts DEF Quiet, Ready, Busy, Session
  <2>2. c \notin lagged /\ NoneAbout(c, s)
    BY EmptySeq DEF Quiet, NoneAbout
  <2> QED
    BY <2>1, <2>2 DEF MirrorInv, QueueMirrors
<1>2. Init => BusInv /\ MirrorInv
  BY BusInvInit, MirrorInit
<1>3. BusInv /\ MirrorInv /\ [Next]_vars => BusInv' /\ MirrorInv'
  BY BusInvSteps, MirrorSteps
<1> QED
  BY <1>1, <1>2, <1>3, PTL DEF Spec
-----------------------------------------------------------------------------
(* A step that publishes no session the watcher has checked and is about   *)
(* to import or to remove.                                                 *)
PublishesNoTarget ==
  \A s \in Daemon : Publish(s) =>
    ~(watcher.step \in {"import", "remove"} /\ watcher.target = s)

(* entry.rs is right that the watcher skips the sessions the daemon owns,  *)
(* unless session_spawned comes between its check and its import: no other *)
(* step makes a session the daemon's.                                      *)
THEOREM OwnedAreSkipped ==
  Spec /\ [][PublishesNoTarget]_vars => []WatcherSkipsOwned
<1>1. Init => WatcherSkipsOwned
  BY DEF Init, WatcherSkipsOwned
<1>2. ASSUME TasksTypeOK, WatcherKeeps, WatcherSkipsOwned, [Next]_vars, [PublishesNoTarget]_vars
      PROVE  WatcherSkipsOwned'
  <2> USE <1>2 DEF TasksTypeOK, WatcherSkipsOwned
  <2>1. ASSUME NEW s \in Daemon, Publish(s) PROVE WatcherSkipsOwned'
    <3>1. watcher.step \in {"import", "remove"} => watcher.target # s
      BY <2>1 DEF PublishesNoTarget, vars, Publish, sessionVars
    <3> QED
      BY <2>1, <3>1 DEF Publish, InsertState, WatcherKeeps
  <2>2. ASSUME NEW s \in Daemon, ForgetSession(s) PROVE WatcherSkipsOwned'
    BY <2>2 DEF ForgetSession, RemoveState, InsertState, WatcherKeeps
  <2>3. ASSUME NEW s \in Session, CheckOwner(s) PROVE WatcherSkipsOwned'
    BY <2>3 DEF CheckOwner, busVars
  <2>4. ASSUME NEW s \in Session, CheckGone(s) PROVE WatcherSkipsOwned'
    BY <2>4 DEF CheckGone, busVars
  <2>5. ASSUME Import \/ ImportTool \/ ImportInitialActivity \/ RemoveExternal \/ Poll \/ BeginSweep
               \/ EndSweep
        PROVE  WatcherSkipsOwned'
    <3>1. watcher'.step \notin {"import", "remove"}
      BY <2>5 DEF Import, ImportTool, ImportInitialActivity, Imported, RemoveExternal, Poll,
                  BeginSweep, EndSweep
    <3> QED
      BY <3>1
  <2>6. ASSUME UNCHANGED <<owner, watcher>> PROVE WatcherSkipsOwned'
    BY <2>6
  <2>7. ASSUME NEW s \in Daemon, StartSession(s) \/ RelayNotification(s) \/ EndSession(s)
        PROVE  UNCHANGED <<owner, watcher>>
    BY <2>7 DEF StartSession, RelayNotification, EndSession, StatusChanged, ToolStarted,
       ToolCompleted, CommandStarted, SetActivity, busVars
  <2>8. ASSUME NEW s \in Session, WriteFile(s) PROVE UNCHANGED <<owner, watcher>>
    BY <2>8 DEF WriteFile, busVars
  <2>9. ASSUME ClientStep \/ UNCHANGED vars PROVE UNCHANGED <<owner, watcher>>
    BY <2>9, ClientStepTasks DEF busVars, vars
  <2>10. ASSUME NEW t \in Task, Emit(t) PROVE UNCHANGED <<owner, watcher>>
    BY <2>10 DEF Emit, busVars
  <2> QED
    BY <2>1, <2>2, <2>3, <2>4, <2>5, <2>6, <2>7, <2>8, <2>9, <2>10, NextParts
       DEF BusStep, WatcherStepTaken
<1>3. BusInv => TasksTypeOK /\ WatcherKeeps
  BY BusInvParts DEF TaskInv
<1> QED
  BY <1>1, <1>2, <1>3, BusInvAlways, PTL DEF Spec
=============================================================================
