-------------------------- MODULE SessionRegistry --------------------------
(***************************************************************************)
(* The life of the daemon's PTY sessions (daemon/session.rs): spawn and    *)
(* kill requests, each run by the task of one socket connection or one     *)
(* D-Bus call, against the per-session broadcaster task that notices the   *)
(* end of the child, the fire-and-forget tasks that edit the sidecar file, *)
(* and the semantic event bus (semantic_state.rs).                         *)
(*                                                                         *)
(* Every request runs in steps: what one lock acquisition covers is one    *)
(* action, and other tasks run between two of them.  Steps that touch only *)
(* what no other task can see yet are merged with the step after them.     *)
(***************************************************************************)
EXTENDS Naturals, FiniteSets

CONSTANTS
  Client,         \* tasks that run requests: socket connections, D-Bus calls
  MaxId,          \* bound: how many session ids are handed out
  WorktreeMade    \* whether a spawn may make a worktree: a subset of BOOLEAN

ASSUME MaxIdAssumption == MaxId \in Nat
ASSUME WorktreeMadeAssumption == WorktreeMade \subseteq BOOLEAN

Id == 1 .. MaxId
NoId == 0

VARIABLES
  nextId,         \* Daemon.next_id
  registry,       \* keys of Daemon.sessions
  child,          \* the PTY child of each session
  hungUp,         \* children that were sent SIGHUP
  name,           \* display name: the dedup suffix, 1 for the bare base name
  worktree,       \* sessions whose worktree directory is on disk
  broadcaster,    \* the update broadcaster task of each session
  bus,            \* SemanticEventBus.states, for daemon sessions
  announced,      \* sessions whose SessionExited was emitted on the bus
  sidecar,        \* session ids in sessions.json
  sidecarTasks,   \* spawned tasks that still have to edit sessions.json
  pc,             \* where the request of each client is
  cur,            \* the session that request works on
  tooSoon         \* history: sessions cleaned up ahead of the spawn's own steps

vars == <<nextId, registry, child, hungUp, name, worktree, broadcaster, bus,
          announced, sidecar, sidecarTasks, pc, cur, tooSoon>>

SidecarTask == [op : {"add"}, id : Id, by : {"spawn"}]
               \cup [op : {"remove"}, id : Id, by : {"kill", "exit"}]

AddTask(s) == [op |-> "add", id |-> s, by |-> "spawn"]
RemoveTask(s, path) == [op |-> "remove", id |-> s, by |-> path]

SpawnStep == {"name", "insert", "publish"}
KillStep == {"announceKill", "forgetKill"}
BroadcasterStep == {"off", "loop", "announce", "forget", "unregister",
                    "cleanup", "done"}

TypeOK ==
  /\ nextId \in 1 .. (MaxId + 1)
  /\ registry \subseteq Id
  /\ child \in [Id -> {"none", "running", "exited"}]
  /\ hungUp \subseteq Id
  /\ name \in [Id -> Nat]
  /\ worktree \subseteq Id
  /\ broadcaster \in [Id -> BroadcasterStep]
  /\ bus \in [Id -> {"absent", "alive", "exited"}]
  /\ announced \subseteq Id
  /\ sidecar \subseteq Id
  /\ sidecarTasks \subseteq SidecarTask
  /\ pc \in [Client -> {"idle"} \cup SpawnStep \cup KillStep]
  /\ cur \in [Client -> Id \cup {NoId}]
  /\ tooSoon \subseteq Id

Init ==
  /\ nextId = 1
  /\ registry = {}
  /\ child = [s \in Id |-> "none"]
  /\ hungUp = {}
  /\ name = [s \in Id |-> 0]
  /\ worktree = {}
  /\ broadcaster = [s \in Id |-> "off"]
  /\ bus = [s \in Id |-> "absent"]
  /\ announced = {}
  /\ sidecar = {}
  /\ sidecarTasks = {}
  /\ pc = [c \in Client |-> "idle"]
  /\ cur = [c \in Client |-> NoId]
  /\ tooSoon = {}

-----------------------------------------------------------------------------
(* KillSession keeps the sessions mutex from its first step to its last;   *)
(* every other user of the map holds it within one step.                   *)
LockFree == \A c \in Client : pc[c] \notin KillStep

(* Fault: the names of sessions.json are consulted, which lag the map.     *)
TakenNamesOfSidecar == {name[s] : s \in sidecar}

(* The names in use.                                                       *)
TakenNames == {name[s] : s \in registry}

(* next_unique_name: the base name, or the first free numbered one.  All   *)
(* sessions share one base here, the case in which names can collide.      *)
IsFreshName(n) == n \notin TakenNames /\ \A m \in 1 .. (n - 1) : m \in TakenNames

(* remove_worktree: `git worktree remove`, which needs the daemon's own     *)
(* directory to lie in the repository, or else the directory is deleted.   *)
(* What git then still has registered is not part of this state.           *)
RemoveWorktree(s) == worktree' = worktree \ {s}

(* Fault: the id counter is read again after fetch_add.                    *)
MakeWorktreeOfNextId(s) ==
  \E made \in WorktreeMade :
    worktree' = IF made THEN worktree \cup {s + 1} ELSE worktree

(* create_worktree: not asked for, refused by git, or made.                *)
MakeWorktree(s) ==
  \E made \in WorktreeMade : worktree' = IF made THEN worktree \cup {s} ELSE worktree

(* A spawn that has not published its session yet.                         *)
Spawning(s) == \E c \in Client : cur[c] = s /\ pc[c] \in SpawnStep

MarkTooSoon(s) == tooSoon' = IF Spawning(s) THEN tooSoon \cup {s} ELSE tooSoon

-----------------------------------------------------------------------------
(* Fault: ids are numbered by the size of the map instead of a counter.    *)
SpawnChildByCount(c) ==
  LET s == Cardinality(registry) + 1 IN
  /\ pc[c] = "idle"
  /\ nextId <= MaxId /\ s <= MaxId
  /\ nextId' = nextId + 1
  /\ child' = [child EXCEPT ![s] = "running"]
  /\ MakeWorktree(s)
  /\ pc' = [pc EXCEPT ![c] = "name"]
  /\ cur' = [cur EXCEPT ![c] = s]
  /\ UNCHANGED <<registry, hungUp, name, broadcaster, bus, announced, sidecar,
                 sidecarTasks, tooSoon>>

(* SpawnSession, up to the display name: the id is taken, the worktree is  *)
(* made when asked for and possible, and the child starts in its PTY.      *)
SpawnChild(c) ==
  /\ pc[c] = "idle"
  /\ nextId <= MaxId
  /\ nextId' = nextId + 1
  /\ child' = [child EXCEPT ![nextId] = "running"]
  /\ MakeWorktree(nextId)
  /\ pc' = [pc EXCEPT ![c] = "name"]
  /\ cur' = [cur EXCEPT ![c] = nextId]
  /\ UNCHANGED <<registry, hungUp, name, broadcaster, bus, announced, sidecar,
                 sidecarTasks, tooSoon>>

(* The spawn fails after the worktree was made: either the PTY does not    *)
(* start, or the wakeup pipe fails and the PtySession just made is dropped,*)
(* which hangs up its child.  The error reply leaves the worktree behind.  *)
SpawnFails(c) ==
  /\ pc[c] = "idle"
  /\ nextId <= MaxId
  /\ nextId' = nextId + 1
  /\ MakeWorktree(nextId)
  /\ \/ UNCHANGED <<child, hungUp>>
     \/ /\ child' = [child EXCEPT ![nextId] = "running"]
        /\ hungUp' = hungUp \cup {nextId}
  /\ UNCHANGED <<registry, name, broadcaster, bus, announced, sidecar,
                 sidecarTasks, pc, cur, tooSoon>>

(* The names in use are collected under the lock, which is then released.  *)
NameSession(c) ==
  /\ pc[c] = "name"
  /\ LockFree
  /\ \E n \in 1 .. (MaxId + 1) :
       IsFreshName(n) /\ name' = [name EXCEPT ![cur[c]] = n]
  /\ pc' = [pc EXCEPT ![c] = "insert"]
  /\ UNCHANGED <<nextId, registry, child, hungUp, worktree, broadcaster, bus,
                 announced, sidecar, sidecarTasks, cur, tooSoon>>

(* The session enters the map; its tasks start, the sidecar task included. *)
InsertSession(c) ==
  /\ pc[c] = "insert"
  /\ LockFree
  /\ registry' = registry \cup {cur[c]}
  /\ broadcaster' = [broadcaster EXCEPT ![cur[c]] = "loop"]
  /\ sidecarTasks' = sidecarTasks \cup {AddTask(cur[c])}
  /\ pc' = [pc EXCEPT ![c] = "publish"]
  /\ UNCHANGED <<nextId, child, hungUp, name, worktree, bus, announced,
                 sidecar, cur, tooSoon>>

(* session_spawned, the last step of the spawn, and the reply.             *)
PublishSession(c) ==
  /\ pc[c] = "publish"
  /\ bus' = [bus EXCEPT ![cur[c]] = "alive"]
  /\ pc' = [pc EXCEPT ![c] = "idle"]
  /\ cur' = [cur EXCEPT ![c] = NoId]
  /\ UNCHANGED <<nextId, registry, child, hungUp, name, worktree, broadcaster,
                 announced, sidecar, sidecarTasks, tooSoon>>

-----------------------------------------------------------------------------
(* KillSession: take the session out of the map, remove its worktree and   *)
(* queue the sidecar edit, with the map locked until the reply.            *)
KillSession(c, s) ==
  /\ pc[c] = "idle"
  /\ LockFree
  /\ s \in registry
  /\ registry' = registry \ {s}
  /\ RemoveWorktree(s)
  /\ sidecarTasks' = sidecarTasks \cup {RemoveTask(s, "kill")}
  /\ pc' = [pc EXCEPT ![c] = "announceKill"]
  /\ cur' = [cur EXCEPT ![c] = s]
  /\ UNCHANGED <<nextId, child, hungUp, name, broadcaster, bus, announced,
                 sidecar, tooSoon>>

(* A kill of an id that is not in the map answers "Session not found".     *)
KillMissing(c, s) ==
  /\ pc[c] = "idle"
  /\ LockFree
  /\ s \notin registry
  /\ UNCHANGED vars

(* SemanticEventBus::session_exited: silent when the bus has no state.     *)
BusExited(s) ==
  IF bus[s] = "absent" THEN UNCHANGED <<bus, announced>>
  ELSE /\ bus' = [bus EXCEPT ![s] = "exited"]
       /\ announced' = announced \cup {s}

(* SemanticEventBus::session_removed.                                      *)
BusRemoved(s) == bus' = [bus EXCEPT ![s] = "absent"]

(* Fault: the bus forgets the session before it announces the exit.        *)
AnnounceKillByRemoving(c) ==
  /\ pc[c] = "announceKill"
  /\ BusRemoved(cur[c])
  /\ MarkTooSoon(cur[c])
  /\ pc' = [pc EXCEPT ![c] = "forgetKill"]
  /\ UNCHANGED <<nextId, registry, child, hungUp, name, worktree, broadcaster,
                 announced, sidecar, sidecarTasks, cur>>

(* Fault: the map is locked again while KillSession holds it.              *)
AnnounceKillRelocking(c) ==
  /\ pc[c] = "announceKill"
  /\ LockFree
  /\ BusExited(cur[c])
  /\ MarkTooSoon(cur[c])
  /\ pc' = [pc EXCEPT ![c] = "forgetKill"]
  /\ UNCHANGED <<nextId, registry, child, hungUp, name, worktree, broadcaster,
                 sidecar, sidecarTasks, cur>>

AnnounceKill(c) ==
  /\ pc[c] = "announceKill"
  /\ BusExited(cur[c])
  /\ MarkTooSoon(cur[c])
  /\ pc' = [pc EXCEPT ![c] = "forgetKill"]
  /\ UNCHANGED <<nextId, registry, child, hungUp, name, worktree, broadcaster,
                 sidecar, sidecarTasks, cur>>

(* The last step also releases the lock and replies Ok.                    *)
ForgetKill(c) ==
  /\ pc[c] = "forgetKill"
  /\ BusRemoved(cur[c])
  /\ pc' = [pc EXCEPT ![c] = "idle"]
  /\ cur' = [cur EXCEPT ![c] = NoId]
  /\ UNCHANGED <<nextId, registry, child, hungUp, name, worktree, broadcaster,
                 announced, sidecar, sidecarTasks, tooSoon>>

-----------------------------------------------------------------------------
(* The child ends; the PTY reader thread sees EOF and sets the exited flag.*)
ChildExits(s) ==
  /\ child[s] = "running"
  /\ child' = [child EXCEPT ![s] = "exited"]
  /\ UNCHANGED <<nextId, registry, hungUp, name, worktree, broadcaster, bus,
                 announced, sidecar, sidecarTasks, pc, cur, tooSoon>>

(* Fault: the loop ends at once when the child has exited.                 *)
NoticeExitAndStop(s) ==
  /\ broadcaster[s] = "loop"
  /\ child[s] = "exited"
  /\ broadcaster' = [broadcaster EXCEPT ![s] = "done"]
  /\ UNCHANGED <<nextId, registry, child, hungUp, name, worktree, bus,
                 announced, sidecar, sidecarTasks, pc, cur, tooSoon>>

(* The broadcaster's tick finds the child exited, whether or not the       *)
(* session is still in the map.                                            *)
NoticeExit(s) ==
  /\ broadcaster[s] = "loop"
  /\ child[s] = "exited"
  /\ broadcaster' = [broadcaster EXCEPT ![s] = "announce"]
  /\ UNCHANGED <<nextId, registry, child, hungUp, name, worktree, bus,
                 announced, sidecar, sidecarTasks, pc, cur, tooSoon>>

AnnounceExit(s) ==
  /\ broadcaster[s] = "announce"
  /\ BusExited(s)
  /\ MarkTooSoon(s)
  /\ broadcaster' = [broadcaster EXCEPT ![s] = "forget"]
  /\ UNCHANGED <<nextId, registry, child, hungUp, name, worktree, sidecar,
                 sidecarTasks, pc, cur>>

ForgetExit(s) ==
  /\ broadcaster[s] = "forget"
  /\ BusRemoved(s)
  /\ broadcaster' = [broadcaster EXCEPT ![s] = "unregister"]
  /\ UNCHANGED <<nextId, registry, child, hungUp, name, worktree, announced,
                 sidecar, sidecarTasks, pc, cur, tooSoon>>

UnregisterExited(s) ==
  /\ broadcaster[s] = "unregister"
  /\ LockFree
  /\ registry' = registry \ {s}
  /\ broadcaster' = [broadcaster EXCEPT ![s] = "cleanup"]
  /\ UNCHANGED <<nextId, child, hungUp, name, worktree, bus, announced,
                 sidecar, sidecarTasks, pc, cur, tooSoon>>

(* Fault: the exit path does not mirror the kill path's worktree removal.  *)
CleanUpExitedKeepingWorktree(s) ==
  /\ broadcaster[s] = "cleanup"
  /\ sidecarTasks' = sidecarTasks \cup {RemoveTask(s, "exit")}
  /\ broadcaster' = [broadcaster EXCEPT ![s] = "done"]
  /\ UNCHANGED <<nextId, registry, child, hungUp, name, worktree, bus,
                 announced, sidecar, pc, cur, tooSoon>>

CleanUpExited(s) ==
  /\ broadcaster[s] = "cleanup"
  /\ sidecarTasks' = sidecarTasks \cup {RemoveTask(s, "exit")}
  /\ RemoveWorktree(s)
  /\ broadcaster' = [broadcaster EXCEPT ![s] = "done"]
  /\ UNCHANGED <<nextId, registry, child, hungUp, name, bus, announced,
                 sidecar, pc, cur, tooSoon>>

(* Fault: a sidecar update writes back only its own entry.                 *)
RunSidecarTaskAlone(t) ==
  /\ t \in sidecarTasks
  /\ sidecarTasks' = sidecarTasks \ {t}
  /\ sidecar' = IF t.op = "add" THEN {t.id} ELSE {}
  /\ UNCHANGED <<nextId, registry, child, hungUp, name, worktree, broadcaster,
                 bus, announced, pc, cur, tooSoon>>

(* One spawned task takes the file lock of sessions.json and edits it;     *)
(* nothing orders the tasks among themselves.                              *)
RunSidecarTask(t) ==
  /\ t \in sidecarTasks
  /\ sidecarTasks' = sidecarTasks \ {t}
  /\ \/ /\ t.op = "add"
        /\ sidecar' = sidecar \cup {t.id}
        /\ UNCHANGED tooSoon
     \/ /\ t.op = "remove"
        /\ sidecar' = sidecar \ {t.id}
        /\ tooSoon' = IF AddTask(t.id) \in sidecarTasks
                      THEN tooSoon \cup {t.id} ELSE tooSoon
  /\ UNCHANGED <<nextId, registry, child, hungUp, name, worktree, broadcaster,
                 bus, announced, pc, cur>>

-----------------------------------------------------------------------------
(* The steps that finish a request, and those of the broadcaster.          *)
RequestStep(c) ==
  \/ NameSession(c)
  \/ InsertSession(c)
  \/ PublishSession(c)
  \/ AnnounceKill(c)
  \/ ForgetKill(c)

BroadcasterRuns(s) ==
  \/ NoticeExit(s)
  \/ AnnounceExit(s)
  \/ ForgetExit(s)
  \/ UnregisterExited(s)
  \/ CleanUpExited(s)

Next ==
  \/ \E c \in Client :
       \/ SpawnChild(c)
       \/ SpawnFails(c)
       \/ RequestStep(c)
       \/ \E s \in Id : KillSession(c, s) \/ KillMissing(c, s)
  \/ \E s \in Id : ChildExits(s) \/ BroadcasterRuns(s)
  \/ \E t \in SidecarTask : RunSidecarTask(t)

Spec == Init /\ [][Next]_vars

(* The daemon's tasks keep running; clients need not ask for anything and  *)
(* a child may run for ever.                                               *)
Fairness ==
  /\ \A c \in Client : WF_vars(RequestStep(c))
  /\ \A s \in Id : WF_vars(BroadcasterRuns(s))
  /\ \A t \in SidecarTask : WF_vars(RunSidecarTask(t))

FairSpec == Spec /\ Fairness
-----------------------------------------------------------------------------
(* A spawn that has not reached the map works on an id of its own, that no *)
(* session has carried before; only sessions that got a broadcaster are in *)
(* the map.  Ids stay unique however spawns, kills and exits interleave.   *)
Unborn(c) == pc[c] \in {"name", "insert"}

IdsAreFresh ==
  /\ \A s \in Id : s >= nextId => broadcaster[s] = "off"
  /\ \A c \in Client : pc[c] # "idle" => cur[c] \in Id
  /\ \A c \in Client : Unborn(c) => cur[c] < nextId /\ broadcaster[cur[c]] = "off"
  /\ \A c, d \in Client : Unborn(c) /\ Unborn(d) /\ cur[c] = cur[d] => c = d
  /\ \A s \in registry : broadcaster[s] # "off"

(* A session has ended once it left the map; it is settled when no request,*)
(* broadcaster step or sidecar task that concerns it is under way.         *)
Ended(s) == broadcaster[s] # "off" /\ s \notin registry

Settled(s) ==
  /\ \A c \in Client : cur[c] # s
  /\ broadcaster[s] \in {"off", "loop", "done"}
  /\ broadcaster[s] = "loop" => child[s] = "running"
  /\ \A t \in sidecarTasks : t.id # s

(* However a kill request and the end of the child interleave, a session   *)
(* that was published before it was cleaned up leaves nothing behind: no   *)
(* bus state, no sidecar entry and no worktree directory.                  *)
EndLeavesNothing ==
  \A s \in Id : Ended(s) /\ Settled(s) /\ s \notin tooSoon =>
    /\ bus[s] = "absent"
    /\ s \notin sidecar
    /\ s \notin worktree

(* Nor does its end go unannounced: one of the two paths emitted           *)
(* SessionExited before the other removed the bus state (both may emit it).*)
EndIsAnnounced ==
  \A s \in Id : Ended(s) /\ Settled(s) /\ s \notin tooSoon => s \in announced

(* A session that spawn has returned, and that is neither ending nor being *)
(* killed, is known alive to subscribers; once its sidecar task has run it *)
(* is also listed in sessions.json.                                        *)
LiveIsKnown ==
  \A s \in registry :
    (\A c \in Client : cur[c] # s) /\ broadcaster[s] = "loop" =>
      /\ bus[s] = "alive"
      /\ AddTask(s) \notin sidecarTasks => s \in sidecar

(* When requests come one at a time, no two sessions in the map have the   *)
(* same display name (two spawns at once may both take the same one: the   *)
(* name is chosen under the lock, but the session enters the map later).   *)
NamesUnique == \A s, t \in registry : name[s] = name[t] => s = t

(* The end of a registered child is noticed: the session leaves the map    *)
(* even when kill requests compete for the lock.                           *)
ExitIsNoticed ==
  \A s \in Id : (child[s] = "exited" /\ s \in registry) ~> (s \notin registry)

(* The clean-up of a session that left the map runs to its end.            *)
EndSettles == \A s \in Id : Ended(s) ~> (Ended(s) /\ Settled(s))

(* The session table the callers see; a session that was in the map once   *)
(* has a broadcaster.                                                      *)
TableStatus ==
  [s \in Id |-> IF s \in registry THEN "live"
                ELSE IF broadcaster[s] = "off" THEN "unused" ELSE "gone"]

Table == INSTANCE SessionTable WITH status <- TableStatus

(* Spawn, kill and exit implement the abstract table: no id is registered  *)
(* twice and no session comes back after it was killed or has exited.      *)
ImplementsTable == Table!Spec

-----------------------------------------------------------------------------
(* Claims of the comments and documents, which the code does not keep.     *)

(* protocol.rs: "Kill a session (sends SIGHUP to PTY child)".  A session   *)
(* that left the map under a broadcaster still looping was killed.         *)
KillHangsUpChild ==
  \A s \in Id : (Ended(s) /\ broadcaster[s] = "loop")
                   ~> (s \in hungUp \/ child[s] = "exited")

(* daemon/mod.rs: the bus is "the single source of truth for session       *)
(* state", so a session that has ended is not alive there.                 *)
BusForgetsEnded ==
  \A s \in Id : Ended(s) /\ Settled(s) => bus[s] # "alive"
=============================================================================
