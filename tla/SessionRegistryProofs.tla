----------------------- MODULE SessionRegistryProofs -----------------------
(***************************************************************************)
(* For every set of clients and every bound on ids: the registry is well   *)
(* typed, a spawn always works on a fresh id, spawn, kill and exit         *)
(* together implement the abstract session table, and display names stay   *)
(* distinct as long as no two spawns choose theirs at once.                *)
(***************************************************************************)
EXTENDS SessionRegistry, TLAPS

(* The inductive invariant: types alone are not inductive, because a       *)
(* request that has started must hold a real id, and the refinement needs  *)
(* the freshness of the ids that spawns hold.                              *)
IInv == TypeOK /\ IdsAreFresh

(* A daemon that has just started satisfies the invariant.                 *)
LEMMA InitInv == Init => IInv
  BY MaxIdAssumption DEF Init, IInv, TypeOK, IdsAreFresh, Unborn, Id, NoId,
     BroadcasterStep, SpawnStep, KillStep, SidecarTask

(* The tasks that requests and broadcasters queue are sidecar tasks.       *)
LEMMA QueuedTasks ==
  ASSUME NEW s \in Id
  PROVE  /\ AddTask(s) \in SidecarTask
         /\ RemoveTask(s, "kill") \in SidecarTask
         /\ RemoveTask(s, "exit") \in SidecarTask
  BY DEF AddTask, RemoveTask, SidecarTask

(* What the exit of a session changes on the bus stays well typed, whether *)
(* the bus knows the session or not.                                       *)
LEMMA BusTypes ==
  ASSUME TypeOK, NEW s \in Id
  PROVE  /\ BusExited(s) => /\ bus' \in [Id -> {"absent", "alive", "exited"}]
                            /\ announced' \subseteq Id
         /\ MarkTooSoon(s) => tooSoon' \subseteq Id
<1>1. CASE bus[s] = "absent"
  BY <1>1 DEF TypeOK, BusExited, MarkTooSoon
<1>2. CASE bus[s] # "absent"
  BY <1>2 DEF TypeOK, BusExited, MarkTooSoon
<1> QED
  BY <1>1, <1>2

(* Only three actions change the part of the state that IInv speaks of     *)
(* beyond types; one lemma per action keeps each proof small.              *)
LEMMA NextType ==
  ASSUME IInv, [Next]_vars
  PROVE  TypeOK'
<1> USE MaxIdAssumption DEF IInv, TypeOK, IdsAreFresh, Unborn, Id, NoId
<1>1. ASSUME NEW c \in Client, SpawnChild(c) PROVE TypeOK'
  BY <1>1, WorktreeMadeAssumption DEF SpawnChild, MakeWorktree, SpawnStep
<1>2. ASSUME NEW c \in Client, SpawnFails(c) PROVE TypeOK'
  <2>1. nextId \in Id /\ worktree' \subseteq Id
    BY <1>2 DEF SpawnFails, MakeWorktree
  <2>2. CASE UNCHANGED <<child, hungUp>>
    BY <1>2, <2>1, <2>2 DEF SpawnFails
  <2>3. CASE /\ child' = [child EXCEPT ![nextId] = "running"]
             /\ hungUp' = hungUp \cup {nextId}
    BY <1>2, <2>1, <2>3 DEF SpawnFails
  <2> QED
    BY <1>2, <2>2, <2>3 DEF SpawnFails
<1>3. ASSUME NEW c \in Client, NameSession(c) PROVE TypeOK'
  BY <1>3 DEF NameSession, SpawnStep
<1>4. ASSUME NEW c \in Client, InsertSession(c) PROVE TypeOK'
  <2>1. cur[c] \in Id
    BY <1>4 DEF InsertSession
  <2> QED
    BY <1>4, <2>1, QueuedTasks DEF InsertSession, SpawnStep, BroadcasterStep
<1>5. ASSUME NEW c \in Client, PublishSession(c) PROVE TypeOK'
  BY <1>5 DEF PublishSession
<1>6. ASSUME NEW c \in Client, NEW s \in Id, KillSession(c, s) PROVE TypeOK'
  BY <1>6, QueuedTasks DEF KillSession, RemoveWorktree, KillStep
<1>7. ASSUME NEW c \in Client, AnnounceKill(c) PROVE TypeOK'
  <2>1. cur[c] \in Id
    BY <1>7 DEF AnnounceKill
  <2> QED
    BY <1>7, <2>1, BusTypes DEF AnnounceKill, KillStep
<1>8. ASSUME NEW c \in Client, ForgetKill(c) PROVE TypeOK'
  BY <1>8 DEF ForgetKill, BusRemoved
<1>9. ASSUME NEW s \in Id, ChildExits(s) PROVE TypeOK'
  BY <1>9 DEF ChildExits
<1>10. ASSUME NEW s \in Id, BroadcasterRuns(s) PROVE TypeOK'
  <2>1. CASE NoticeExit(s)
    BY <2>1 DEF NoticeExit, BroadcasterStep
  <2>2. CASE AnnounceExit(s)
    BY <2>2, BusTypes DEF AnnounceExit, BroadcasterStep
  <2>3. CASE ForgetExit(s)
    BY <2>3 DEF ForgetExit, BusRemoved, BroadcasterStep
  <2>4. CASE UnregisterExited(s)
    BY <2>4 DEF UnregisterExited, BroadcasterStep
  <2>5. CASE CleanUpExited(s)
    BY <2>5, QueuedTasks DEF CleanUpExited, RemoveWorktree, BroadcasterStep
  <2> QED
    BY <1>10, <2>1, <2>2, <2>3, <2>4, <2>5 DEF BroadcasterRuns
<1>11. ASSUME NEW t \in SidecarTask, RunSidecarTask(t) PROVE TypeOK'
  <2>1. t.id \in Id
    BY DEF SidecarTask
  <2> QED
    BY <1>11, <2>1 DEF RunSidecarTask
<1>12. CASE UNCHANGED vars
  BY <1>12 DEF vars
<1> QED
  BY <1>1, <1>2, <1>3, <1>4, <1>5, <1>6, <1>7, <1>8, <1>9, <1>10, <1>11, <1>12
     DEF Next, RequestStep, KillMissing

(* Freshness is disturbed by the actions that take an id, insert a session *)
(* or finish a request; the others leave its variables alone or only move  *)
(* a broadcaster on.                                                       *)
LEMMA NextFresh ==
  ASSUME IInv, [Next]_vars
  PROVE  IdsAreFresh'
<1> USE MaxIdAssumption DEF IInv, TypeOK, IdsAreFresh, Unborn, Id, NoId
<1>1. ASSUME NEW c \in Client, SpawnChild(c) PROVE IdsAreFresh'
  BY <1>1 DEF SpawnChild
<1>2. ASSUME NEW c \in Client, SpawnFails(c) PROVE IdsAreFresh'
  BY <1>2 DEF SpawnFails
<1>3. ASSUME NEW c \in Client, NameSession(c) PROVE IdsAreFresh'
  BY <1>3 DEF NameSession
<1>4. ASSUME NEW c \in Client, InsertSession(c) PROVE IdsAreFresh'
  BY <1>4 DEF InsertSession
<1>5. ASSUME NEW c \in Client, PublishSession(c) PROVE IdsAreFresh'
  BY <1>5 DEF PublishSession
<1>6. ASSUME NEW c \in Client, NEW s \in Id, KillSession(c, s)
      PROVE  IdsAreFresh'
  BY <1>6 DEF KillSession
<1>7. ASSUME NEW c \in Client, AnnounceKill(c) PROVE IdsAreFresh'
  BY <1>7 DEF AnnounceKill
<1>8. ASSUME NEW c \in Client, ForgetKill(c) PROVE IdsAreFresh'
  BY <1>8 DEF ForgetKill
<1>9. ASSUME NEW s \in Id, BroadcasterRuns(s) PROVE IdsAreFresh'
  <2>1. /\ UNCHANGED <<nextId, pc, cur>>
        /\ registry' \subseteq registry
    BY <1>9 DEF BroadcasterRuns, NoticeExit, AnnounceExit, ForgetExit,
                UnregisterExited, CleanUpExited
  <2>2. \A u \in Id : (broadcaster'[u] = "off") <=> (broadcaster[u] = "off")
    BY <1>9 DEF BroadcasterRuns, NoticeExit, AnnounceExit, ForgetExit,
                UnregisterExited, CleanUpExited
  <2> QED
    BY <2>1, <2>2
<1>10. ASSUME \/ UNCHANGED vars
              \/ \E s \in Id : ChildExits(s)
              \/ \E t \in SidecarTask : RunSidecarTask(t)
       PROVE  IdsAreFresh'
  BY <1>10 DEF vars, ChildExits, RunSidecarTask
<1> QED
  BY <1>1, <1>2, <1>3, <1>4, <1>5, <1>6, <1>7, <1>8, <1>9, <1>10
     DEF Next, RequestStep, KillMissing

(* The invariant holds in every behaviour of the registry.                 *)
THEOREM Invariance == Spec => []IInv
<1>1. Init => IInv
  BY InitInv
<1>2. IInv /\ [Next]_vars => IInv'
  BY NextType, NextFresh DEF IInv
<1> QED
  BY <1>1, <1>2, PTL DEF Spec

(* The registry's state is well typed in every behaviour.                  *)
THEOREM TypeCorrect == Spec => []TypeOK
<1>1. IInv => TypeOK
  BY DEF IInv
<1> QED
  BY <1>1, Invariance, PTL

(* However spawns, kills and exits interleave, a spawn holds an id that no *)
(* other spawn holds and no session has carried.                           *)
THEOREM FreshIds == Spec => []IdsAreFresh
<1>1. IInv => IdsAreFresh
  BY DEF IInv
<1> QED
  BY <1>1, Invariance, PTL

-----------------------------------------------------------------------------
(* The refinement: an insertion registers, a removal retires, and every    *)
(* other step leaves the abstract status of every session alone.  At the   *)
(* start no session has been used.                                         *)
LEMMA TableInit == Init => Table!Init
  BY DEF Init, Table!Init, TableStatus

(* Entering the map is the abstract registration: the id is fresh, so the  *)
(* session was unused.                                                     *)
LEMMA TableRegisters ==
  ASSUME IInv, NEW c \in Client, InsertSession(c)
  PROVE  \E s \in Id : Table!Register(s)
<1> DEFINE s == cur[c]
<1>1. s \in Id /\ s \notin registry /\ broadcaster[s] = "off"
  BY DEF IInv, IdsAreFresh, Unborn, InsertSession
<1>2. TableStatus[s] = "unused"
  BY <1>1 DEF TableStatus
<1>3. /\ registry' = registry \cup {s}
      /\ broadcaster' = [broadcaster EXCEPT ![s] = "loop"]
      /\ broadcaster \in [Id -> BroadcasterStep]
  BY DEF InsertSession, IInv, TypeOK
<1>4. TableStatus' = [TableStatus EXCEPT ![s] = "live"]
  BY <1>1, <1>3 DEF TableStatus
<1> QED
  BY <1>1, <1>2, <1>4 DEF Table!Register

(* Leaving the map, on either path, is the abstract retirement; the path   *)
(* that comes second finds the session gone and changes nothing.           *)
LEMMA TableRetires ==
  ASSUME IInv, NEW s \in Id, registry' = registry \ {s},
         \A u \in Id : (broadcaster'[u] = "off") <=> (broadcaster[u] = "off")
  PROVE  Table!Retire(s) \/ UNCHANGED TableStatus
<1>1. CASE s \notin registry
  BY <1>1 DEF TableStatus
<1>2. CASE s \in registry
  <2>1. TableStatus[s] = "live" /\ broadcaster[s] # "off"
    BY <1>2 DEF TableStatus, IInv, IdsAreFresh
  <2>2. TableStatus' = [TableStatus EXCEPT ![s] = "gone"]
    BY <1>2, <2>1 DEF TableStatus
  <2> QED
    BY <2>1, <2>2 DEF Table!Retire
<1> QED
  BY <1>1, <1>2

(* A step that leaves the map alone is invisible in the table.             *)
LEMMA TableStutters ==
  ASSUME registry' = registry,
         \A u \in Id : (broadcaster'[u] = "off") <=> (broadcaster[u] = "off")
  PROVE  UNCHANGED TableStatus
  BY DEF TableStatus

(* Every step of the registry is a step of the table or none.              *)
LEMMA TableNext ==
  ASSUME IInv, [Next]_vars
  PROVE  [Table!Next]_TableStatus
<1>1. ASSUME NEW c \in Client, InsertSession(c) PROVE Table!Next
  BY <1>1, TableRegisters DEF Table!Next
<1>2. ASSUME NEW c \in Client, NEW s \in Id, KillSession(c, s)
      PROVE  [Table!Next]_TableStatus
  BY <1>2, TableRetires DEF KillSession, Table!Next
<1>3. ASSUME NEW s \in Id, UnregisterExited(s)
      PROVE  [Table!Next]_TableStatus
  <2>1. \A u \in Id : (broadcaster'[u] = "off") <=> (broadcaster[u] = "off")
    BY <1>3 DEF UnregisterExited, IInv, TypeOK
  <2> QED
    BY <1>3, <2>1, TableRetires DEF UnregisterExited, Table!Next
<1>4. ASSUME NEW s \in Id, \/ NoticeExit(s)
                           \/ AnnounceExit(s)
                           \/ ForgetExit(s)
                           \/ CleanUpExited(s)
      PROVE  UNCHANGED TableStatus
  <2>1. \A u \in Id : (broadcaster'[u] = "off") <=> (broadcaster[u] = "off")
    BY <1>4 DEF NoticeExit, AnnounceExit, ForgetExit, CleanUpExited, IInv, TypeOK
  <2>2. registry' = registry
    BY <1>4 DEF NoticeExit, AnnounceExit, ForgetExit, CleanUpExited
  <2> QED
    BY <2>1, <2>2, TableStutters
<1>5. ASSUME UNCHANGED <<registry, broadcaster>> PROVE UNCHANGED TableStatus
  BY <1>5, TableStutters
<1>6. ASSUME NEW c \in Client, \/ SpawnChild(c)
                               \/ SpawnFails(c)
                               \/ NameSession(c)
                               \/ PublishSession(c)
                               \/ AnnounceKill(c)
                               \/ ForgetKill(c)
      PROVE  UNCHANGED TableStatus
  BY <1>5, <1>6 DEF SpawnChild, SpawnFails, NameSession, PublishSession,
                    AnnounceKill, ForgetKill
<1>7. ASSUME \/ UNCHANGED vars
             \/ \E s \in Id : ChildExits(s)
             \/ \E t \in SidecarTask : RunSidecarTask(t)
      PROVE  UNCHANGED TableStatus
  BY <1>5, <1>7 DEF vars, ChildExits, RunSidecarTask
<1> QED
  BY <1>1, <1>2, <1>3, <1>4, <1>6, <1>7
     DEF Next, RequestStep, BroadcasterRuns, KillMissing

(* Spawn, kill and exit implement the session table: an id is registered   *)
(* at most once, and a session that was killed or has exited never comes   *)
(* back.                                                                   *)
THEOREM Implementation == Spec => ImplementsTable
<1>1. Init => Table!Init
  BY TableInit
<1>2. IInv /\ [Next]_vars => [Table!Next]_TableStatus
  BY TableNext
<1> QED
  BY <1>1, <1>2, Invariance, PTL DEF Spec, ImplementsTable, Table!Spec

-----------------------------------------------------------------------------
(* A spawn that has chosen its name, and not entered the map with it yet.  *)
Named(c) == pc[c] = "insert"

(* No two spawns are there at once: what one client keeps by sending one   *)
(* request at a time, and two clients may break.                           *)
NamedAlone == \A c, d \in Client : Named(c) /\ Named(d) => c = d

(* The name that such a spawn brings is not in use.                        *)
NamesDistinct ==
  /\ NamesUnique
  /\ \A c \in Client : Named(c) => name[cur[c]] \notin TakenNames

(* Leaving the map, or a step of a request that is not naming or entering, *)
(* takes no name.                                                          *)
LEMMA NamesRest ==
  ASSUME NamesDistinct, name' = name, registry' \subseteq registry,
         \A c \in Client : Named(c)' => Named(c) /\ cur'[c] = cur[c]
  PROVE  NamesDistinct'
<1>1. NamesUnique'
  BY DEF NamesDistinct, NamesUnique
<1>2. TakenNames' \subseteq TakenNames
  BY DEF TakenNames
<1> QED
  BY <1>1, <1>2 DEF NamesDistinct

(* As long as spawns are named alone, each step keeps the names distinct.  *)
LEMMA NamesNext ==
  ASSUME IInv, NamesDistinct, [Next]_vars, NamedAlone, NamedAlone'
  PROVE  NamesDistinct'
<1> USE DEF IInv, TypeOK
<1>1. ASSUME NEW c \in Client, SpawnChild(c) PROVE NamesDistinct'
  <2>1. \A d \in Client : Named(d)' => Named(d) /\ cur'[d] = cur[d]
    BY <1>1 DEF SpawnChild, Named
  <2> QED
    BY <1>1, <2>1, NamesRest DEF SpawnChild
<1>2. ASSUME NEW c \in Client, SpawnFails(c) PROVE NamesDistinct'
  BY <1>2, NamesRest DEF SpawnFails, Named
<1>3. ASSUME NEW c \in Client, NameSession(c) PROVE NamesDistinct'
  <2>1. cur[c] \in Id /\ cur[c] \notin registry
    BY <1>3 DEF NameSession, IdsAreFresh, Unborn
  <2>2. PICK n \in 1 .. (MaxId + 1) :
          n \notin TakenNames /\ name' = [name EXCEPT ![cur[c]] = n]
    BY <1>3 DEF NameSession, IsFreshName
  <2>3. registry' = registry /\ cur' = cur /\ Named(c)'
    BY <1>3 DEF NameSession, Named
  <2>4. \A s \in registry : name'[s] = name[s]
    BY <2>1, <2>2
  <2>5. NamesUnique'
    BY <2>3, <2>4 DEF NamesDistinct, NamesUnique
  <2>6. TakenNames' = TakenNames
    BY <2>3, <2>4 DEF TakenNames
  <2>7. ASSUME NEW d \in Client, Named(d)' PROVE name'[cur'[d]] \notin TakenNames'
    <3>1. d = c
      BY <2>3, <2>7 DEF NamedAlone
    <3>2. name'[cur'[c]] = n
      BY <2>1, <2>2, <2>3
    <3> QED
      BY <2>2, <2>6, <3>1, <3>2
  <2> QED
    BY <2>5, <2>7 DEF NamesDistinct
<1>4. ASSUME NEW c \in Client, InsertSession(c) PROVE NamesDistinct'
  <2>1. Named(c) /\ ~Named(c)' /\ \A d \in Client \ {c} : Named(d)' <=> Named(d)
    BY <1>4 DEF InsertSession, Named
  <2>2. registry' = registry \cup {cur[c]} /\ name' = name /\ cur' = cur
    BY <1>4 DEF InsertSession
  <2>3. \A s \in registry : name[s] # name[cur[c]]
    BY <2>1 DEF NamesDistinct, TakenNames
  <2>4. NamesUnique'
    BY <2>2, <2>3 DEF NamesDistinct, NamesUnique
  <2>5. \A d \in Client : ~Named(d)'
    BY <2>1 DEF NamedAlone
  <2> QED
    BY <2>4, <2>5 DEF NamesDistinct
<1>5. ASSUME NEW c \in Client, NEW s \in Id, KillSession(c, s)
      PROVE  NamesDistinct'
  <2>1. \A d \in Client : Named(d)' => Named(d) /\ cur'[d] = cur[d]
    BY <1>5 DEF KillSession, Named
  <2> QED
    BY <1>5, <2>1, NamesRest DEF KillSession
<1>6. ASSUME NEW c \in Client, PublishSession(c) \/ AnnounceKill(c) \/ ForgetKill(c)
      PROVE  NamesDistinct'
  <2>1. \A d \in Client : Named(d)' => Named(d) /\ cur'[d] = cur[d]
    BY <1>6 DEF PublishSession, AnnounceKill, ForgetKill, Named
  <2>2. name' = name /\ registry' = registry
    BY <1>6 DEF PublishSession, AnnounceKill, ForgetKill
  <2> QED
    BY <2>1, <2>2, NamesRest
<1>7. ASSUME NEW s \in Id, ChildExits(s) \/ BroadcasterRuns(s) PROVE NamesDistinct'
  <2>1. /\ name' = name /\ registry' \subseteq registry
        /\ pc' = pc /\ cur' = cur
    BY <1>7 DEF ChildExits, BroadcasterRuns, NoticeExit, AnnounceExit, ForgetExit,
                UnregisterExited, CleanUpExited
  <2> QED
    BY <2>1, NamesRest DEF Named
<1>8. ASSUME NEW t \in SidecarTask, RunSidecarTask(t) PROVE NamesDistinct'
  BY <1>8, NamesRest DEF RunSidecarTask, Named
<1>9. ASSUME UNCHANGED vars PROVE NamesDistinct'
  BY <1>9, NamesRest DEF vars, Named
<1> QED
  BY <1>1, <1>2, <1>3, <1>4, <1>5, <1>6, <1>7, <1>8, <1>9
     DEF Next, RequestStep, KillMissing

(* However many clients there are: as long as no two spawns hold a name    *)
(* that has not entered the map, no two sessions in the map share one.     *)
THEOREM NamesStayUnique == Spec /\ []NamedAlone => []NamesUnique
<1>1. Init => NamesDistinct
  BY DEF Init, NamesDistinct, NamesUnique, Named
<1>2. /\ IInv /\ NamesDistinct /\ NamedAlone /\ NamedAlone' /\ [Next]_vars
      => NamesDistinct'
  BY NamesNext
<1>3. NamesDistinct => NamesUnique
  BY DEF NamesDistinct
<1> QED
  BY <1>1, <1>2, <1>3, Invariance, PTL DEF Spec

(* One client that waits for each answer before it asks again is enough.   *)
THEOREM OneClientNames ==
  ASSUME \A c, d \in Client : c = d
  PROVE  Spec => []NamesUnique
<1>1. NamedAlone
  BY DEF NamedAlone
<1> QED
  BY <1>1, NamesStayUnique, PTL
=============================================================================
