-------------------------- MODULE SessionEndProofs --------------------------
(***************************************************************************)
(* For every set of clients and every bound on ids: however a kill request *)
(* and the end of the child interleave, a session that was published       *)
(* before it was cleaned up leaves nothing behind and its end is           *)
(* announced; and a session that is neither ending nor being killed is     *)
(* known to subscribers and listed in sessions.json.                       *)
(***************************************************************************)
EXTENDS SessionRegistryProofs

(* A kill of s is between taking s out of the map and its reply.           *)
KillUnderWay(s) == \E c \in Client : pc[c] \in KillStep /\ cur[c] = s

(* A removal of s from sessions.json is queued.                            *)
RemovalQueued(s) == \E t \in sidecarTasks : t.op = "remove" /\ t.id = s

(* The exit path has told the bus, and has made the bus forget.            *)
ExitAnnounced(s) == broadcaster[s] \in {"forget", "unregister", "cleanup", "done"}
ExitForgotten(s) == broadcaster[s] \in {"unregister", "cleanup", "done"}

(* A worktree directory outlives its session only until the exit path's    *)
(* last step; ids above nextId have none.                                  *)
WorktreeGoes ==
  \A s \in Id : Ended(s) /\ broadcaster[s] # "cleanup" => s \notin worktree

(* Only sessions that left the map have a removal queued, and an ended     *)
(* session that sessions.json lists, or will list, has one queued.         *)
SidecarGoes ==
  /\ \A s \in Id : RemovalQueued(s) => Ended(s)
  /\ \A s \in Id :
       /\ Ended(s) /\ broadcaster[s] # "cleanup" /\ s \notin tooSoon
       /\ s \in sidecar \/ AddTask(s) \in sidecarTasks
       => RemovalQueued(s)

(* A spawn that is still to publish s is overtaken by no clean-up that has *)
(* announced the end, unless the clean-up came too soon.                   *)
PublishComesFirst ==
  \A s \in Id :
    Spawning(s) /\ broadcaster[s] # "off" /\ s \notin tooSoon =>
      /\ broadcaster[s] \in {"loop", "announce"}
      /\ s \in registry \/ \E c \in Client : pc[c] = "announceKill" /\ cur[c] = s

(* A kill under way, and the exit path past its own removal, work on a     *)
(* session that has left the map.                                          *)
KillsEnded ==
  /\ \A c \in Client : pc[c] \in KillStep => Ended(cur[c])
  /\ \A s \in Id : broadcaster[s] \in {"cleanup", "done"} => s \notin registry

(* What the bus knows of a session on its way out: nothing once either     *)
(* path is past its removal, and its end was announced before.             *)
BusGoes ==
  \A s \in Id : s \notin tooSoon =>
    /\ ExitForgotten(s) \/ (Ended(s) /\ ~KillUnderWay(s)) => bus[s] = "absent"
    /\ broadcaster[s] # "off" /\ ~Spawning(s) /\ bus[s] = "absent" => s \in announced
    /\ \/ broadcaster[s] = "forget"
       \/ \E c \in Client : pc[c] = "forgetKill" /\ cur[c] = s
       => s \in announced

(* A session in the map whose exit has not been noticed is alive on the    *)
(* bus once it is published, and is in sessions.json or will be.           *)
LiveStays ==
  \A s \in registry :
    /\ broadcaster[s] \in {"loop", "announce"} /\ ~Spawning(s) => bus[s] = "alive"
    /\ broadcaster[s] \in {"loop", "announce"} =>
         s \in sidecar \/ AddTask(s) \in sidecarTasks

EndInv ==
  /\ WorktreeGoes
  /\ SidecarGoes
  /\ PublishComesFirst
  /\ KillsEnded
  /\ BusGoes
  /\ LiveStays

-----------------------------------------------------------------------------
(* At the start no session has been spawned.                               *)
LEMMA EndInit == Init => EndInv
  BY DEF Init, EndInv, WorktreeGoes, SidecarGoes, PublishComesFirst, KillsEnded,
     BusGoes, LiveStays, Ended, KillUnderWay, RemovalQueued, ExitForgotten,
     Spawning, SpawnStep, KillStep, Id, NoId

(* A worktree is made for the id a spawn takes, which has no broadcaster;  *)
(* the kill and the last step of the exit path remove it.                  *)
LEMMA NextWorktree ==
  ASSUME IInv, EndInv, [Next]_vars
  PROVE  WorktreeGoes'
<1> USE MaxIdAssumption DEF IInv, TypeOK, IdsAreFresh, EndInv, WorktreeGoes, Ended, Id
<1>1. ASSUME NEW c \in Client, SpawnChild(c) PROVE WorktreeGoes'
  BY <1>1 DEF SpawnChild, MakeWorktree
<1>2. ASSUME NEW c \in Client, SpawnFails(c) PROVE WorktreeGoes'
  BY <1>2 DEF SpawnFails, MakeWorktree
<1>3. ASSUME NEW c \in Client, InsertSession(c) PROVE WorktreeGoes'
  BY <1>3 DEF InsertSession, Unborn
<1>4. ASSUME NEW c \in Client, NEW s \in Id, KillSession(c, s) PROVE WorktreeGoes'
  BY <1>4 DEF KillSession, RemoveWorktree
<1>5. ASSUME NEW s \in Id, UnregisterExited(s) PROVE WorktreeGoes'
  BY <1>5 DEF UnregisterExited
<1>6. ASSUME NEW s \in Id, CleanUpExited(s) PROVE WorktreeGoes'
  BY <1>6 DEF CleanUpExited, RemoveWorktree
<1>7. ASSUME NEW s \in Id, NoticeExit(s) \/ AnnounceExit(s) \/ ForgetExit(s)
      PROVE  WorktreeGoes'
  BY <1>7 DEF NoticeExit, AnnounceExit, ForgetExit
<1>8. ASSUME UNCHANGED <<registry, broadcaster, worktree>> PROVE WorktreeGoes'
  BY <1>8
<1>9. ASSUME NEW c \in Client, \/ NameSession(c)
                               \/ PublishSession(c)
                               \/ AnnounceKill(c)
                               \/ ForgetKill(c)
      PROVE  WorktreeGoes'
  BY <1>8, <1>9 DEF NameSession, PublishSession, AnnounceKill, ForgetKill
<1>10. ASSUME \/ UNCHANGED vars
              \/ \E s \in Id : ChildExits(s)
              \/ \E t \in SidecarTask : RunSidecarTask(t)
       PROVE  WorktreeGoes'
  BY <1>8, <1>10 DEF vars, ChildExits, RunSidecarTask
<1> QED
  BY <1>1, <1>2, <1>3, <1>4, <1>5, <1>6, <1>7, <1>9, <1>10
     DEF Next, RequestStep, BroadcasterRuns, KillMissing

(* A kill under way keeps its session out of the map: only an unborn       *)
(* session can enter it.                                                   *)
LEMMA NextKills ==
  ASSUME IInv, EndInv, [Next]_vars
  PROVE  KillsEnded'
<1> USE MaxIdAssumption DEF IInv, TypeOK, IdsAreFresh, EndInv, KillsEnded, Ended, Id
<1>1. ASSUME NEW c \in Client, SpawnChild(c) PROVE KillsEnded'
  BY <1>1 DEF SpawnChild, KillStep
<1>2. ASSUME NEW c \in Client, InsertSession(c) PROVE KillsEnded'
  BY <1>2 DEF InsertSession, KillStep, Unborn, LockFree
<1>3. ASSUME NEW c \in Client, NEW s \in Id, KillSession(c, s) PROVE KillsEnded'
  BY <1>3 DEF KillSession, LockFree
<1>4. ASSUME NEW s \in Id, BroadcasterRuns(s) PROVE KillsEnded'
  <2>1. UNCHANGED <<pc, cur>> /\ registry' \subseteq registry
    BY <1>4 DEF BroadcasterRuns, NoticeExit, AnnounceExit, ForgetExit,
                UnregisterExited, CleanUpExited
  <2>2. \A u \in Id : (broadcaster'[u] = "off") <=> (broadcaster[u] = "off")
    BY <1>4 DEF BroadcasterRuns, NoticeExit, AnnounceExit, ForgetExit,
                UnregisterExited, CleanUpExited
  <2>3. \A u \in Id : broadcaster'[u] \in {"cleanup", "done"} => u \notin registry'
    BY <1>4 DEF BroadcasterRuns, NoticeExit, AnnounceExit, ForgetExit,
                UnregisterExited, CleanUpExited
  <2> QED
    BY <2>1, <2>2, <2>3 DEF KillStep
<1>5. ASSUME NEW c \in Client, \/ SpawnFails(c)
                               \/ NameSession(c)
                               \/ PublishSession(c)
                               \/ AnnounceKill(c)
                               \/ ForgetKill(c)
      PROVE  KillsEnded'
  BY <1>5 DEF SpawnFails, NameSession, PublishSession, AnnounceKill, ForgetKill, KillStep
<1>6. ASSUME UNCHANGED <<registry, broadcaster, pc, cur>> PROVE KillsEnded'
  BY <1>6
<1>7. ASSUME NEW s \in Id, ChildExits(s) PROVE KillsEnded'
  BY <1>6, <1>7 DEF ChildExits
<1>8. ASSUME NEW t \in SidecarTask, RunSidecarTask(t) PROVE KillsEnded'
  BY <1>6, <1>8 DEF RunSidecarTask
<1>9. CASE UNCHANGED vars
  BY <1>6, <1>9 DEF vars
<1> QED
  BY <1>1, <1>2, <1>3, <1>4, <1>5, <1>7, <1>8, <1>9
     DEF Next, RequestStep, KillMissing

(* Only an insertion queues an addition, only a removal from the map, or   *)
(* the last step of the exit path, queues a removal; a removal that runs   *)
(* ahead of the addition marks the session.                                *)
LEMMA NextSidecar ==
  ASSUME IInv, EndInv, [Next]_vars
  PROVE  SidecarGoes'
<1> USE MaxIdAssumption DEF IInv, TypeOK, IdsAreFresh, EndInv, KillsEnded, SidecarGoes,
        RemovalQueued, Ended, Id
<1>1. ASSUME UNCHANGED <<registry, broadcaster, sidecar, sidecarTasks, tooSoon>>
      PROVE  SidecarGoes'
  BY <1>1
<1>2. ASSUME NEW c \in Client, \/ SpawnChild(c)
                               \/ SpawnFails(c)
                               \/ NameSession(c)
                               \/ PublishSession(c)
                               \/ ForgetKill(c)
      PROVE  SidecarGoes'
  BY <1>1, <1>2 DEF SpawnChild, SpawnFails, NameSession, PublishSession, ForgetKill
<1>3. ASSUME NEW c \in Client, InsertSession(c) PROVE SidecarGoes'
  BY <1>3 DEF InsertSession, Unborn, AddTask
<1>4. ASSUME NEW c \in Client, NEW s \in Id, KillSession(c, s) PROVE SidecarGoes'
  BY <1>4 DEF KillSession, RemoveTask, AddTask
<1>5. ASSUME NEW c \in Client, AnnounceKill(c) PROVE SidecarGoes'
  BY <1>5 DEF AnnounceKill, MarkTooSoon
<1>6. ASSUME NEW s \in Id, AnnounceExit(s) PROVE SidecarGoes'
  BY <1>6 DEF AnnounceExit, MarkTooSoon
<1>7. ASSUME NEW s \in Id, NoticeExit(s) \/ ForgetExit(s) PROVE SidecarGoes'
  BY <1>7 DEF NoticeExit, ForgetExit
<1>8. ASSUME NEW s \in Id, UnregisterExited(s) PROVE SidecarGoes'
  BY <1>8 DEF UnregisterExited
<1>9. ASSUME NEW s \in Id, CleanUpExited(s) PROVE SidecarGoes'
  <2>1. /\ broadcaster[s] = "cleanup" /\ s \notin registry
        /\ broadcaster' = [broadcaster EXCEPT ![s] = "done"]
        /\ sidecarTasks' = sidecarTasks \cup {RemoveTask(s, "exit")}
        /\ UNCHANGED <<registry, sidecar, tooSoon>>
    BY <1>9 DEF CleanUpExited
  <2>2. RemoveTask(s, "exit").op = "remove" /\ RemoveTask(s, "exit").id = s
    BY DEF RemoveTask
  <2>3. \A u \in Id : u # s => (RemovalQueued(u)' <=> RemovalQueued(u))
    BY <2>1, <2>2
  <2>4. \A u \in Id : AddTask(u) \in sidecarTasks' => AddTask(u) \in sidecarTasks
    BY <2>1 DEF AddTask, RemoveTask
  <2>5. RemovalQueued(s)' /\ Ended(s)'
    BY <2>1, <2>2
  <2>6. \A u \in Id : u # s => (Ended(u)' <=> Ended(u)) /\ broadcaster'[u] = broadcaster[u]
    BY <2>1
  <2> HIDE DEF IInv, TypeOK, IdsAreFresh, RemovalQueued, Ended, KillsEnded
  <2> QED
    BY <2>1, <2>3, <2>4, <2>5, <2>6
<1>10. ASSUME NEW t \in SidecarTask, RunSidecarTask(t) PROVE SidecarGoes'
  <2>1. CASE t.op = "add"
    BY <1>10, <2>1 DEF RunSidecarTask, SidecarTask, AddTask
  <2>2. CASE t.op = "remove"
    BY <1>10, <2>2 DEF RunSidecarTask, SidecarTask, AddTask
  <2> QED
    BY <2>1, <2>2 DEF SidecarTask
<1>11. ASSUME NEW s \in Id, ChildExits(s) PROVE SidecarGoes'
  BY <1>1, <1>11 DEF ChildExits
<1>12. CASE UNCHANGED vars
  BY <1>1, <1>12 DEF vars
<1> QED
  BY <1>2, <1>3, <1>4, <1>5, <1>6, <1>7, <1>8, <1>9, <1>10, <1>11, <1>12
     DEF Next, RequestStep, BroadcasterRuns, KillMissing

(* A spawn is overtaken only by the two steps that announce an end, and    *)
(* those mark the session.                                                 *)
LEMMA NextPublish ==
  ASSUME IInv, EndInv, [Next]_vars
  PROVE  PublishComesFirst'
<1> USE MaxIdAssumption DEF IInv, TypeOK, IdsAreFresh, EndInv, PublishComesFirst,
        Spawning, SpawnStep, Id
<1>1. ASSUME UNCHANGED <<registry, broadcaster, tooSoon, pc, cur>>
      PROVE  PublishComesFirst'
  BY <1>1
<1>2. ASSUME NEW c \in Client, SpawnChild(c) PROVE PublishComesFirst'
  BY <1>2 DEF SpawnChild
<1>3. ASSUME NEW c \in Client, NameSession(c) PROVE PublishComesFirst'
  BY <1>3 DEF NameSession
<1>4. ASSUME NEW c \in Client, InsertSession(c) PROVE PublishComesFirst'
  BY <1>4 DEF InsertSession, Unborn
<1>5. ASSUME NEW c \in Client, PublishSession(c) PROVE PublishComesFirst'
  BY <1>5 DEF PublishSession
<1>6. ASSUME NEW c \in Client, NEW s \in Id, KillSession(c, s)
      PROVE  PublishComesFirst'
  BY <1>6 DEF KillSession
<1>7. ASSUME NEW c \in Client, AnnounceKill(c) PROVE PublishComesFirst'
  BY <1>7 DEF AnnounceKill, MarkTooSoon
<1>8. ASSUME NEW c \in Client, ForgetKill(c) PROVE PublishComesFirst'
  BY <1>8 DEF ForgetKill
<1>9. ASSUME NEW s \in Id, NoticeExit(s) PROVE PublishComesFirst'
  BY <1>9 DEF NoticeExit
<1>10. ASSUME NEW s \in Id, AnnounceExit(s) PROVE PublishComesFirst'
  BY <1>10 DEF AnnounceExit, MarkTooSoon
<1>11. ASSUME NEW s \in Id, \/ ForgetExit(s)
                            \/ UnregisterExited(s)
                            \/ CleanUpExited(s)
       PROVE  PublishComesFirst'
  BY <1>11 DEF ForgetExit, UnregisterExited, CleanUpExited
<1>12. ASSUME NEW t \in SidecarTask, RunSidecarTask(t) PROVE PublishComesFirst'
  BY <1>12 DEF RunSidecarTask
<1>13. ASSUME NEW s \in Id, ChildExits(s) PROVE PublishComesFirst'
  BY <1>1, <1>13 DEF ChildExits
<1>14. ASSUME NEW c \in Client, SpawnFails(c) PROVE PublishComesFirst'
  BY <1>1, <1>14 DEF SpawnFails
<1>15. CASE UNCHANGED vars
  BY <1>1, <1>15 DEF vars
<1> QED
  BY <1>2, <1>3, <1>4, <1>5, <1>6, <1>7, <1>8, <1>9, <1>10, <1>11, <1>12, <1>13,
     <1>14, <1>15 DEF Next, RequestStep, BroadcasterRuns, KillMissing

(* The bus forgets a session only after its end was announced, and knows   *)
(* one again only from a spawn that came first.                            *)
LEMMA NextBus ==
  ASSUME IInv, EndInv, [Next]_vars
  PROVE  BusGoes'
<1> USE MaxIdAssumption DEF IInv, TypeOK, IdsAreFresh, EndInv, BusGoes, Ended,
        KillUnderWay, KillStep, ExitForgotten, Spawning, SpawnStep, Id
<1>1. ASSUME UNCHANGED <<registry, broadcaster, bus, announced, pc, cur>>,
             tooSoon \subseteq tooSoon'
      PROVE  BusGoes'
  BY <1>1
<1>2. ASSUME NEW c \in Client, SpawnChild(c) PROVE BusGoes'
  BY <1>2 DEF SpawnChild
<1>3. ASSUME NEW c \in Client, NameSession(c) PROVE BusGoes'
  BY <1>3 DEF NameSession
<1>4. ASSUME NEW c \in Client, InsertSession(c) PROVE BusGoes'
  BY <1>4 DEF InsertSession, Unborn
<1>5. ASSUME NEW c \in Client, PublishSession(c) PROVE BusGoes'
  <2>0. PICK p \in Id : p = cur[c]
    BY <1>5 DEF PublishSession
  <2>1. /\ p = cur[c] /\ pc[c] = "publish" /\ Spawning(p)
        /\ bus' = [bus EXCEPT ![p] = "alive"]
        /\ pc' = [pc EXCEPT ![c] = "idle"] /\ cur' = [cur EXCEPT ![c] = NoId]
        /\ UNCHANGED <<registry, broadcaster, announced, tooSoon>>
    BY <1>5, <2>0 DEF PublishSession
  <2>2. \A u \in Id : Ended(u)' <=> Ended(u)
    BY <2>1
  <2>3. \A u \in Id : KillUnderWay(u)' <=> KillUnderWay(u)
    BY <2>1
  <2>4. \A u \in Id : u # p => (Spawning(u)' <=> Spawning(u)) /\ bus'[u] = bus[u]
    BY <2>1 DEF NoId
  <2>5. \A u \in Id : (\E d \in Client : pc'[d] = "forgetKill" /\ cur'[d] = u)
                     => (\E d \in Client : pc[d] = "forgetKill" /\ cur[d] = u)
    BY <2>1
  <2>6. bus'[p] = "alive"
    BY <2>1
  <2> HIDE DEF IInv, TypeOK, IdsAreFresh, Ended, KillUnderWay, ExitForgotten,
          Spawning, SpawnStep, KillStep, Id
  <2>7. \A u \in Id : u = p /\ u \notin tooSoon =>
          /\ ~ExitForgotten(u)
          /\ Ended(u) => KillUnderWay(u)
    BY <2>1 DEF PublishComesFirst, ExitForgotten, Ended, KillUnderWay, KillStep
  <2>8. \A u \in Id : ExitForgotten(u)' <=> ExitForgotten(u)
    BY <2>1 DEF ExitForgotten
  <2> SUFFICES ASSUME NEW u \in Id, u \notin tooSoon
               PROVE  /\ ExitForgotten(u)' \/ (Ended(u)' /\ ~KillUnderWay(u)')
                           => bus'[u] = "absent"
                      /\ broadcaster'[u] # "off" /\ ~Spawning(u)' /\ bus'[u] = "absent"
                           => u \in announced'
                      /\ \/ broadcaster'[u] = "forget"
                         \/ \E d \in Client : pc'[d] = "forgetKill" /\ cur'[d] = u
                         => u \in announced'
    BY <2>1
  <2>9. CASE u = p
    <3>1. bus'[u] = "alive" /\ ~ExitForgotten(u) /\ (Ended(u) => KillUnderWay(u))
      BY <2>6, <2>7, <2>9
    <3>2. ~ExitForgotten(u)' /\ (Ended(u)' => KillUnderWay(u)')
      BY <2>2, <2>3, <2>8, <3>1
    <3>3. \/ broadcaster[u] = "forget"
          \/ \E d \in Client : pc[d] = "forgetKill" /\ cur[d] = u
          => u \in announced
      BY DEF Id
    <3> QED
      BY <2>1, <2>5, <3>1, <3>2, <3>3
  <2>10. CASE u # p
    BY <2>1, <2>2, <2>3, <2>4, <2>5, <2>8, <2>10
  <2> QED
    BY <2>9, <2>10
<1>6. ASSUME NEW c \in Client, NEW s \in Id, KillSession(c, s) PROVE BusGoes'
  BY <1>6 DEF KillSession
<1>7. ASSUME NEW c \in Client, AnnounceKill(c) PROVE BusGoes'
  BY <1>7 DEF AnnounceKill, BusExited, MarkTooSoon, KillsEnded
<1>8. ASSUME NEW c \in Client, ForgetKill(c) PROVE BusGoes'
  BY <1>8 DEF ForgetKill, BusRemoved
<1>9. ASSUME NEW s \in Id, NoticeExit(s) PROVE BusGoes'
  BY <1>9 DEF NoticeExit
<1>10. ASSUME NEW s \in Id, AnnounceExit(s) PROVE BusGoes'
  BY <1>10 DEF AnnounceExit, BusExited, MarkTooSoon
<1>11. ASSUME NEW s \in Id, ForgetExit(s) PROVE BusGoes'
  BY <1>11 DEF ForgetExit, BusRemoved
<1>12. ASSUME NEW s \in Id, UnregisterExited(s) PROVE BusGoes'
  BY <1>12 DEF UnregisterExited
<1>13. ASSUME NEW s \in Id, CleanUpExited(s) PROVE BusGoes'
  BY <1>13 DEF CleanUpExited
<1>14. ASSUME NEW t \in SidecarTask, RunSidecarTask(t) PROVE BusGoes'
  BY <1>1, <1>14 DEF RunSidecarTask
<1>15. ASSUME NEW s \in Id, ChildExits(s) PROVE BusGoes'
  BY <1>1, <1>15 DEF ChildExits
<1>16. ASSUME NEW c \in Client, SpawnFails(c) PROVE BusGoes'
  BY <1>1, <1>16 DEF SpawnFails
<1>17. CASE UNCHANGED vars
  BY <1>1, <1>17 DEF vars
<1> QED
  BY <1>2, <1>3, <1>4, <1>5, <1>6, <1>7, <1>8, <1>9, <1>10, <1>11, <1>12, <1>13,
     <1>14, <1>15, <1>16, <1>17 DEF Next, RequestStep, BroadcasterRuns, KillMissing

(* While a session is in the map, only its own spawn changes what the bus  *)
(* and sessions.json know of it, until its exit path starts.               *)
LEMMA NextLive ==
  ASSUME IInv, EndInv, [Next]_vars
  PROVE  LiveStays'
<1> USE MaxIdAssumption DEF IInv, TypeOK, IdsAreFresh, EndInv, LiveStays, Ended,
        Spawning, SpawnStep, Id
<1>1. ASSUME UNCHANGED <<registry, broadcaster, bus, sidecar, sidecarTasks, pc, cur>>
      PROVE  LiveStays'
  BY <1>1
<1>2. ASSUME NEW c \in Client, SpawnChild(c) PROVE LiveStays'
  BY <1>2 DEF SpawnChild
<1>3. ASSUME NEW c \in Client, NameSession(c) PROVE LiveStays'
  BY <1>3 DEF NameSession
<1>4. ASSUME NEW c \in Client, InsertSession(c) PROVE LiveStays'
  BY <1>4 DEF InsertSession, Unborn
<1>5. ASSUME NEW c \in Client, PublishSession(c) PROVE LiveStays'
  BY <1>5 DEF PublishSession
<1>6. ASSUME NEW c \in Client, NEW s \in Id, KillSession(c, s) PROVE LiveStays'
  BY <1>6 DEF KillSession
<1>7. ASSUME NEW c \in Client, AnnounceKill(c) PROVE LiveStays'
  BY <1>7 DEF AnnounceKill, BusExited, KillsEnded, KillStep
<1>8. ASSUME NEW c \in Client, ForgetKill(c) PROVE LiveStays'
  BY <1>8 DEF ForgetKill, BusRemoved, KillsEnded, KillStep
<1>9. ASSUME NEW s \in Id, NoticeExit(s) PROVE LiveStays'
  BY <1>9 DEF NoticeExit
<1>10. ASSUME NEW s \in Id, AnnounceExit(s) PROVE LiveStays'
  BY <1>10 DEF AnnounceExit, BusExited
<1>11. ASSUME NEW s \in Id, ForgetExit(s) PROVE LiveStays'
  BY <1>11 DEF ForgetExit, BusRemoved
<1>12. ASSUME NEW s \in Id, UnregisterExited(s) PROVE LiveStays'
  BY <1>12 DEF UnregisterExited
<1>13. ASSUME NEW s \in Id, CleanUpExited(s) PROVE LiveStays'
  BY <1>13 DEF CleanUpExited
<1>14. ASSUME NEW t \in SidecarTask, RunSidecarTask(t) PROVE LiveStays'
  <2>1. UNCHANGED <<registry, broadcaster, bus, pc, cur>> /\ t \in sidecarTasks
    BY <1>14 DEF RunSidecarTask
  <2>2. \A s \in registry : s \in sidecar \/ AddTask(s) \in sidecarTasks
                           => s \in sidecar' \/ AddTask(s) \in sidecarTasks'
    <3>1. CASE t.op = "add"
      <4>1. \A s \in Id : AddTask(s) = t => s = t.id
        BY DEF AddTask
      <4> QED
        BY <1>14, <3>1, <4>1 DEF RunSidecarTask
    <3>2. CASE t.op = "remove"
      <4>1. t.id \in Id /\ t.id \notin registry
        BY <2>1, <3>2 DEF SidecarTask, SidecarGoes, RemovalQueued
      <4>2. \A s \in Id : AddTask(s) # t
        BY <3>2 DEF AddTask
      <4> QED
        BY <1>14, <3>2, <4>1, <4>2 DEF RunSidecarTask
    <3> QED
      BY <3>1, <3>2 DEF SidecarTask
  <2> HIDE DEF IInv, TypeOK, IdsAreFresh
  <2> QED
    BY <2>1, <2>2
<1>15. ASSUME NEW s \in Id, ChildExits(s) PROVE LiveStays'
  BY <1>1, <1>15 DEF ChildExits
<1>16. ASSUME NEW c \in Client, SpawnFails(c) PROVE LiveStays'
  BY <1>1, <1>16 DEF SpawnFails
<1>17. CASE UNCHANGED vars
  BY <1>1, <1>17 DEF vars
<1> QED
  BY <1>2, <1>3, <1>4, <1>5, <1>6, <1>7, <1>8, <1>9, <1>10, <1>11, <1>12, <1>13,
     <1>14, <1>15, <1>16, <1>17 DEF Next, RequestStep, BroadcasterRuns, KillMissing

-----------------------------------------------------------------------------
(* The invariant of the ends of sessions holds in every behaviour.         *)
THEOREM EndInvariance == Spec => []EndInv
<1>1. IInv /\ EndInv /\ [Next]_vars => EndInv'
  BY NextWorktree, NextKills, NextSidecar, NextPublish, NextBus, NextLive DEF EndInv
<1> QED
  BY <1>1, EndInit, Invariance, PTL DEF Spec

(* A settled session is neither being spawned nor being killed, its exit   *)
(* path is over or has not begun, and no sidecar task is left for it.      *)
LEMMA SettledMeans ==
  ASSUME TypeOK, NEW s \in Id, Settled(s)
  PROVE  /\ ~Spawning(s) /\ ~KillUnderWay(s)
         /\ broadcaster[s] # "cleanup"
         /\ AddTask(s) \notin sidecarTasks /\ ~RemovalQueued(s)
  BY DEF Settled, Spawning, KillUnderWay, RemovalQueued, AddTask

(* However a kill request and the end of the child interleave, a session   *)
(* that was published before it was cleaned up leaves no bus state, no     *)
(* sidecar entry and no worktree directory behind.                         *)
THEOREM NothingIsLeft == Spec => []EndLeavesNothing
<1>1. ASSUME TypeOK, EndInv PROVE EndLeavesNothing
  <2> SUFFICES ASSUME NEW s \in Id, Ended(s), Settled(s), s \notin tooSoon
               PROVE  bus[s] = "absent" /\ s \notin sidecar /\ s \notin worktree
    BY DEF EndLeavesNothing
  <2>1. /\ ~KillUnderWay(s)
        /\ broadcaster[s] # "cleanup"
        /\ ~RemovalQueued(s)
    BY <1>1, SettledMeans
  <2>2. bus[s] = "absent"
    BY <1>1, <2>1 DEF EndInv, BusGoes
  <2>3. s \notin sidecar
    BY <1>1, <2>1 DEF EndInv, SidecarGoes
  <2>4. s \notin worktree
    BY <1>1, <2>1 DEF EndInv, WorktreeGoes
  <2> QED
    BY <2>2, <2>3, <2>4
<1> QED
  BY <1>1, TypeCorrect, EndInvariance, PTL

(* Nor does its end go unannounced: one of the two paths emitted           *)
(* SessionExited before the other made the bus forget the session.         *)
THEOREM EndIsHeard == Spec => []EndIsAnnounced
<1>1. ASSUME TypeOK, EndInv PROVE EndIsAnnounced
  <2> SUFFICES ASSUME NEW s \in Id, Ended(s), Settled(s), s \notin tooSoon
               PROVE  s \in announced
    BY DEF EndIsAnnounced
  <2>1. ~Spawning(s) /\ ~KillUnderWay(s)
    BY <1>1, SettledMeans
  <2>2. bus[s] = "absent" /\ broadcaster[s] # "off"
    BY <1>1, <2>1 DEF EndInv, BusGoes, Ended
  <2> QED
    BY <1>1, <2>1, <2>2 DEF EndInv, BusGoes
<1> QED
  BY <1>1, TypeCorrect, EndInvariance, PTL

(* A session that spawn has returned and that is neither ending nor being  *)
(* killed is alive on the bus and, its sidecar task run, in sessions.json. *)
THEOREM LiveSessionsAreKnown == Spec => []LiveIsKnown
<1>1. ASSUME TypeOK, EndInv PROVE LiveIsKnown
  <2> SUFFICES ASSUME NEW s \in registry, \A c \in Client : cur[c] # s,
                      broadcaster[s] = "loop"
               PROVE  /\ bus[s] = "alive"
                      /\ AddTask(s) \notin sidecarTasks => s \in sidecar
    BY DEF LiveIsKnown
  <2>1. ~Spawning(s)
    BY DEF Spawning
  <2> QED
    BY <1>1, <2>1 DEF EndInv, LiveStays
<1> QED
  BY <1>1, TypeCorrect, EndInvariance, PTL
-----------------------------------------------------------------------------
(* No clean-up is done with the bus while the spawn has still to publish.  *)
SpawnsReturnFirst ==
  \A s \in Id : Spawning(s) /\ broadcaster[s] # "off" =>
    ~ExitForgotten(s) /\ (Ended(s) => KillUnderWay(s))

(* Once a clean-up is done with the bus, the bus knows nothing of the      *)
(* session: BusGoes without the sessions marked in the history.            *)
BusForgets ==
  \A s \in Id : ExitForgotten(s) \/ (Ended(s) /\ ~KillUnderWay(s)) => bus[s] = "absent"

(* Only session_spawned brings a session back to the bus.                  *)
LEMMA NextForgets ==
  ASSUME IInv, KillsEnded, SpawnsReturnFirst, BusForgets, [Next]_vars
  PROVE  BusForgets'
<1> USE MaxIdAssumption DEF IInv, TypeOK, IdsAreFresh, BusForgets, Ended,
        KillUnderWay, KillStep, ExitForgotten, Id
<1>1. ASSUME UNCHANGED <<registry, broadcaster, bus, pc, cur>> PROVE BusForgets'
  BY <1>1
<1>2. ASSUME NEW c \in Client, SpawnChild(c) PROVE BusForgets'
  BY <1>2 DEF SpawnChild
<1>3. ASSUME NEW c \in Client, NameSession(c) PROVE BusForgets'
  BY <1>3 DEF NameSession
<1>4. ASSUME NEW c \in Client, InsertSession(c) PROVE BusForgets'
  BY <1>4 DEF InsertSession, Unborn
<1>5. ASSUME NEW c \in Client, PublishSession(c) PROVE BusForgets'
  <2>0. PICK p \in Id : p = cur[c]
    BY <1>5 DEF PublishSession
  <2>1. /\ pc[c] = "publish" /\ Spawning(p)
        /\ bus' = [bus EXCEPT ![p] = "alive"]
        /\ pc' = [pc EXCEPT ![c] = "idle"] /\ cur' = [cur EXCEPT ![c] = NoId]
        /\ UNCHANGED <<registry, broadcaster>>
    BY <1>5, <2>0 DEF PublishSession, Spawning, SpawnStep
  <2> SUFFICES ASSUME NEW u \in Id, ExitForgotten(u)' \/ (Ended(u)' /\ ~KillUnderWay(u)')
               PROVE  bus'[u] = "absent"
    BY DEF BusForgets
  <2>2. (Ended(u)' <=> Ended(u)) /\ (ExitForgotten(u)' <=> ExitForgotten(u))
    BY <2>1
  <2>3. KillUnderWay(u)' <=> KillUnderWay(u)
    BY <2>0, <2>1
  <2>4. ExitForgotten(u) \/ (Ended(u) /\ ~KillUnderWay(u))
    BY <2>2, <2>3
  <2>5. u # p
    BY <2>1, <2>4 DEF SpawnsReturnFirst
  <2> QED
    BY <2>1, <2>4, <2>5
<1>6. ASSUME NEW c \in Client, NEW s \in Id, KillSession(c, s) PROVE BusForgets'
  BY <1>6 DEF KillSession
<1>7. ASSUME NEW c \in Client, AnnounceKill(c) PROVE BusForgets'
  BY <1>7 DEF AnnounceKill, BusExited
<1>8. ASSUME NEW c \in Client, ForgetKill(c) PROVE BusForgets'
  BY <1>8 DEF ForgetKill, BusRemoved
<1>9. ASSUME NEW s \in Id, \/ NoticeExit(s)
                           \/ UnregisterExited(s)
                           \/ CleanUpExited(s)
      PROVE  BusForgets'
  BY <1>9 DEF NoticeExit, UnregisterExited, CleanUpExited
<1>10. ASSUME NEW s \in Id, AnnounceExit(s) PROVE BusForgets'
  BY <1>10 DEF AnnounceExit, BusExited
<1>11. ASSUME NEW s \in Id, ForgetExit(s) PROVE BusForgets'
  BY <1>11 DEF ForgetExit, BusRemoved
<1>12. ASSUME \/ UNCHANGED vars
              \/ \E t \in SidecarTask : RunSidecarTask(t)
              \/ \E s \in Id : ChildExits(s)
              \/ \E c \in Client : SpawnFails(c)
       PROVE  BusForgets'
  BY <1>1, <1>12 DEF vars, RunSidecarTask, ChildExits, SpawnFails
<1> QED
  BY <1>2, <1>3, <1>4, <1>5, <1>6, <1>7, <1>8, <1>9, <1>10, <1>11, <1>12
     DEF Next, RequestStep, BroadcasterRuns, KillMissing

(* The bus is the single source of truth, as daemon/mod.rs says, whenever  *)
(* each spawn publishes its session before a clean-up is done with the     *)
(* bus: the late session_spawned is the only way to a ghost.               *)
THEOREM GhostsAreLateSpawns == Spec /\ []SpawnsReturnFirst => []BusForgetsEnded
<1>1. Init => BusForgets
  BY DEF Init, BusForgets, ExitForgotten, Ended
<1>2. IInv /\ KillsEnded /\ SpawnsReturnFirst /\ BusForgets /\ [Next]_vars => BusForgets'
  BY NextForgets
<1>3. ASSUME TypeOK, BusForgets PROVE BusForgetsEnded
  <2> SUFFICES ASSUME NEW s \in Id, Ended(s), Settled(s)
               PROVE  bus[s] # "alive"
    BY DEF BusForgetsEnded
  <2>1. ~KillUnderWay(s)
    BY <1>3, SettledMeans
  <2> QED
    BY <1>3, <2>1 DEF BusForgets
<1>4. EndInv => KillsEnded
  BY DEF EndInv
<1> QED
  BY <1>1, <1>2, <1>3, <1>4, Invariance, TypeCorrect, EndInvariance, PTL DEF Spec
=============================================================================
