---------------------------- MODULE ServiceProofs ----------------------------
(***************************************************************************)
(* Proofs about parts of the session service that share no state: the      *)
(* daemon's lifecycle, the pollers of state files, the inference of a      *)
(* status, the limit on @system commands and the message log, for any      *)
(* number of processes, files and messages and any limits; and that these, *)
(* the registry, the client and the preview keep together what each keeps  *)
(* by itself.                                                              *)
(***************************************************************************)
EXTENDS MCServices, SessionEndProofs, ClientProofs,
        SequenceTheorems, WellFoundedInduction, TLAPS

-----------------------------------------------------------------------------
(* DaemonLifecycle: a serving daemon has its own files, and no clean       *)
(* shutdown is forgotten.                                                  *)

Stage == {"unborn", "serving", "gone"} \cup Starting \cup Stopping

StagesAreStages == stage \in [Process -> Stage]

(* The flock: one process at a time is between its start and its end.      *)
OneHolder ==
  \A p, q \in Process : HoldsLock(p) /\ HoldsLock(q) => p = q

(* From the step that makes it to the step that deletes it, a file is the  *)
(* lock holder's, unless a client or the tool took it.                     *)
PidfileIsHolders ==
  \A p \in Process :
    stage[p] \in (Starting \ {"locked"}) \cup {"serving"} \cup Stopping
      => pidFile = p \/ p \in unlisted

SocketIsHolders ==
  \A p \in Process :
    stage[p] \in {"bound", "loaded", "serving", "stopping", "saved"}
      => socketFile = p \/ p \in cutOff

FilesInv == StagesAreStages /\ OneHolder /\ PidfileIsHolders /\ SocketIsHolders

(* The state file is read before it is deleted, and gone before there are  *)
(* sessions to save.                                                       *)
StateFileIsRead ==
  \A p \in Process :
    /\ stage[p] = "loaded" => stateFile \in reported \cup {NoProcess}
    /\ stage[p] \in {"serving", "stopping"} => stateFile = NoProcess

StateInv ==
  /\ StagesAreStages /\ OneHolder /\ StateFileIsRead
  /\ saved \subseteq Process /\ SavedIsReported

-----------------------------------------------------------------------------
(* Only the lock holder makes a pidfile or a socket, or deletes its own;   *)
(* who else deletes one is recorded.                                       *)
LEMMA FilesSteps == FilesInv /\ [LifecycleNext]_lifecycleVars => FilesInv'
<1> SUFFICES ASSUME FilesInv, [LifecycleNext]_lifecycleVars PROVE FilesInv'
  OBVIOUS
<1> USE DEF FilesInv, StagesAreStages, OneHolder, PidfileIsHolders, SocketIsHolders,
      HoldsLock, Stage, Starting, Stopping
<1>1. ASSUME NEW p \in Process, StartProcess(p) PROVE FilesInv'
  BY <1>1 DEF StartProcess, Goes
<1>2. ASSUME NEW p \in Process, WritePidfile(p) PROVE FilesInv'
  BY <1>2 DEF WritePidfile, Goes
<1>3. ASSUME NEW p \in Process, ProbeSocket(p) PROVE FilesInv'
  BY <1>3 DEF ProbeSocket, Goes
<1>4. ASSUME NEW p \in Process, SweepSocket(p) PROVE FilesInv'
  BY <1>4 DEF SweepSocket, Goes, DeletesSocket
<1>5. ASSUME NEW p \in Process, Bind(p) PROVE FilesInv'
  BY <1>5 DEF Bind, Goes
<1>6. ASSUME NEW p \in Process, LoadState(p) PROVE FilesInv'
  BY <1>6 DEF LoadState, Goes
<1>7. ASSUME NEW p \in Process, RemoveState(p) PROVE FilesInv'
  BY <1>7 DEF RemoveState, Goes
<1>8. ASSUME NEW p \in Process, Serve(p) PROVE FilesInv'
  BY <1>8 DEF Serve
<1>9. ASSUME NEW p \in Process, Terminate(p) PROVE FilesInv'
  BY <1>9 DEF Terminate, Goes, Terminated
<1>10. ASSUME NEW p \in Process, Crash(p) PROVE FilesInv'
  BY <1>10 DEF Crash, Goes
<1>11. ASSUME NEW p \in Process, SaveState(p) PROVE FilesInv'
  BY <1>11 DEF SaveState, Goes
<1>12. ASSUME NEW p \in Process, UnlinkSocket(p) PROVE FilesInv'
  BY <1>12 DEF UnlinkSocket, Goes
<1>13. ASSUME NEW p \in Process, RemovePidfile(p) PROVE FilesInv'
  BY <1>13 DEF RemovePidfile, Goes
<1>14. ASSUME NEW c \in Prober, FindRefused(c) PROVE FilesInv'
  BY <1>14 DEF FindRefused
<1>15. ASSUME NEW c \in Prober, DeleteRefused(c) PROVE FilesInv'
  BY <1>15 DEF DeleteRefused, DeletesSocket
<1>16. ASSUME NEW force \in BOOLEAN, SignalAll(force) PROVE FilesInv'
  BY <1>16 DEF SignalAll, Terminated
<1>17. CASE DeleteArtifacts
  BY <1>17 DEF DeleteArtifacts, DeletesSocket
<1>18. CASE UNCHANGED lifecycleVars
  BY <1>18 DEF lifecycleVars
<1> QED
  BY <1>1, <1>2, <1>3, <1>4, <1>5, <1>6, <1>7, <1>8, <1>9, <1>10, <1>11,
     <1>12, <1>13, <1>14, <1>15, <1>16, <1>17, <1>18 DEF LifecycleNext

(* Between a start and its end only one process reads, deletes or writes   *)
(* the state file, in this order.                                          *)
LEMMA StateSteps == StateInv /\ [LifecycleNext]_lifecycleVars => StateInv'
<1> SUFFICES ASSUME StateInv, [LifecycleNext]_lifecycleVars PROVE StateInv'
  OBVIOUS
<1> USE DEF StateInv, StagesAreStages, OneHolder, StateFileIsRead, SavedIsReported,
      HoldsLock, Stage, Starting, Stopping, Process, NoProcess
<1>1. ASSUME NEW p \in Process, StartProcess(p) PROVE StateInv'
  BY <1>1 DEF StartProcess, Goes
<1>2. ASSUME NEW p \in Process, WritePidfile(p) PROVE StateInv'
  BY <1>2 DEF WritePidfile, Goes
<1>3. ASSUME NEW p \in Process, ProbeSocket(p) PROVE StateInv'
  BY <1>3 DEF ProbeSocket, Goes
<1>4. ASSUME NEW p \in Process, SweepSocket(p) PROVE StateInv'
  BY <1>4 DEF SweepSocket, Goes, DeletesSocket
<1>5. ASSUME NEW p \in Process, Bind(p) PROVE StateInv'
  BY <1>5 DEF Bind, Goes
<1>6. ASSUME NEW p \in Process, LoadState(p) PROVE StateInv'
  BY <1>6 DEF LoadState, Goes
<1>7. ASSUME NEW p \in Process, RemoveState(p) PROVE StateInv'
  BY <1>7 DEF RemoveState, Goes
<1>8. ASSUME NEW p \in Process, Serve(p) PROVE StateInv'
  BY <1>8 DEF Serve
<1>9. ASSUME NEW p \in Process, Terminate(p) PROVE StateInv'
  BY <1>9 DEF Terminate, Goes, Terminated
<1>10. ASSUME NEW p \in Process, Crash(p) PROVE StateInv'
  BY <1>10 DEF Crash, Goes
<1>11. ASSUME NEW p \in Process, SaveState(p) PROVE StateInv'
  <2>1. stage[p] = "stopping" /\ stage' = [stage EXCEPT ![p] = "saved"]
    BY <1>11 DEF SaveState, Goes
  <2>2. \A q \in Process : HoldsLock(q) => q = p
    BY <2>1
  <2>3. StagesAreStages' /\ OneHolder' /\ StateFileIsRead'
    BY <2>1, <2>2
  <2>4. \A q \in saved : q \in reported
    <3>1. stateFile = 0 /\ 0 \notin saved
      BY <2>1
    <3> QED
      BY <3>1
  <2>5. saved' \subseteq Process /\ SavedIsReported'
    <3>1. reported' = reported
      BY <1>11 DEF SaveState
    <3>2. \/ saved' = saved
          \/ saved' = saved \cup {p} /\ stateFile' = p
      BY <1>11 DEF SaveState
    <3> QED
      BY <2>4, <3>1, <3>2
  <2> QED
    BY <2>3, <2>5
<1>12. ASSUME NEW p \in Process, UnlinkSocket(p) PROVE StateInv'
  BY <1>12 DEF UnlinkSocket, Goes
<1>13. ASSUME NEW p \in Process, RemovePidfile(p) PROVE StateInv'
  BY <1>13 DEF RemovePidfile, Goes
<1>14. ASSUME NEW c \in Prober, FindRefused(c) PROVE StateInv'
  BY <1>14 DEF FindRefused
<1>15. ASSUME NEW c \in Prober, DeleteRefused(c) PROVE StateInv'
  BY <1>15 DEF DeleteRefused, DeletesSocket
<1>16. ASSUME NEW force \in BOOLEAN, SignalAll(force) PROVE StateInv'
  BY <1>16 DEF SignalAll, Terminated
<1>17. CASE DeleteArtifacts
  BY <1>17 DEF DeleteArtifacts, DeletesSocket
<1>18. CASE UNCHANGED lifecycleVars
  BY <1>18 DEF lifecycleVars
<1> QED
  BY <1>1, <1>2, <1>3, <1>4, <1>5, <1>6, <1>7, <1>8, <1>9, <1>10, <1>11,
     <1>12, <1>13, <1>14, <1>15, <1>16, <1>17, <1>18 DEF LifecycleNext

-----------------------------------------------------------------------------
(* However many daemons start, stop, crash and overlap, a serving one has  *)
(* the socket and the pidfile.                                             *)
THEOREM FilesOwned == LifecycleSpec => []FilesAreOwn
<1>1. LifecycleInit => FilesInv
  BY DEF LifecycleInit, FilesInv, StagesAreStages, OneHolder, PidfileIsHolders,
         SocketIsHolders, HoldsLock, Stage, Starting, Stopping
<1>2. FilesInv => FilesAreOwn
  BY DEF FilesInv, PidfileIsHolders, SocketIsHolders, FilesAreOwn,
         Starting, Stopping
<1> QED
  BY <1>1, <1>2, FilesSteps, PTL DEF LifecycleSpec

(* What a clean shutdown saved is in the state file until it is reported,  *)
(* through any number of crashes.                                          *)
THEOREM SavedSessionsReported == LifecycleSpec => []SavedIsReported
<1>1. LifecycleInit => StateInv
  BY DEF LifecycleInit, StateInv, StagesAreStages, OneHolder, StateFileIsRead,
         SavedIsReported, HoldsLock, Stage, Starting, Stopping
<1>2. StateInv => SavedIsReported
  BY DEF StateInv
<1> QED
  BY <1>1, <1>2, StateSteps, PTL DEF LifecycleSpec

-----------------------------------------------------------------------------
(* StatePoller: a poller without events knows what the files hold, and     *)
(* prunes no live state it was told of.                                    *)

(* A poller that runs is told of every live state it does not have: the    *)
(* event waits in its channel, or the file among those still to be read.   *)
WritesAreTold ==
  \A p \in Poller, f \in StateFile :
    polling[p] # "off" /\ disk[f] \notin {0} \cup dead =>
      \/ f \in changed[p]
      \/ polling[p] = "reading" /\ f \in todo[p]
      \/ cache[p][f] = disk[f]

(* It is told of every file it has a state of and that is no more, ...     *)
DeletionsAreTold ==
  \A p \in Poller, f \in StateFile :
    disk[f] = 0 => cache[p][f] = 0 \/ f \in deleted[p]

(* ... and of its return, if it has.                                       *)
ReturnsAreTold ==
  \A p \in Poller, f \in StateFile :
    f \in deleted[p] /\ disk[f] # 0 => f \in changed[p]

(* A poller that has not started knows nothing.                            *)
NothingYet ==
  \A p \in Poller, f \in StateFile : polling[p] = "off" => cache[p][f] = 0

(* What a prune has picked out is dead.                                    *)
PickedAreDead ==
  \A p \in Poller : polling[p] = "pruning" => \A f \in todo[p] : cache[p][f] \in dead

PollInv ==
  /\ PollTypeOK
  /\ WritesAreTold /\ DeletionsAreTold /\ ReturnsAreTold /\ NothingYet
  /\ PickedAreDead
  /\ LivePrunedUnseen

-----------------------------------------------------------------------------
(* Each step keeps the types.                                              *)
LEMMA PollTypes == PollTypeOK /\ [PollNext]_pollVars => PollTypeOK'
<1> SUFFICES ASSUME PollTypeOK, [PollNext]_pollVars PROVE PollTypeOK'
  OBVIOUS
<1> USE MaxStateAssumption DEF PollTypeOK, StateNumber, diskVars
<1>1. ASSUME NEW f \in StateFile, WriteState(f) PROVE PollTypeOK'
  BY <1>1 DEF WriteState
<1>2. ASSUME NEW f \in StateFile, DeleteState(f) PROVE PollTypeOK'
  BY <1>2 DEF DeleteState, Deleted
<1>3. ASSUME NEW s \in StateNumber, StateDies(s) PROVE PollTypeOK'
  BY <1>3 DEF StateDies
<1>4. ASSUME NEW p \in Poller, StartPoller(p) PROVE PollTypeOK'
  BY <1>4 DEF StartPoller, PollGoes
<1>5. ASSUME NEW p \in Poller, DrainEvents(p) PROVE PollTypeOK'
  BY <1>5 DEF DrainEvents, PollGoes, Without
<1>6. ASSUME NEW p \in Poller, NEW f \in StateFile, ReadDirty(p, f) PROVE PollTypeOK'
  BY <1>6 DEF ReadDirty
<1>7. ASSUME NEW p \in Poller, AllRead(p) PROVE PollTypeOK'
  BY <1>7 DEF AllRead, PollGoes
<1>8. ASSUME NEW p \in Poller, PickDead(p) PROVE PollTypeOK'
  BY <1>8 DEF PickDead, PollGoes
<1>9. ASSUME NEW p \in Poller, NEW f \in StateFile, PruneFile(p, f) PROVE PollTypeOK'
  BY <1>9 DEF PruneFile, Deleted
<1>10. ASSUME NEW p \in Poller, AllPruned(p) PROVE PollTypeOK'
  BY <1>10 DEF AllPruned, PollGoes
<1>11. CASE UNCHANGED pollVars
  BY <1>11 DEF pollVars
<1> QED
  BY <1>1, <1>2, <1>3, <1>4, <1>5, <1>6, <1>7, <1>8, <1>9, <1>10, <1>11 DEF PollNext

(* ... and what the pollers know and are told.                             *)
LEMMA PollSteps == PollInv /\ [PollNext]_pollVars => PollInv'
<1> SUFFICES ASSUME PollInv, [PollNext]_pollVars PROVE PollInv'
  OBVIOUS
<1>0. PollTypeOK'
  BY PollTypes DEF PollInv
<1> USE <1>0, MaxStateAssumption DEF PollInv, PollTypeOK, StateNumber, diskVars, WritesAreTold,
      DeletionsAreTold, ReturnsAreTold, NothingYet, PickedAreDead, LivePrunedUnseen
<1>1. ASSUME NEW f \in StateFile, WriteState(f) PROVE PollInv'
  BY <1>1 DEF WriteState
<1>2. ASSUME NEW f \in StateFile, DeleteState(f) PROVE PollInv'
  BY <1>2 DEF DeleteState, Deleted
<1>3. ASSUME NEW s \in StateNumber, StateDies(s) PROVE PollInv'
  BY <1>3 DEF StateDies
<1>4. ASSUME NEW p \in Poller, StartPoller(p) PROVE PollInv'
  BY <1>4 DEF StartPoller, PollGoes
<1>5. ASSUME NEW p \in Poller, DrainEvents(p) PROVE PollInv'
  BY <1>5 DEF DrainEvents, PollGoes, Without
<1>6. ASSUME NEW p \in Poller, NEW f \in StateFile, ReadDirty(p, f) PROVE PollInv'
  BY <1>6 DEF ReadDirty
<1>7. ASSUME NEW p \in Poller, AllRead(p) PROVE PollInv'
  BY <1>7 DEF AllRead, PollGoes
<1>8. ASSUME NEW p \in Poller, PickDead(p) PROVE PollInv'
  BY <1>8 DEF PickDead, PollGoes
<1>9. ASSUME NEW p \in Poller, NEW f \in StateFile, PruneFile(p, f) PROVE PollInv'
  BY <1>9 DEF PruneFile, Deleted
<1>10. ASSUME NEW p \in Poller, AllPruned(p) PROVE PollInv'
  BY <1>10 DEF AllPruned, PollGoes
<1>11. CASE UNCHANGED pollVars
  BY <1>11 DEF pollVars
<1> QED
  BY <1>1, <1>2, <1>3, <1>4, <1>5, <1>6, <1>7, <1>8, <1>9, <1>10, <1>11 DEF PollNext

(* The pollers' caches, their events and the files agree at every step.    *)
THEOREM PollInvariance == PollSpec => []PollInv
<1>1. PollInit => PollInv
  BY MaxStateAssumption DEF PollInit, PollInv, PollTypeOK, StateNumber, WritesAreTold, DeletionsAreTold,
         ReturnsAreTold, NothingYet, PickedAreDead, LivePrunedUnseen
<1> QED
  BY <1>1, PollSteps, PTL DEF PollSpec

(* A poller between polls, with no event left, has of every file what the  *)
(* file holds, unless that is a dead session's.                            *)
THEOREM CachesCorrect == PollSpec => []CacheFollowsFiles
<1>1. PollInv => CacheFollowsFiles
  BY DEF PollInv, PollTypeOK, WritesAreTold, DeletionsAreTold, CacheFollowsFiles, Quiet
<1> QED
  BY <1>1, PollInvariance, PTL

(* No prune deletes a live state that its own poll was told of.            *)
THEOREM PruneCorrect == PollSpec => []LivePrunedUnseen
<1>1. PollInv => LivePrunedUnseen
  BY DEF PollInv
<1> QED
  BY <1>1, PollInvariance, PTL

-----------------------------------------------------------------------------
(* StateInference: no change of status is forgotten.                       *)

(* The marks and the statuses of a chunk.                                  *)
LEMMA StatusTypes ==
  ASSUME NEW seen \in Pattern, NEW state \in CommandState
  PROVE  InferStatus(seen, state) \in AgentStatus
BY DEF InferStatus, Pattern, AgentStatus, CommandState

(* A mark leaves a command state and an exit code.                        *)
LEMMA MarkTypes ==
  ASSUME NEW b \in [state : CommandState, exit : ExitCode], NEW mark \in Mark
  PROVE  ApplyMark(b, mark) \in [state : CommandState, exit : ExitCode]
<1>1. mark \in {"D"} \X ExitCode => mark[2] \in ExitCode
  OBVIOUS
<1> QED
  BY <1>1 DEF ApplyMark, CommandState, ExitCode

(* Inferring and writing a status keeps the types.                        *)
LEMMA WriteTypes ==
  ASSUME InferenceTypeOK, NEW seen \in Pattern, NEW state \in CommandState,
         NEW known \in BOOLEAN, NEW touched \in BOOLEAN, NEW works \in BOOLEAN,
         InferAndWrite(seen, state, known, touched, works)
  PROVE  /\ inferred' \in AgentStatus /\ stateJson' \in AgentStatus \cup {NoFile}
         /\ dirty' \in BOOLEAN /\ throttled' \in BOOLEAN /\ spoilt' \in BOOLEAN
<1>1. InferStatus(seen, state) \in AgentStatus
  BY StatusTypes
<1> QED
  BY <1>1 DEF InferenceTypeOK, InferAndWrite

(* infer_and_write: when it leaves nothing to be written, the file has     *)
(* what was inferred, or the write failed, or the agent is not known.      *)
LEMMA WriteFollows ==
  ASSUME InferenceTypeOK, FileFollowsStatus, chunk # "ended",
         NEW seen \in Pattern, NEW state \in CommandState,
         NEW known \in BOOLEAN, NEW touched \in BOOLEAN, NEW works \in BOOLEAN,
         known # agentKnown => touched,
         InferAndWrite(seen, state, known, touched, works),
         known, ~dirty', ~spoilt'
  PROVE  stateJson' = inferred' \/ (stateJson' = NoFile /\ inferred' = "idle")
<1> DEFINE status == InferStatus(seen, state)
           lacks == dirty \/ touched \/ status # inferred
<1>1. inferred' = status /\ ~(lacks /\ throttled)
  BY DEF InferAndWrite
<1>2. CASE lacks
  BY <1>1, <1>2 DEF InferAndWrite
<1>3. CASE ~lacks
  BY <1>1, <1>3 DEF InferAndWrite, FileFollowsStatus
<1> QED
  BY <1>2, <1>3

InferenceInv == InferenceTypeOK /\ FileFollowsStatus

(* Reading OSC 633 marks keeps the invariant of the inference.            *)
LEMMA MarkSteps ==
  ASSUME InferenceInv, NEW first \in Mark, NEW second \in Mark,
         NEW newText \in BOOLEAN, NEW works \in BOOLEAN,
         ReadMarks(first, second, newText, works)
  PROVE  InferenceInv'
<1>1. block' \in [state : CommandState, exit : ExitCode]
  BY MarkTypes DEF InferenceInv, InferenceTypeOK, ReadMarks
<1>2. /\ chunk = "none" /\ chunk' = "read" /\ matched' = matched /\ agentKnown' = agentKnown
  BY DEF ReadMarks
<1>3. CASE block'.state = "none"
  BY <1>1, <1>2, <1>3 DEF ReadMarks, InferenceInv, InferenceTypeOK, FileFollowsStatus
<1>4. CASE block'.state # "none"
  <2> DEFINE touched == Touches(block', newText)
  <2>1. UpdateCommandState(block', newText, works)
    BY <1>4 DEF ReadMarks
  <2>2. touched \in BOOLEAN
    BY DEF Touches
  <2>3. commandState' \in CommandState /\ lastExit' \in ExitCode /\ startedAt' \in BOOLEAN
    BY <1>1, <2>1 DEF UpdateCommandState, InferenceInv, InferenceTypeOK
  <2>4. CASE block'.state # commandState
    <3>1. InferAndWrite(matched, block'.state, agentKnown, touched, works)
      BY <2>1, <2>4 DEF UpdateCommandState
    <3>2. block'.state \in CommandState /\ matched \in Pattern /\ agentKnown \in BOOLEAN
      BY <1>1 DEF InferenceInv, InferenceTypeOK
    <3> HIDE DEF touched
    <3>3. InferenceTypeOK'
      BY <1>1, <1>2, <2>2, <2>3, <3>1, <3>2, WriteTypes DEF InferenceInv, InferenceTypeOK
    <3>4. FileFollowsStatus'
      BY <1>2, <2>2, <3>1, <3>2, WriteFollows DEF InferenceInv, FileFollowsStatus
    <3> QED
      BY <3>3, <3>4 DEF InferenceInv
  <2>5. CASE block'.state = commandState
    <3>1. dirty' = (dirty \/ touched) /\ UNCHANGED <<inferred, stateJson, throttled, spoilt>>
      BY <2>1, <2>5 DEF UpdateCommandState
    <3> HIDE DEF touched
    <3> QED
      BY <1>1, <1>2, <2>2, <2>3, <3>1 DEF InferenceInv, InferenceTypeOK, FileFollowsStatus
  <2> QED
    BY <2>4, <2>5
<1> QED
  BY <1>3, <1>4

(* Feeding it screen bytes does too.                                      *)
LEMMA FeedSteps ==
  ASSUME InferenceInv, NEW seen \in Pattern, NEW shows \in BOOLEAN,
         NEW noted \in BOOLEAN, NEW works \in BOOLEAN,
         FeedBytes(seen, shows, noted, works)
  PROVE  InferenceInv'
<1> DEFINE known == agentKnown \/ shows
           touched == noted \/ known # agentKnown
<1>1. /\ chunk # "ended" /\ chunk' = "none" /\ matched' = seen /\ agentKnown' = known
      /\ InferAndWrite(seen, commandState, known, touched, works)
      /\ UNCHANGED commandVars
  BY DEF FeedBytes
<1>2. known \in BOOLEAN /\ touched \in BOOLEAN /\ (known # agentKnown => touched)
  OBVIOUS
<1>3. InferenceTypeOK /\ FileFollowsStatus /\ commandState \in CommandState
  BY DEF InferenceInv, InferenceTypeOK
<1> HIDE DEF known, touched
<1>4. InferenceTypeOK'
  BY <1>1, <1>2, <1>3, WriteTypes DEF InferenceTypeOK, commandVars
<1>5. FileFollowsStatus'
  BY <1>1, <1>2, <1>3, WriteFollows DEF FileFollowsStatus
<1> QED
  BY <1>4, <1>5 DEF InferenceInv

(* It holds for a new terminal.                                           *)
LEMMA InferenceStarts == InferenceInit => InferenceInv
<1>1. [awaits |-> FALSE, tool |-> NoTool, near |-> FALSE, spinner |-> FALSE] \in Pattern
  BY DEF Pattern
<1>2. InferenceInit => FileFollowsStatus
  BY DEF InferenceInit, FileFollowsStatus
<1>3. InferenceInit => InferenceTypeOK
  <2> SUFFICES ASSUME InferenceInit PROVE InferenceTypeOK
    OBVIOUS
  <2>1. block \in [state : CommandState, exit : ExitCode]
    BY DEF InferenceInit, CommandState, ExitCode
  <2>2. {startedAt, agentKnown, dirty, throttled, spoilt} \subseteq BOOLEAN
    BY DEF InferenceInit
  <2> QED
    BY <1>1, <2>1, <2>2 DEF InferenceInit, InferenceTypeOK, CommandState, ExitCode,
                            AgentStatus, NoFile
<1> QED
  BY <1>2, <1>3 DEF InferenceInv

(* Every step keeps it.                                                   *)
LEMMA InferenceSteps == InferenceInv /\ [InferenceNext]_inferenceVars => InferenceInv'
<1> SUFFICES ASSUME InferenceInv, [InferenceNext]_inferenceVars PROVE InferenceInv'
  OBVIOUS
<1>1. CASE IntervalPasses
  BY <1>1 DEF IntervalPasses, InferenceInv, InferenceTypeOK, FileFollowsStatus, commandVars
<1>2. CASE OutputEnds
  BY <1>2 DEF OutputEnds, InferenceInv, InferenceTypeOK, FileFollowsStatus, commandVars
<1>3. CASE UNCHANGED inferenceVars
  BY <1>3 DEF inferenceVars, InferenceInv, InferenceTypeOK, FileFollowsStatus, commandVars
<1> QED
  BY <1>1, <1>2, <1>3, MarkSteps, FeedSteps DEF InferenceNext

(* A change that the throttle holds back stays flagged until a later chunk *)
(* writes it: with no flag up and no failed write, the file is right.      *)
THEOREM StatusChangesKept == InferenceSpec => []FileFollowsStatus
<1>1. InferenceInv => FileFollowsStatus
  BY DEF InferenceInv
<1> QED
  BY <1>1, InferenceStarts, InferenceSteps, PTL DEF InferenceSpec

-----------------------------------------------------------------------------
(* SystemRoute: the limit holds in every window.                           *)

(* Every nonempty set of numbers has a least one.                          *)
LEMMA LeastNumber ==
  ASSUME NEW T \in SUBSET Nat, T # {}
  PROVE  \E x \in T : \A y \in T : x <= y
<1> DEFINE R == {ss \in Nat \X Nat : ss[1] < ss[2]}
<1>1. IsWellFoundedOn(R, Nat)
  BY NatLessThanWellFounded DEF OpToRel
<1>2. \A x, y \in Nat : <<x, y>> \in R <=> x < y
  OBVIOUS
<1> HIDE DEF R
<1>3. PICK x \in T : \A y \in T : <<y, x>> \notin R
  BY <1>1, WFMin
<1>4. ASSUME NEW y \in T PROVE x <= y
  <2>1. x \in Nat /\ y \in Nat /\ ~ (y < x)
    BY <1>2, <1>3
  <2> QED
    BY <2>1
<1> QED
  BY <1>4

RouteTypes == clock \in Nat /\ timestamps \in Seq(Nat) /\ executed \in Seq(Nat)

(* The eviction ends: at the first timestamp that is not out of the        *)
(* window, or with none left.                                              *)
LEMMA EvictedProperties ==
  ASSUME RouteTypes
  PROVE  /\ Evicted \in 0 .. Len(timestamps)
         /\ \A j \in 1 .. Evicted : OutOfWindow(timestamps[j])
<1> DEFINE n == Len(timestamps)
           Stops(k) == /\ \A j \in 1 .. k : OutOfWindow(timestamps[j])
                       /\ k < n => ~OutOfWindow(timestamps[k + 1])
           T == {i \in 1 .. n : ~OutOfWindow(timestamps[i])}
<1>1. n \in Nat
  BY LenProperties DEF RouteTypes
<1>2. \E k \in 0 .. n : Stops(k)
  <2>1. CASE T = {}
    <3>1. Stops(n)
      BY <1>1, <2>1
    <3> QED
      BY <1>1, <3>1
  <2>2. CASE T # {}
    <3>0. T \in SUBSET Nat
      OBVIOUS
    <3>1. PICK i \in T : \A j \in T : i <= j
      <4> HIDE DEF T
      <4> QED
        BY <2>2, <3>0, LeastNumber
    <3>2. i \in 1 .. n /\ ~OutOfWindow(timestamps[i])
      OBVIOUS
    <3>3. \A j \in 1 .. i - 1 : OutOfWindow(timestamps[j])
      BY <1>1, <3>1
    <3>4. Stops(i - 1) /\ i - 1 \in 0 .. n
      BY <1>1, <3>2, <3>3
    <3> QED
      BY <3>4
  <2> QED
    BY <2>1, <2>2
<1> QED
  BY <1>2 DEF Evicted

(* What the eviction leaves is the end of the list.                       *)
LEMMA RecentProperties ==
  ASSUME RouteTypes
  PROVE  /\ Recent \in Seq(Nat) /\ Len(Recent) = Len(timestamps) - Evicted
         /\ \A i \in 1 .. Len(Recent) : Recent[i] = timestamps[Evicted + i]
         /\ \A T : timestamps \in Seq(T) => Recent \in Seq(T)
<1>1. Len(timestamps) \in Nat /\ Evicted \in 0 .. Len(timestamps)
  BY EvictedProperties, LenProperties DEF RouteTypes
<1>2. ASSUME NEW T, timestamps \in Seq(T)
      PROVE  /\ Recent \in Seq(T) /\ Len(Recent) = Len(timestamps) - Evicted
             /\ \A i \in 1 .. Len(Recent) : Recent[i] = timestamps[Evicted + i]
  <2>1. \A i \in Evicted + 1 .. Len(timestamps) : timestamps[i] \in T
    BY <1>1, <1>2, ElementOfSeq
  <2> HIDE DEF Evicted
  <2>2. /\ Recent \in Seq(T)
        /\ Len(Recent) = IF Evicted + 1 <= Len(timestamps)
                         THEN Len(timestamps) - (Evicted + 1) + 1 ELSE 0
        /\ \A i \in 1 .. Len(timestamps) - (Evicted + 1) + 1 :
             Recent[i] = timestamps[(Evicted + 1) + i - 1]
    BY <1>1, <2>1, SubSeqProperties DEF Recent
  <2> QED
    BY <1>1, <2>2
<1> QED
  BY <1>2 DEF RouteTypes

(* The timestamps are in order, and the last of them stand for the         *)
(* commands executed in the window, each as late as its command or later:  *)
(* a blocked command leaves a timestamp too.                               *)
StampsInOrder ==
  /\ \A i \in 1 .. Len(timestamps) : timestamps[i] <= clock
  /\ \A i, j \in 1 .. Len(timestamps) : i < j => timestamps[i] <= timestamps[j]

StoodFor(i) ==
  \E j \in 1 .. Len(timestamps) :
    /\ Len(timestamps) - j = Len(executed) - i
    /\ executed[i] <= timestamps[j]

RouteInv ==
  /\ RouteTypes /\ StampsInOrder
  /\ \A i \in 1 .. Len(executed) : executed[i] <= clock
  /\ \A i \in 1 .. Len(executed) : clock - executed[i] <= RateWindow => StoodFor(i)
  /\ RateIsBounded

(* What is still in the window is not evicted.                             *)
LEMMA RecentStands ==
  ASSUME RouteInv, NEW i \in 1 .. Len(executed), clock - executed[i] <= RateWindow
  PROVE  \E j \in 1 .. Len(Recent) :
           /\ Len(Recent) - j = Len(executed) - i
           /\ executed[i] <= Recent[j]
<1>1. PICK j \in 1 .. Len(timestamps) :
        /\ Len(timestamps) - j = Len(executed) - i
        /\ executed[i] <= timestamps[j]
  BY DEF RouteInv, StoodFor
<1>2. /\ Len(timestamps) \in Nat /\ Len(executed) \in Nat /\ clock \in Nat
      /\ executed[i] \in Nat /\ timestamps[j] \in Nat
  BY LenProperties, ElementOfSeq DEF RouteInv, RouteTypes
<1>3. ~OutOfWindow(timestamps[j])
  BY <1>1, <1>2, RateAssumption DEF OutOfWindow
<1>4. Evicted \in 0 .. Len(timestamps) /\ Evicted < j
  BY <1>2, <1>3, EvictedProperties DEF RouteInv
<1>5. /\ Len(Recent) = Len(timestamps) - Evicted
      /\ \A m \in 1 .. Len(Recent) : Recent[m] = timestamps[Evicted + m]
  BY RecentProperties DEF RouteInv
<1> HIDE DEF Evicted, Recent
<1>6. j - Evicted \in 1 .. Len(Recent) /\ Evicted + (j - Evicted) = j
  BY <1>2, <1>4, <1>5
<1>7. Recent[j - Evicted] = timestamps[j] /\ Len(Recent) - (j - Evicted) = Len(executed) - i
  BY <1>1, <1>2, <1>4, <1>5, <1>6
<1> QED
  BY <1>1, <1>6, <1>7

(* It is in the order of time and not in the future.                      *)
LEMMA RecentInOrder ==
  ASSUME RouteInv
  PROVE  /\ \A i \in 1 .. Len(Recent) : Recent[i] \in Nat /\ Recent[i] <= clock
         /\ \A i, j \in 1 .. Len(Recent) : i < j => Recent[i] <= Recent[j]
<1>1. /\ Len(Recent) = Len(timestamps) - Evicted
      /\ \A m \in 1 .. Len(Recent) : Recent[m] = timestamps[Evicted + m]
      /\ Evicted \in 0 .. Len(timestamps) /\ Len(timestamps) \in Nat
  BY EvictedProperties, RecentProperties, LenProperties DEF RouteInv, RouteTypes
<1> HIDE DEF Evicted, Recent
<1>2. \A m \in 1 .. Len(Recent) : Evicted + m \in 1 .. Len(timestamps)
  BY <1>1
<1>3. \A m \in 1 .. Len(timestamps) : timestamps[m] \in Nat
  BY ElementOfSeq DEF RouteInv, RouteTypes
<1>4. /\ \A m \in 1 .. Len(timestamps) : timestamps[m] <= clock
      /\ \A m, n \in 1 .. Len(timestamps) : m < n => timestamps[m] <= timestamps[n]
  BY DEF RouteInv, StampsInOrder
<1>5. \A i, j \in 1 .. Len(Recent) : i < j => Evicted + i < Evicted + j
  BY <1>1
<1> QED
  BY <1>1, <1>2, <1>3, <1>4, <1>5

(* A command that goes to the system keeps the invariant of the limit.    *)
LEMMA DispatchSteps ==
  ASSUME RouteInv, NEW by, NEW tool, NEW tier, DispatchSystem(by, tool, tier)
  PROVE  RouteInv'
<1>0. Recent \in Seq(Nat) /\ executed \in Seq(Nat)
  BY RecentProperties DEF RouteInv, RouteTypes
<1>1. /\ Len(Recent) \in Nat /\ Len(executed) \in Nat /\ clock \in Nat
      /\ \A i \in 1 .. Len(executed) : executed[i] \in Nat /\ executed[i] <= clock
  BY <1>0, LenProperties, ElementOfSeq DEF RouteInv, RouteTypes
<1>2. /\ \A i \in 1 .. Len(Recent) : Recent[i] \in Nat /\ Recent[i] <= clock
      /\ \A i, j \in 1 .. Len(Recent) : i < j => Recent[i] <= Recent[j]
  BY RecentInOrder
<1>3. /\ clock' = clock /\ timestamps' = Append(Recent, clock) /\ Len(Recent) < RateMax
      /\ executed' = executed \/ executed' = Append(executed, clock)
  BY DEF DispatchSystem
<1>4. \A i \in 1 .. Len(executed) : clock - executed[i] <= RateWindow =>
        \E j \in 1 .. Len(Recent) :
          /\ Len(Recent) - j = Len(executed) - i
          /\ executed[i] <= Recent[j]
  BY RecentStands
<1> HIDE DEF Recent
<1>5. /\ Len(timestamps') = Len(Recent) + 1
      /\ \A i \in 1 .. Len(Recent) : timestamps'[i] = Recent[i]
      /\ timestamps'[Len(Recent) + 1] = clock
  BY <1>0, <1>1, <1>3, AppendProperties
<1>6. StampsInOrder' /\ RouteTypes'
  <2>1. StampsInOrder'
    BY <1>1, <1>2, <1>3, <1>5 DEF StampsInOrder
  <2>2. timestamps' \in Seq(Nat)
    BY <1>0, <1>1, <1>3, AppendProperties
  <2>3. Append(executed, clock) \in Seq(Nat)
    BY <1>0, <1>1, AppendProperties
  <2> QED
    BY <1>0, <1>1, <1>3, <2>1, <2>2, <2>3 DEF RouteTypes
<1>7. CASE executed' = executed
  <2>1. ASSUME NEW i \in 1 .. Len(executed), clock - executed[i] <= RateWindow
        PROVE  StoodFor(i)'
    <3>1. PICK j \in 1 .. Len(Recent) :
            /\ Len(Recent) - j = Len(executed) - i
            /\ executed[i] <= Recent[j]
      BY <1>4, <2>1
    <3>2. j + 1 \in 1 .. Len(timestamps') /\ Len(timestamps') - (j + 1) = Len(executed) - i
      <4>1. Len(Recent) \in Nat /\ Len(executed) \in Nat /\ Len(timestamps') = Len(Recent) + 1
        BY <1>1, <1>5
      <4>2. Len(Recent) - j = Len(executed) - i
        BY <3>1
      <4> QED
        BY <4>1, <4>2
    <3>3. executed[i] <= timestamps'[j + 1]
      <4>1. CASE j = Len(Recent)
        BY <1>1, <1>5, <4>1
      <4>2. CASE j < Len(Recent)
        <5>1. Recent[j] <= Recent[j + 1] /\ timestamps'[j + 1] = Recent[j + 1] /\ j + 1 \in 1 .. Len(Recent)
          BY <1>1, <1>2, <1>5, <4>2
        <5> QED
          BY <1>1, <1>2, <3>1, <5>1
      <4> QED
        BY <1>1, <4>1, <4>2
    <3> QED
      BY <1>7, <3>2, <3>3 DEF StoodFor
  <2> QED
    BY <1>3, <1>6, <1>7, <2>1 DEF RouteInv, RateIsBounded
<1>8. CASE executed' = Append(executed, clock)
  <2>1. /\ Len(executed') = Len(executed) + 1
        /\ \A i \in 1 .. Len(executed) : executed'[i] = executed[i]
        /\ executed'[Len(executed) + 1] = clock
    BY <1>0, <1>1, <1>8, AppendProperties
  <2>2. ASSUME NEW i \in 1 .. Len(executed'), clock - executed'[i] <= RateWindow
        PROVE  StoodFor(i)'
    <3>1. CASE i = Len(executed) + 1
      <4>1. /\ Len(Recent) + 1 \in 1 .. Len(timestamps')
            /\ Len(timestamps') - (Len(Recent) + 1) = Len(executed') - i
            /\ executed'[i] <= timestamps'[Len(Recent) + 1]
        BY <1>1, <1>5, <2>1, <3>1
      <4> QED
        BY <4>1 DEF StoodFor
    <3>2. CASE i \in 1 .. Len(executed)
      <4>1. PICK j \in 1 .. Len(Recent) :
              /\ Len(Recent) - j = Len(executed) - i
              /\ executed[i] <= Recent[j]
        BY <1>4, <2>1, <2>2, <3>2
      <4>2. j \in 1 .. Len(timestamps') /\ executed'[i] = executed[i] /\ timestamps'[j] = Recent[j]
        <5>1. Len(Recent) \in Nat /\ Len(timestamps') = Len(Recent) + 1
          BY <1>1, <1>5
        <5>2. j \in 1 .. Len(timestamps')
          BY <5>1
        <5> QED
          BY <1>5, <2>1, <3>2, <5>2
      <4>3. Len(timestamps') - j = Len(executed') - i
        <5>1. /\ Len(Recent) \in Nat /\ Len(executed) \in Nat
              /\ Len(timestamps') = Len(Recent) + 1 /\ Len(executed') = Len(executed) + 1
          BY <1>1, <1>5, <2>1
        <5>2. Len(Recent) - j = Len(executed) - i
          BY <4>1
        <5> QED
          BY <3>2, <5>1, <5>2
      <4> QED
        BY <4>1, <4>2, <4>3 DEF StoodFor
    <3> QED
      BY <1>1, <2>1, <3>1, <3>2
  <2>3. RateIsBounded'
    <3> SUFFICES ASSUME NEW i \in 1 .. Len(executed'), i + RateMax <= Len(executed')
                 PROVE  executed'[i + RateMax] - executed'[i] > RateWindow
      BY DEF RateIsBounded
    <3>0. i \in 1 .. Len(executed) /\ RateMax \in Nat \ {0} /\ RateWindow \in Nat
      BY <1>1, <2>1, RateAssumption
    <3>1. CASE i + RateMax <= Len(executed)
      <4>1. executed[i + RateMax] - executed[i] > RateWindow /\ i + RateMax \in 1 .. Len(executed)
        BY <1>1, <3>0, <3>1 DEF RouteInv, RateIsBounded
      <4> QED
        BY <2>1, <3>0, <4>1
    <3>2. CASE i + RateMax = Len(executed) + 1
      <4>1. ~(clock - executed[i] <= RateWindow)
        <5>1. SUFFICES ASSUME clock - executed[i] <= RateWindow PROVE FALSE
          OBVIOUS
        <5>2. PICK j \in 1 .. Len(Recent) : Len(Recent) - j = Len(executed) - i
          BY <1>4, <3>0, <5>1
        <5> QED
          BY <1>1, <1>3, <3>0, <3>2, <5>2
      <4> QED
        BY <1>1, <2>1, <3>0, <3>2, <4>1
    <3> QED
      BY <1>1, <2>1, <3>0, <3>1, <3>2
  <2>4. \A i \in 1 .. Len(executed') : executed'[i] <= clock
    BY <1>1, <2>1
  <2> QED
    BY <1>3, <1>6, <2>2, <2>3, <2>4 DEF RouteInv
<1> QED
  BY <1>3, <1>7, <1>8

(* A refused one does too.                                                *)
LEMMA RefuseSteps ==
  ASSUME RouteInv, NEW by, NEW tool, RefuseCommand(by, tool)
  PROVE  RouteInv'
<1>1. clock' = clock /\ executed' = executed /\ timestamps' \in {timestamps, Recent}
  BY DEF RefuseCommand
<1>2. CASE timestamps' = timestamps
  BY <1>1, <1>2 DEF RouteInv, RouteTypes, StampsInOrder, StoodFor, RateIsBounded
<1>3. CASE timestamps' = Recent
  <2>1. Recent \in Seq(Nat)
    BY RecentProperties DEF RouteInv
  <2>2. StampsInOrder'
    BY <1>1, <1>3, RecentInOrder DEF StampsInOrder
  <2>3. \A i \in 1 .. Len(executed') : clock' - executed'[i] <= RateWindow => StoodFor(i)'
    BY <1>1, <1>3, RecentStands DEF StoodFor
  <2> QED
    BY <1>1, <1>3, <2>1, <2>2, <2>3 DEF RouteInv, RouteTypes, RateIsBounded
<1> QED
  BY <1>1, <1>2, <1>3

(* So does the passing of time.                                           *)
LEMMA TimeSteps == RouteInv /\ TimePasses => RouteInv'
<1> SUFFICES ASSUME RouteInv, TimePasses PROVE RouteInv'
  OBVIOUS
<1>1. clock \in Nat /\ clock' = clock + 1 /\ timestamps' = timestamps /\ executed' = executed
  BY DEF TimePasses, RouteInv, RouteTypes
<1>2. /\ \A i \in 1 .. Len(timestamps) : timestamps[i] \in Nat
      /\ \A i \in 1 .. Len(executed) : executed[i] \in Nat
  BY ElementOfSeq DEF RouteInv, RouteTypes
<1>3. StampsInOrder'
  BY <1>1, <1>2 DEF RouteInv, StampsInOrder
<1>4. \A i \in 1 .. Len(executed) : clock' - executed[i] <= RateWindow =>
        clock - executed[i] <= RateWindow
  BY <1>1, <1>2, RateAssumption
<1>5. \A i \in 1 .. Len(executed) : StoodFor(i) => StoodFor(i)'
  BY <1>1 DEF StoodFor
<1>6. \A i \in 1 .. Len(executed) : executed[i] <= clock'
  BY <1>1, <1>2 DEF RouteInv
<1> QED
  BY <1>1, <1>3, <1>4, <1>5, <1>6 DEF RouteInv, RouteTypes, RateIsBounded

(* It holds before the first command.                                     *)
LEMMA RouteStarts == RouteInit => RouteInv
BY EmptySeq DEF RouteInit, RouteInv, RouteTypes, StampsInOrder, RateIsBounded

(* Every step keeps it.                                                   *)
LEMMA RouteSteps == RouteInv /\ [RouteNext]_routeVars => RouteInv'
<1> SUFFICES ASSUME RouteInv, [RouteNext]_routeVars PROVE RouteInv'
  OBVIOUS
<1>1. CASE UNCHANGED routeVars
  BY <1>1 DEF routeVars, RouteInv, RouteTypes, StampsInOrder, StoodFor, RateIsBounded
<1> QED
  BY <1>1, TimeSteps, DispatchSteps, RefuseSteps DEF RouteNext

(* Between any command that reaches the commander and the RateMax-th after *)
(* it there is more than a window, whatever was blocked, refused or        *)
(* evicted in between.                                                     *)
THEOREM RateBounded == RouteSpec => []RateIsBounded
<1>1. RouteInv => RateIsBounded
  BY DEF RouteInv
<1> QED
  BY <1>1, RouteStarts, RouteSteps, PTL DEF RouteSpec

-----------------------------------------------------------------------------
(* MessageLog: numbers increase as long as one process has the log open.   *)

Below(s, n) == \A i \in 1 .. Len(s) : s[i] <= n

(* A file and what is buffered for it, and the number given out last.      *)
Chain(s, t, n) ==
  /\ Increasing(s) /\ Increasing(t) /\ Below(s, n) /\ Below(t, n)
  /\ \A i \in 1 .. Len(s), j \in 1 .. Len(t) : s[i] < t[j]

(* A sequence of numbers, by its elements.                                *)
LEMMA NumberTypes ==
  ASSUME NEW s \in Seq(Nat)
  PROVE  Len(s) \in Nat /\ \A i \in 1 .. Len(s) : s[i] \in Nat
BY LenProperties, ElementOfSeq

(* What is buffered goes behind the file.                                  *)
LEMMA ChainFlushed ==
  ASSUME NEW s \in Seq(Nat), NEW t \in Seq(Nat), NEW n \in Nat, Chain(s, t, n)
  PROVE  Chain(s \o t, <<>>, n)
<1> DEFINE u == s \o t
<1>1. /\ Len(s) \in Nat /\ Len(t) \in Nat
      /\ Len(u) = Len(s) + Len(t)
      /\ \A i \in 1 .. Len(s) + Len(t) :
           u[i] = IF i <= Len(s) THEN s[i] ELSE t[i - Len(s)]
  BY LenProperties, ConcatProperties
<1>2. /\ \A i \in 1 .. Len(s) : s[i] \in Nat
      /\ \A i \in 1 .. Len(t) : t[i] \in Nat
  BY NumberTypes
<1> HIDE DEF u
<1>3. ASSUME NEW i \in 1 .. Len(u)
      PROVE  \/ i \in 1 .. Len(s) /\ u[i] = s[i]
             \/ i - Len(s) \in 1 .. Len(t) /\ u[i] = t[i - Len(s)] /\ i > Len(s)
  BY <1>1
<1>4. Below(u, n)
  BY <1>3 DEF Chain, Below
<1>5. ASSUME NEW i \in 1 .. Len(u), NEW j \in 1 .. Len(u), i < j PROVE u[i] < u[j]
  <2>1. CASE j \in 1 .. Len(s) /\ u[j] = s[j]
    <3>1. i \in 1 .. Len(s) /\ u[i] = s[i]
      BY <1>1, <1>5, <2>1
    <3> QED
      BY <1>5, <2>1, <3>1 DEF Chain, Increasing
  <2>2. CASE j - Len(s) \in 1 .. Len(t) /\ u[j] = t[j - Len(s)]
    <3>1. CASE i \in 1 .. Len(s) /\ u[i] = s[i]
      BY <2>2, <3>1 DEF Chain
    <3>2. CASE i - Len(s) \in 1 .. Len(t) /\ u[i] = t[i - Len(s)]
      <4>1. i - Len(s) < j - Len(s)
        BY <1>1, <1>5
      <4> QED
        BY <2>2, <3>2, <4>1 DEF Chain, Increasing
    <3> QED
      BY <1>3, <3>1, <3>2
  <2> QED
    BY <1>3, <2>1, <2>2
<1>6. Increasing(u)
  BY <1>5 DEF Increasing
<1>7. Len(<<>>) = 0
  BY EmptySeq
<1>8. Increasing(<<>>) /\ Below(<<>>, n) /\ \A i \in 1 .. Len(u), j \in 1 .. Len(<<>>) : u[i] < <<>>[j]
  BY <1>7 DEF Increasing, Below
<1>9. Chain(u, <<>>, n)
  BY <1>4, <1>6, <1>8 DEF Chain
<1> QED
  BY <1>9 DEF u

(* The next number goes to the end of a sequence that it is above.         *)
LEMMA IncreasingAppend ==
  ASSUME NEW s \in Seq(Nat), NEW n \in Nat, Increasing(s), Below(s, n)
  PROVE  Increasing(Append(s, n + 1)) /\ Below(Append(s, n + 1), n + 1)
<1> DEFINE u == Append(s, n + 1)
<1>1. /\ Len(s) \in Nat /\ Len(u) = Len(s) + 1
      /\ \A i \in 1 .. Len(s) : u[i] = s[i]
      /\ u[Len(s) + 1] = n + 1
  BY LenProperties, AppendProperties
<1>2. \A i \in 1 .. Len(s) : s[i] \in Nat /\ s[i] <= n
  BY NumberTypes DEF Below
<1> HIDE DEF u
<1>3. ASSUME NEW i \in 1 .. Len(u)
      PROVE  (i \in 1 .. Len(s) /\ u[i] = s[i]) \/ (i = Len(s) + 1 /\ u[i] = n + 1)
  BY <1>1
<1>4. Below(u, n + 1)
  BY <1>2, <1>3 DEF Below
<1>5. ASSUME NEW i \in 1 .. Len(u), NEW j \in 1 .. Len(u), i < j PROVE u[i] < u[j]
  <2>1. i \in 1 .. Len(s) /\ u[i] = s[i]
    BY <1>1, <1>5
  <2>2. CASE j \in 1 .. Len(s) /\ u[j] = s[j]
    BY <1>5, <2>1, <2>2 DEF Increasing
  <2>3. CASE u[j] = n + 1
    BY <1>2, <2>1, <2>3
  <2> QED
    BY <1>3, <2>2, <2>3
<1> QED
  BY <1>4, <1>5 DEF Increasing, u

(* The number that follows extends a chain by one.                        *)
LEMMA ChainAppended ==
  ASSUME NEW s \in Seq(Nat), NEW t \in Seq(Nat), NEW n \in Nat, Chain(s, t, n)
  PROVE  Chain(s, Append(t, n + 1), n + 1)
<1>1. Increasing(Append(t, n + 1)) /\ Below(Append(t, n + 1), n + 1)
  BY IncreasingAppend DEF Chain
<1>2. /\ Len(t) \in Nat /\ Len(Append(t, n + 1)) = Len(t) + 1
      /\ \A i \in 1 .. Len(t) : Append(t, n + 1)[i] = t[i]
      /\ Append(t, n + 1)[Len(t) + 1] = n + 1
  BY LenProperties, AppendProperties
<1>3. \A i \in 1 .. Len(s) : s[i] \in Nat /\ s[i] <= n
  BY NumberTypes DEF Chain, Below
<1>4. ASSUME NEW i \in 1 .. Len(s), NEW j \in 1 .. Len(Append(t, n + 1))
      PROVE  s[i] < Append(t, n + 1)[j]
  <2>1. CASE j \in 1 .. Len(t)
    BY <1>2, <2>1 DEF Chain
  <2>2. CASE j = Len(t) + 1
    BY <1>2, <1>3, <2>2
  <2>3. j \in 1 .. Len(t) \/ j = Len(t) + 1
    BY <1>2, <1>4
  <2> QED
    BY <2>1, <2>2, <2>3
<1>5. Below(s, n + 1)
  BY <1>3 DEF Below
<1> QED
  BY <1>1, <1>4, <1>5 DEF Chain

(* Nothing written yet is a chain.                                        *)
LEMMA ChainOfNothing == ASSUME NEW n \in Nat PROVE Chain(<<>>, <<>>, n)
<1>1. Len(<<>>) = 0
  BY EmptySeq
<1> QED
  BY <1>1 DEF Chain, Increasing, Below

(* The last RingCap entries, in their order.                               *)
LEMMA LastOnesProperties ==
  ASSUME NEW S, NEW s \in Seq(S)
  PROVE  \E k \in Nat :
           /\ LastOnes(s) \in Seq(S) /\ Len(s) = Len(LastOnes(s)) + k
           /\ \A i \in 1 .. Len(LastOnes(s)) : LastOnes(s)[i] = s[i + k]
           /\ Len(LastOnes(s)) \in Nat
           /\ Len(s) # 0 => Len(LastOnes(s)) # 0
<1> DEFINE k == IF Len(s) > RingCap THEN Len(s) - RingCap ELSE 0
<1>1. Len(s) \in Nat /\ RingCap \in Nat \ {0}
  BY LenProperties, LogAssumption
<1>2. k \in Nat /\ k <= Len(s) /\ (Len(s) # 0 => k # Len(s))
  BY <1>1
<1>3. LastOnes(s) = SubSeq(s, k + 1, Len(s))
  BY DEF LastOnes
<1> HIDE DEF k
<1>4. \A i \in k + 1 .. Len(s) : s[i] \in S
  BY <1>1, <1>2, ElementOfSeq
<1>5. /\ LastOnes(s) \in Seq(S)
      /\ Len(LastOnes(s)) = IF k + 1 <= Len(s) THEN Len(s) - (k + 1) + 1 ELSE 0
      /\ \A i \in 1 .. Len(s) - (k + 1) + 1 : LastOnes(s)[i] = s[(k + 1) + i - 1]
  BY <1>1, <1>2, <1>3, <1>4, SubSeqProperties
<1>6. Len(LastOnes(s)) = Len(s) - k
  BY <1>1, <1>2, <1>5
<1>7. \A i \in 1 .. Len(LastOnes(s)) : LastOnes(s)[i] = s[i + k]
  BY <1>1, <1>2, <1>5, <1>6
<1> QED
  BY <1>1, <1>2, <1>5, <1>6, <1>7

(* The last numbers of an increasing list increase.                       *)
LEMMA LastOnesIncrease ==
  ASSUME NEW s \in Seq(Nat), NEW n \in Nat, Increasing(s), Below(s, n)
  PROVE  Increasing(LastOnes(s)) /\ Below(LastOnes(s), n)
<1>1. PICK k \in Nat :
        /\ LastOnes(s) \in Seq(Nat) /\ Len(s) = Len(LastOnes(s)) + k
        /\ \A i \in 1 .. Len(LastOnes(s)) : LastOnes(s)[i] = s[i + k]
        /\ Len(LastOnes(s)) \in Nat
        /\ Len(s) # 0 => Len(LastOnes(s)) # 0
  BY LastOnesProperties
<1> DEFINE u == LastOnes(s)
<1> HIDE DEF u
<1>2. \A i \in 1 .. Len(u) : i + k \in 1 .. Len(s) /\ u[i] = s[i + k]
  BY <1>1 DEF u
<1>3. Below(u, n)
  BY <1>2 DEF Below
<1>4. ASSUME NEW i \in 1 .. Len(u), NEW j \in 1 .. Len(u), i < j PROVE u[i] < u[j]
  <2>1. i + k < j + k
    BY <1>1, <1>4 DEF u
  <2> QED
    BY <1>2, <2>1 DEF Increasing
<1> QED
  BY <1>3, <1>4 DEF u, Increasing

(* The numbering goes on from the last entry, which is the greatest.       *)
LEMMA StartSeqProperties ==
  ASSUME NEW s \in Seq(Nat)
  PROVE  /\ StartSeq(LastOnes(s)) \in Nat
         /\ Increasing(s) => Below(s, StartSeq(LastOnes(s)))
         /\ \A n \in Nat : Below(s, n) => StartSeq(LastOnes(s)) <= n
<1>1. PICK k \in Nat :
        /\ LastOnes(s) \in Seq(Nat) /\ Len(s) = Len(LastOnes(s)) + k
        /\ \A i \in 1 .. Len(LastOnes(s)) : LastOnes(s)[i] = s[i + k]
        /\ Len(LastOnes(s)) \in Nat
        /\ Len(s) # 0 => Len(LastOnes(s)) # 0
  BY LastOnesProperties
<1>2. \A i \in 1 .. Len(s) : s[i] \in Nat
  BY NumberTypes
<1>3. CASE Len(s) = 0
  <2>0. Len(LastOnes(s)) = 0
    <3>1. Len(LastOnes(s)) \in Nat /\ k \in Nat /\ Len(s) = Len(LastOnes(s)) + k
      BY <1>1
    <3> QED
      BY <1>3, <3>1
  <2>1. LastOnes(s) = <<>>
    BY <1>1, <2>0, EmptySeq
  <2> QED
    BY <1>3, <2>1 DEF StartSeq, Below
<1>4. CASE Len(s) # 0
  <2>1. Len(LastOnes(s)) \in 1 .. Len(LastOnes(s)) /\ LastOnes(s) # <<>>
    BY <1>1, <1>4, EmptySeq
  <2>2. StartSeq(LastOnes(s)) = s[Len(s)]
    BY <1>1, <2>1 DEF StartSeq, Last
  <2>3. Len(s) \in Nat \ {0}
    BY <1>4, LenProperties
  <2>4. Len(s) \in 1 .. Len(s)
    BY <2>3
  <2>5. Increasing(s) => \A i \in 1 .. Len(s) : s[i] <= s[Len(s)]
    BY <1>2, <2>3, <2>4 DEF Increasing
  <2> QED
    BY <1>2, <2>2, <2>4, <2>5 DEF Below
<1> QED
  BY <1>3, <1>4


(* A log of whole files, and a writer of one of them with what it holds.   *)
WritesTo(f, i, t, N) ==
  f \in Seq(Seq(1 .. N)) /\ i \in 1 .. Len(f) /\ t \in Seq(1 .. N)

(* The writer is at the end of the log, and the log is in order.           *)
Ordered(f, i, t, n) ==
  /\ i = Len(f) /\ \A j \in 1 .. Len(f) : Increasing(f[j])
  /\ Chain(f[Len(f)], t, n)

(* A file of the first N numbers is one of the first N + 1.               *)
LEMMA MoreNumbers ==
  ASSUME NEW N \in Nat
  PROVE  /\ \A s \in Seq(1 .. N) : s \in Seq(1 .. N + 1) /\ s \in Seq(Nat)
         /\ \A f \in Seq(Seq(1 .. N)) : f \in Seq(Seq(1 .. N + 1))
<1>1. 1 .. N \subseteq 1 .. N + 1 /\ 1 .. N \subseteq Nat
  OBVIOUS
<1>2. \A s \in Seq(1 .. N) : s \in Seq(1 .. N + 1) /\ s \in Seq(Nat)
  BY <1>1, SeqMonotonic
<1>3. Seq(1 .. N) \subseteq Seq(1 .. N + 1)
  BY <1>2
<1> QED
  BY <1>2, <1>3, SeqMonotonic

(* A flush puts the buffer at the end of the file of the writer.          *)
LEMMA FlushProperties ==
  ASSUME NEW N \in Nat, NEW f, NEW w, WritesTo(f, w.file, w.buffered, N)
  PROVE  /\ WritesTo(Flushed(w, f), w.file, <<>>, N)
         /\ Len(Flushed(w, f)) = Len(f)
         /\ \A n \in Nat : Ordered(f, w.file, w.buffered, n) =>
              Ordered(Flushed(w, f), w.file, <<>>, n)
<1> DEFINE i == w.file
           t == w.buffered
           g == [f EXCEPT ![i] = f[i] \o t]
<1>1. Flushed(w, f) = g
  BY DEF Flushed
<1>2. f \in Seq(Seq(1 .. N)) /\ i \in 1 .. Len(f) /\ t \in Seq(1 .. N)
  BY DEF WritesTo
<1> HIDE DEF i, t
<1>3. f[i] \in Seq(1 .. N)
  BY <1>2, ElementOfSeq
<1>4. f[i] \o t \in Seq(1 .. N)
  BY <1>2, <1>3, ConcatProperties
<1>5. /\ g \in Seq(Seq(1 .. N)) /\ Len(g) = Len(f)
      /\ \A j \in 1 .. Len(f) : g[j] = IF j = i THEN f[i] \o t ELSE f[j]
  BY <1>2, <1>4, ExceptSeq
<1> HIDE DEF g
<1>6. ASSUME NEW n \in Nat, Ordered(f, i, t, n)
      PROVE  Ordered(g, i, <<>>, n)
  <2>1. i = Len(f) /\ Chain(f[i], t, n)
    BY <1>6 DEF Ordered
  <2>2. Chain(f[i] \o t, <<>>, n)
    BY <1>2, <1>3, <2>1, MoreNumbers, ChainFlushed
  <2>3. Increasing(f[i] \o t)
    BY <2>2 DEF Chain
  <2> QED
    BY <1>2, <1>5, <1>6, <2>1, <2>2, <2>3 DEF Ordered
<1>7. <<>> \in Seq(1 .. N)
  BY EmptySeq
<1> QED
  BY <1>1, <1>2, <1>5, <1>6, <1>7 DEF WritesTo, i, t

(* A rotation starts a new, empty file.                                   *)
LEMMA RotateProperties ==
  ASSUME NEW N \in Nat, NEW f \in Seq(Seq(1 .. N)), NEW g, g = f \o << <<>> >>
  PROVE  /\ WritesTo(g, Len(f) + 1, <<>>, N) /\ Len(g) = Len(f) + 1
         /\ \A n \in Nat : Ordered(f, Len(f), <<>>, n) => Ordered(g, Len(f) + 1, <<>>, n)
<1>1. <<>> \in Seq(1 .. N)
  BY EmptySeq
<1>2. g = Append(f, <<>>)
  BY <1>1, AppendIsConcat
<1>3. /\ g \in Seq(Seq(1 .. N)) /\ Len(g) = Len(f) + 1 /\ Len(f) \in Nat
      /\ \A j \in 1 .. Len(f) : g[j] = f[j]
      /\ g[Len(f) + 1] = <<>>
  BY <1>1, <1>2, AppendProperties, LenProperties
<1>4. ASSUME NEW n \in Nat, Ordered(f, Len(f), <<>>, n)
      PROVE  Ordered(g, Len(f) + 1, <<>>, n)
  <2>1. Chain(<<>>, <<>>, n) /\ Increasing(<<>>)
    BY ChainOfNothing DEF Chain
  <2>2. \A j \in 1 .. Len(g) : j \in 1 .. Len(f) \/ j = Len(f) + 1
    BY <1>3
  <2>3. \A j \in 1 .. Len(g) : Increasing(g[j])
    BY <1>3, <1>4, <2>1, <2>2 DEF Ordered
  <2> QED
    BY <1>3, <2>1, <2>3 DEF Ordered
<1> QED
  BY <1>1, <1>3, <1>4 DEF WritesTo

(* A line goes to the end of the buffer.                                  *)
LEMMA LineProperties ==
  ASSUME NEW N \in Nat, NEW n \in 0 .. N, NEW f, NEW i, NEW t, WritesTo(f, i, t, N)
  PROVE  /\ WritesTo(f, i, Append(t, n + 1), N + 1)
         /\ Ordered(f, i, t, n) => Ordered(f, i, Append(t, n + 1), n + 1)
<1>1. t \in Seq(1 .. N + 1) /\ f \in Seq(Seq(1 .. N + 1)) /\ n + 1 \in 1 .. N + 1
  BY MoreNumbers DEF WritesTo
<1>2. WritesTo(f, i, Append(t, n + 1), N + 1)
  BY <1>1, AppendProperties DEF WritesTo
<1>3. ASSUME Ordered(f, i, t, n)
      PROVE  Ordered(f, i, Append(t, n + 1), n + 1)
  <2>1. f[Len(f)] \in Seq(1 .. N)
    BY <1>3, ElementOfSeq DEF Ordered, WritesTo
  <2>2. f[Len(f)] \in Seq(Nat) /\ t \in Seq(Nat)
    BY <2>1, MoreNumbers DEF WritesTo
  <2> QED
    BY <1>3, <2>2, ChainAppended DEF Ordered
<1> QED
  BY <1>2, <1>3

LogHolds ==
  /\ files \in Seq(Seq(1 .. sentCount)) /\ Len(files) <= sentCount + 1 /\ files # <<>>
  /\ \A p \in Tui :
       /\ WritesTo(files, writer[p].file, writer[p].buffered, sentCount)
       /\ lastSeq[p] <= sentCount

(* As long as no two processes had the log open at once, the one that has  *)
(* it open writes its last file, what it has buffered goes on from there,  *)
(* and it has given out no greater number.                                 *)
LogOrdered ==
  ~overlapped =>
    /\ \A p, q \in Tui : tui[p] # "off" /\ tui[q] # "off" => p = q
    /\ \A i \in 1 .. Len(files) : Increasing(files[i])
    /\ \A p \in Tui : Increasing(ring[p]) /\ Below(ring[p], lastSeq[p])
    /\ \A p \in Tui : tui[p] # "off" =>
         Ordered(files, writer[p].file, writer[p].buffered, lastSeq[p])

LogInv == LogTypeOK /\ LogHolds /\ LogOrdered

(* One line, with its flush and its rotation.                              *)
LEMMA LineSteps ==
  ASSUME LogInv, NEW p \in Tui, NEW early \in BOOLEAN,
         AppendLine(p, lastSeq[p] + 1, early)
  PROVE  \E w \in [file : Nat, buffered : Seq(1 .. sentCount + 1),
                   lineCount : Nat, sinceFlush : 0 .. FlushInterval] :
           /\ writer' = [writer EXCEPT ![p] = w]
           /\ WritesTo(files', w.file, w.buffered, sentCount + 1)
           /\ Len(files') >= Len(files) /\ Len(files') <= Len(files) + 1
           /\ Ordered(files, writer[p].file, writer[p].buffered, lastSeq[p])
                => Ordered(files', w.file, w.buffered, lastSeq[p] + 1)
<1> DEFINE N == sentCount
           n == lastSeq[p]
           old == writer[p]
           kept == IF early THEN <<>> ELSE old.buffered
           w == [file |-> old.file, buffered |-> Append(kept, n + 1),
                 lineCount |-> old.lineCount + 1, sinceFlush |-> old.sinceFlush + 1]
           wrote == IF early THEN Flushed(old, files) ELSE files
           flushes == w.sinceFlush >= FlushInterval
           rotates == w.lineCount >= MaxLines
           Before == Ordered(files, old.file, old.buffered, n)
<1>1. /\ N \in Nat /\ n \in 0 .. N /\ WritesTo(files, old.file, old.buffered, N)
      /\ old \in Writer /\ FlushInterval \in Nat \ {0} /\ MaxLines \in Nat \ {0}
  BY LogAssumption DEF LogInv, LogTypeOK, LogHolds
<1>2. /\ WritesTo(wrote, old.file, kept, N) /\ Len(wrote) = Len(files)
      /\ Before => Ordered(wrote, old.file, kept, n)
  BY <1>1, FlushProperties
<1>3a. w.file = old.file /\ w.buffered = Append(kept, n + 1)
  BY <1>1 DEF Writer
<1>3. /\ w.file = old.file /\ w.buffered = Append(kept, n + 1)
      /\ w.lineCount \in Nat /\ w.sinceFlush = old.sinceFlush + 1
      /\ old.sinceFlush \in 0 .. FlushInterval
  BY <1>1 DEF Writer
<1>3b. w \in [file : Nat, buffered : {Append(kept, n + 1)}, lineCount : Nat, sinceFlush : Nat]
  <2>1. old \in [file : Nat, buffered : Seq(1 .. MaxSent), lineCount : Nat, sinceFlush : Nat]
    BY <1>1 DEF Writer
  <2> HIDE DEF kept, old, n
  <2> QED
    BY <2>1
<1>4. /\ WritesTo(wrote, w.file, w.buffered, N + 1)
      /\ Before => Ordered(wrote, w.file, w.buffered, n + 1)
  <2> HIDE DEF kept, wrote, Before, N, n, w
  <2> QED
    BY <1>1, <1>2, <1>3a, LineProperties
<1> DEFINE flushed == Flushed(w, wrote)
<1>5. /\ WritesTo(flushed, w.file, <<>>, N + 1) /\ Len(flushed) = Len(files)
      /\ Before => Ordered(flushed, w.file, <<>>, n + 1)
  <2>1. N + 1 \in Nat /\ n + 1 \in Nat
    BY <1>1
  <2> HIDE DEF kept, wrote, Before, N, n, w
  <2> QED
    BY <1>2, <1>4, <2>1, FlushProperties
<1>6. /\ files' = (IF flushes \/ rotates THEN flushed ELSE wrote)
                  \o (IF rotates THEN << <<>> >> ELSE <<>>)
      /\ writer' = [writer EXCEPT ![p] =
           CASE rotates -> [NoWriter EXCEPT !.file = Len(files) + 1]
             [] flushes /\ ~rotates -> [w EXCEPT !.buffered = <<>>, !.sinceFlush = 0]
             [] OTHER -> w]
  BY DEF AppendLine
<1>7. Len(files) \in Nat /\ w.file \in Nat /\ w.buffered \in Seq(1 .. N + 1)
  <2> HIDE DEF w
  <2> QED
    BY <1>1, <1>4, LenProperties DEF WritesTo
<1> DEFINE Goal(v) ==
      /\ v \in [file : Nat, buffered : Seq(1 .. N + 1),
                lineCount : Nat, sinceFlush : 0 .. FlushInterval]
      /\ writer' = [writer EXCEPT ![p] = v]
      /\ WritesTo(files', v.file, v.buffered, N + 1)
      /\ Len(files') >= Len(files) /\ Len(files') <= Len(files) + 1
      /\ Before => Ordered(files', v.file, v.buffered, n + 1)
<1> SUFFICES \E v : Goal(v)
  OBVIOUS
<1>8. CASE rotates
  <2> DEFINE v == [NoWriter EXCEPT !.file = Len(files) + 1]
  <2>1. /\ files' = flushed \o << <<>> >> /\ writer' = [writer EXCEPT ![p] = v]
    BY <1>6, <1>8
  <2>2. /\ v.file = Len(files) + 1 /\ v.buffered = <<>>
        /\ v \in [file : Nat, buffered : {<<>>}, lineCount : Nat, sinceFlush : 0 .. FlushInterval]
    BY <1>1, <1>7 DEF NoWriter
  <2>3. <<>> \in Seq(1 .. N + 1)
    BY EmptySeq
  <2>4. N + 1 \in Nat /\ n + 1 \in Nat
    BY <1>1
  <2> HIDE DEF flushed, w, N, n, Before, v
  <2>5. /\ WritesTo(files', Len(files) + 1, <<>>, N + 1) /\ Len(files') = Len(files) + 1
        /\ Ordered(flushed, Len(files), <<>>, n + 1) =>
             Ordered(files', Len(files) + 1, <<>>, n + 1)
    BY <1>5, <2>1, <2>4, RotateProperties DEF WritesTo
  <2>6. Before => Ordered(flushed, Len(files), <<>>, n + 1)
    BY <1>5 DEF Ordered
  <2>7. v \in [file : Nat, buffered : Seq(1 .. N + 1), lineCount : Nat, sinceFlush : 0 .. FlushInterval]
    BY <2>2, <2>3
  <2>8. Len(files') >= Len(files) /\ Len(files') <= Len(files) + 1
    BY <1>7, <2>5
  <2>9. Goal(v)
    BY <2>1, <2>2, <2>5, <2>6, <2>7, <2>8
  <2> QED
    BY <2>9
<1>9. CASE ~rotates /\ flushes
  <2> DEFINE v == [w EXCEPT !.buffered = <<>>, !.sinceFlush = 0]
  <2>1. files' = flushed /\ writer' = [writer EXCEPT ![p] = v]
    <3>1. files' = flushed \o <<>> /\ writer' = [writer EXCEPT ![p] = v]
      BY <1>6, <1>9
    <3> HIDE DEF flushed, w, N, n
    <3>2. flushed \o <<>> = flushed
      BY <1>5, ConcatEmptySeq DEF WritesTo
    <3> QED
      BY <3>1, <3>2
  <2>2. /\ v.file = w.file /\ v.buffered = <<>>
        /\ v \in [file : Nat, buffered : {<<>>}, lineCount : Nat, sinceFlush : 0 .. FlushInterval]
    <3>1. 0 \in 0 .. FlushInterval
      BY <1>1
    <3> HIDE DEF w, N
    <3>2. v \in [file : Nat, buffered : {<<>>}, lineCount : Nat, sinceFlush : 0 .. FlushInterval]
      BY <1>3b, <3>1
    <3>3. v.file = w.file /\ v.buffered = <<>>
      BY <1>3b
    <3> HIDE DEF v
    <3> QED
      BY <3>2, <3>3
  <2>3. <<>> \in Seq(1 .. N + 1)
    BY EmptySeq
  <2> HIDE DEF flushed, w, N, n, Before, v
  <2>7. v \in [file : Nat, buffered : Seq(1 .. N + 1), lineCount : Nat, sinceFlush : 0 .. FlushInterval]
    BY <2>2, <2>3
  <2>8. Len(files') >= Len(files) /\ Len(files') <= Len(files) + 1
    BY <1>5, <1>7, <2>1
  <2>9. Goal(v)
    BY <1>5, <2>1, <2>2, <2>7, <2>8
  <2> QED
    BY <2>9
<1>10. CASE ~rotates /\ ~flushes
  <2>1. files' = wrote /\ writer' = [writer EXCEPT ![p] = w]
    <3>1. files' = wrote \o <<>> /\ writer' = [writer EXCEPT ![p] = w]
      BY <1>6, <1>10
    <3> HIDE DEF wrote, w, N, n
    <3>2. wrote \o <<>> = wrote
      BY <1>4, ConcatEmptySeq DEF WritesTo
    <3> QED
      BY <3>1, <3>2
  <2>2. w.sinceFlush \in 0 .. FlushInterval
    <3> HIDE DEF w
    <3> QED
      BY <1>1, <1>3, <1>10
  <2> HIDE DEF flushed, wrote, w, N, n, Before
  <2>7. w \in [file : Nat, buffered : Seq(1 .. N + 1), lineCount : Nat, sinceFlush : 0 .. FlushInterval]
    BY <1>3b, <1>7, <2>2
  <2>8. Len(files') >= Len(files) /\ Len(files') <= Len(files) + 1
    BY <1>2, <1>7, <2>1
  <2>9. Goal(w)
    BY <1>4, <2>1, <2>7, <2>8
  <2> QED
    BY <2>9
<1> QED
  BY <1>8, <1>9, <1>10

(* What every action finds, and the types alone.                           *)
LEMMA LogFacts ==
  ASSUME LogInv
  PROVE  /\ sentCount \in 0 .. MaxSent /\ MaxSent \in Nat
         /\ lastSeq \in [Tui -> 0 .. MaxSent] /\ tui \in [Tui -> {"off", "on", "flushing"}]
         /\ writer \in [Tui -> Writer] /\ ring \in [Tui -> Seq(1 .. MaxSent)]
         /\ \A p \in Tui : lastSeq[p] \in 0 .. sentCount
         /\ files \in Seq(Seq(1 .. sentCount)) /\ Len(files) \in 1 .. sentCount + 1
         /\ RingCap \in Nat \ {0} /\ FlushInterval \in Nat \ {0}
<1>1. files \in Seq(Seq(1 .. sentCount)) /\ files # <<>> /\ Len(files) <= sentCount + 1
  BY DEF LogInv, LogHolds
<1>2. Len(files) \in Nat \ {0}
  BY <1>1, EmptySeq
<1>3. \A p \in Tui : lastSeq[p] <= sentCount /\ lastSeq[p] \in 0 .. MaxSent
  BY DEF LogInv, LogHolds, LogTypeOK
<1>4. sentCount \in 0 .. MaxSent /\ MaxSent \in Nat /\ RingCap \in Nat \ {0}
      /\ FlushInterval \in Nat \ {0}
  BY LogAssumption DEF LogInv, LogTypeOK
<1> QED
  BY <1>1, <1>2, <1>3, <1>4 DEF LogInv, LogTypeOK

(* Opening the log keeps its invariant.                                   *)
LEMMA OpenSteps ==
  ASSUME LogInv, NEW p \in Tui, OpenBus(p)
  PROVE  LogInv'
<1> DEFINE file == files[Len(files)]
           loaded == LastOnes(file)
           w == [NoWriter EXCEPT !.file = Len(files), !.lineCount = Len(file)]
<1>0. /\ sentCount \in 0 .. MaxSent /\ MaxSent \in Nat
      /\ lastSeq \in [Tui -> 0 .. MaxSent] /\ tui \in [Tui -> {"off", "on", "flushing"}]
      /\ writer \in [Tui -> Writer] /\ ring \in [Tui -> Seq(1 .. MaxSent)]
      /\ files \in Seq(Seq(1 .. sentCount)) /\ Len(files) \in 1 .. sentCount + 1
      /\ FlushInterval \in Nat
  BY LogFacts
<1>1. /\ lastSeq' = [lastSeq EXCEPT ![p] = StartSeq(loaded)]
      /\ ring' = [ring EXCEPT ![p] = loaded]
      /\ writer' = [writer EXCEPT ![p] = w]
      /\ tui' = [tui EXCEPT ![p] = "on"]
      /\ overlapped' = (overlapped \/ \E q \in Tui : tui[q] # "off")
      /\ answerDue' = answerDue /\ files' = files /\ sentCount' = sentCount
      /\ tui[p] = "off"
  BY DEF OpenBus, Last
<1>2. file \in Seq(1 .. sentCount)
  BY <1>0, ElementOfSeq
<1>3. /\ file \in Seq(Nat) /\ Len(file) \in Nat
      /\ \A i \in 1 .. Len(file) : file[i] \in 1 .. sentCount
      /\ loaded \in Seq(1 .. sentCount) /\ loaded \in Seq(1 .. MaxSent)
  <2> HIDE DEF file
  <2>1. loaded \in Seq(1 .. sentCount)
    BY <1>2, LastOnesProperties
  <2>2. 1 .. sentCount \subseteq 1 .. MaxSent /\ 1 .. sentCount \subseteq Nat
    BY <1>0
  <2> QED
    BY <1>2, <2>1, <2>2, SeqMonotonic, LenProperties, ElementOfSeq
<1>4. /\ StartSeq(loaded) \in 0 .. sentCount
      /\ Increasing(file) => Below(file, StartSeq(loaded))
  <2>1. Below(file, sentCount) /\ sentCount \in Nat
    BY <1>0, <1>3 DEF Below
  <2>2. StartSeq(loaded) \in Nat /\ StartSeq(loaded) <= sentCount
    <3> HIDE DEF file
    <3> QED
      BY <1>3, <2>1, StartSeqProperties
  <2> HIDE DEF file
  <2> QED
    BY <1>0, <1>3, <2>2, StartSeqProperties
<1>5. /\ w.file = Len(files) /\ w.buffered = <<>> /\ <<>> \in Seq(1 .. MaxSent)
      /\ <<>> \in Seq(1 .. sentCount)
      /\ w \in [file : {Len(files)}, buffered : {<<>>}, lineCount : Nat, sinceFlush : {0}]
  BY <1>3, EmptySeq DEF NoWriter
<1>6. w \in Writer
  <2>1. Len(files) \in 1 .. MaxSent + 1 /\ 0 \in 0 .. FlushInterval
    BY <1>0
  <2> HIDE DEF w
  <2> QED
    BY <1>5, <2>1 DEF Writer
<1>7. \A q \in Tui : /\ writer'[q] = (IF q = p THEN w ELSE writer[q])
                     /\ lastSeq'[q] = (IF q = p THEN StartSeq(loaded) ELSE lastSeq[q])
                     /\ ring'[q] = (IF q = p THEN loaded ELSE ring[q])
                     /\ tui'[q] = (IF q = p THEN "on" ELSE tui[q])
  BY <1>0, <1>1
<1> HIDE DEF w, loaded
<1>8. LogTypeOK'
  <2>1. StartSeq(loaded) \in 0 .. MaxSent
    BY <1>0, <1>4
  <2> QED
    BY <1>0, <1>1, <1>3, <1>6, <2>1 DEF LogInv, LogTypeOK
<1>9. LogHolds'
  <2>1. WritesTo(files, Len(files), <<>>, sentCount)
    BY <1>0, <1>5 DEF WritesTo
  <2> QED
    BY <1>0, <1>1, <1>4, <1>5, <1>7, <2>1 DEF LogInv, LogHolds
<1>10. ASSUME ~overlapped' PROVE LogOrdered'
  <2>1. ~overlapped /\ \A q \in Tui : tui[q] = "off"
    BY <1>1, <1>10
  <2>2. /\ \A i \in 1 .. Len(files) : Increasing(files[i])
        /\ \A q \in Tui : Increasing(ring[q]) /\ Below(ring[q], lastSeq[q])
    BY <2>1 DEF LogInv, LogOrdered
  <2>3. Increasing(file) /\ Below(file, StartSeq(loaded))
    BY <1>0, <1>4, <2>2
  <2>4. Increasing(loaded) /\ Below(loaded, StartSeq(loaded))
    <3>1. StartSeq(loaded) \in Nat
      BY <1>0, <1>4
    <3> HIDE DEF file
    <3> QED
      BY <1>3, <2>3, <3>1, LastOnesIncrease DEF loaded
  <2>5. Chain(file, <<>>, StartSeq(loaded))
    <3>1. Chain(<<>>, <<>>, StartSeq(loaded)) /\ Len(<<>>) = 0
      BY <1>0, <1>4, ChainOfNothing, EmptySeq
    <3> QED
      BY <2>3, <3>1 DEF Chain
  <2>6. Ordered(files, Len(files), <<>>, StartSeq(loaded))
    BY <2>2, <2>5 DEF Ordered
  <2> QED
    BY <1>1, <1>5, <1>7, <2>1, <2>2, <2>4, <2>6 DEF LogOrdered
<1> QED
  BY <1>8, <1>9, <1>10 DEF LogInv, LogOrdered

(* A message is numbered, kept in the ring and written.                    *)
LEMMA IngestSteps ==
  ASSUME LogInv, NEW p \in Tui, NEW early \in BOOLEAN, tui[p] # "off",
         Ingest(p, early), answerDue' \subseteq Tui
  PROVE  LogInv'
<1> DEFINE n == lastSeq[p]
<1>0. /\ sentCount \in 0 .. MaxSent /\ MaxSent \in Nat
      /\ lastSeq \in [Tui -> 0 .. MaxSent] /\ tui \in [Tui -> {"off", "on", "flushing"}]
      /\ writer \in [Tui -> Writer] /\ ring \in [Tui -> Seq(1 .. MaxSent)]
      /\ \A q \in Tui : lastSeq[q] \in 0 .. sentCount
      /\ files \in Seq(Seq(1 .. sentCount)) /\ Len(files) \in 1 .. sentCount + 1
      /\ n \in 0 .. sentCount
  BY LogFacts
<1>1. /\ sentCount < MaxSent /\ sentCount' = sentCount + 1
      /\ lastSeq' = [lastSeq EXCEPT ![p] = n + 1]
      /\ tui' = tui /\ overlapped' = overlapped
      /\ lastSeq'[p] = n + 1
  BY <1>0 DEF Ingest
<1>2. /\ ring' = [ring EXCEPT ![p] = Push(ring[p], n + 1)]
      /\ AppendLine(p, n + 1, early)
  BY <1>0, <1>1 DEF Ingest
<1>3. PICK w \in [file : Nat, buffered : Seq(1 .. sentCount + 1),
                  lineCount : Nat, sinceFlush : 0 .. FlushInterval] :
        /\ writer' = [writer EXCEPT ![p] = w]
        /\ WritesTo(files', w.file, w.buffered, sentCount + 1)
        /\ Len(files') >= Len(files) /\ Len(files') <= Len(files) + 1
        /\ Ordered(files, writer[p].file, writer[p].buffered, n)
             => Ordered(files', w.file, w.buffered, n + 1)
  BY <1>2, LineSteps
<1>4. /\ ring[p] \in Seq(1 .. MaxSent) /\ ring[p] \in Seq(Nat) /\ n + 1 \in 1 .. MaxSent
      /\ Append(ring[p], n + 1) \in Seq(1 .. MaxSent) /\ Append(ring[p], n + 1) \in Seq(Nat)
  <2>1. ring[p] \in Seq(1 .. MaxSent) /\ n + 1 \in 1 .. MaxSent /\ 1 .. MaxSent \subseteq Nat
    BY <1>0, <1>1
  <2>2. Append(ring[p], n + 1) \in Seq(1 .. MaxSent)
    BY <2>1, AppendProperties
  <2> QED
    BY <2>1, <2>2, SeqMonotonic
<1>5. Push(ring[p], n + 1) \in Seq(1 .. MaxSent)
  BY <1>4, LastOnesProperties DEF Push
<1>6. /\ files' \in Seq(Seq(1 .. sentCount')) /\ Len(files') <= sentCount' + 1 /\ files' # <<>>
      /\ files' \in Seq(Seq(1 .. MaxSent))
      /\ Len(files') \in Nat
  <2>1. files' \in Seq(Seq(1 .. sentCount + 1))
    BY <1>3 DEF WritesTo
  <2>2. Len(files') \in Nat /\ Len(<<>>) = 0
    BY <2>1, LenProperties, EmptySeq
  <2>3. Len(files) \in 1 .. sentCount + 1 /\ Len(files') >= Len(files) /\ Len(files') <= Len(files) + 1
    BY <1>0, <1>3
  <2>4. Len(files') <= sentCount' + 1 /\ Len(files') # 0
    BY <1>0, <1>1, <2>2, <2>3
  <2>5. 1 .. sentCount + 1 \subseteq 1 .. MaxSent
    BY <1>0, <1>1
  <2>6. Seq(1 .. sentCount + 1) \subseteq Seq(1 .. MaxSent)
    BY <2>5, SeqMonotonic
  <2>7. files' \in Seq(Seq(1 .. MaxSent))
    BY <2>1, <2>6, SeqMonotonic
  <2> QED
    BY <1>1, <2>1, <2>2, <2>4, <2>7
<1>7. w \in Writer
  <2>1. w.file \in 1 .. Len(files') /\ w.buffered \in Seq(1 .. sentCount + 1)
    BY <1>3 DEF WritesTo
  <2>2. w.file \in 1 .. MaxSent + 1
    BY <1>0, <1>1, <1>6, <2>1
  <2>3. 1 .. sentCount + 1 \subseteq 1 .. MaxSent
    BY <1>0, <1>1
  <2>4. w.buffered \in Seq(1 .. MaxSent)
    BY <2>1, <2>3, SeqMonotonic
  <2> QED
    BY <1>3, <2>2, <2>4 DEF Writer
<1>8. \A q \in Tui : /\ writer'[q] = (IF q = p THEN w ELSE writer[q])
                     /\ lastSeq'[q] = (IF q = p THEN n + 1 ELSE lastSeq[q])
                     /\ ring'[q] = (IF q = p THEN Push(ring[p], n + 1) ELSE ring[q])
  BY <1>0, <1>1, <1>2, <1>3
<1>9. LogTypeOK'
  <2>1. /\ writer' \in [Tui -> Writer] /\ ring' \in [Tui -> Seq(1 .. MaxSent)]
        /\ lastSeq' \in [Tui -> 0 .. MaxSent] /\ sentCount' \in 0 .. MaxSent
    <3>1. writer' \in [Tui -> Writer]
      BY <1>0, <1>3, <1>7
    <3>2. ring' \in [Tui -> Seq(1 .. MaxSent)]
      BY <1>0, <1>2, <1>5
    <3>3. lastSeq' \in [Tui -> 0 .. MaxSent] /\ sentCount' \in 0 .. MaxSent
      BY <1>0, <1>1
    <3> QED
      BY <3>1, <3>2, <3>3
  <2> QED
    BY <1>1, <1>6, <2>1 DEF LogInv, LogTypeOK
<1>10. LogHolds'
  <2>1. ASSUME NEW q \in Tui, q # p
        PROVE  WritesTo(files', writer[q].file, writer[q].buffered, sentCount + 1)
    <3>1. /\ writer[q].file \in 1 .. Len(files) /\ writer[q].buffered \in Seq(1 .. sentCount)
          /\ sentCount \in Nat
      BY <1>0 DEF LogInv, LogHolds, WritesTo
    <3>2. writer[q].buffered \in Seq(1 .. sentCount + 1)
      BY <3>1, MoreNumbers
    <3>3. writer[q].file \in 1 .. Len(files')
      <4>1. Len(files') >= Len(files) /\ Len(files') \in Nat /\ Len(files) \in Nat
        BY <1>0, <1>3, <1>6
      <4> QED
        BY <3>1, <4>1
    <3> QED
      BY <1>3, <3>2, <3>3 DEF WritesTo
  <2>2. \A q \in Tui : lastSeq'[q] <= sentCount + 1
    <3>1. sentCount \in Nat /\ n \in 0 .. sentCount /\ \A q \in Tui : lastSeq[q] \in 0 .. sentCount
      BY <1>0
    <3>2. \A q \in Tui : lastSeq'[q] = n + 1 \/ lastSeq'[q] = lastSeq[q]
      BY <1>8
    <3> HIDE DEF n
    <3> QED
      BY <3>1, <3>2
  <2> QED
    BY <1>1, <1>3, <1>6, <1>8, <2>1, <2>2 DEF LogHolds
<1>11. ASSUME ~overlapped PROVE LogOrdered'
  <2>1. /\ \A q, r \in Tui : tui[q] # "off" /\ tui[r] # "off" => q = r
        /\ \A q \in Tui : Increasing(ring[q]) /\ Below(ring[q], lastSeq[q])
        /\ Ordered(files, writer[p].file, writer[p].buffered, n)
    BY <1>11 DEF LogInv, LogOrdered
  <2>2. Ordered(files', w.file, w.buffered, n + 1)
    BY <1>3, <2>1
  <2>3. Increasing(Push(ring[p], n + 1)) /\ Below(Push(ring[p], n + 1), n + 1)
    <3>1. n \in Nat /\ n + 1 \in Nat
      BY <1>0
    <3>2. Increasing(ring[p]) /\ Below(ring[p], n)
      BY <2>1
    <3> HIDE DEF n
    <3>3. Increasing(Append(ring[p], n + 1)) /\ Below(Append(ring[p], n + 1), n + 1)
      BY <1>4, <3>1, <3>2, IncreasingAppend
    <3> QED
      BY <1>4, <3>1, <3>3, LastOnesIncrease DEF Push
  <2>4. \A i \in 1 .. Len(files') : Increasing(files'[i])
    BY <2>2 DEF Ordered
  <2> QED
    BY <1>1, <1>8, <2>1, <2>2, <2>3, <2>4 DEF LogOrdered
<1> QED
  BY <1>1, <1>9, <1>10, <1>11 DEF LogInv, LogOrdered

(* A process goes, having flushed what it held or not.                     *)
LEMMA ForgetSteps ==
  ASSUME LogInv, NEW p \in Tui, tui[p] # "off", Forgets(p),
         files' = files \/ files' = Flushed(writer[p], files),
         sentCount' = sentCount, overlapped' = overlapped, answerDue' \subseteq Tui
  PROVE  LogInv'
<1>0. /\ sentCount \in 0 .. MaxSent /\ MaxSent \in Nat /\ sentCount \in Nat
      /\ lastSeq \in [Tui -> 0 .. MaxSent] /\ tui \in [Tui -> {"off", "on", "flushing"}]
      /\ writer \in [Tui -> Writer] /\ ring \in [Tui -> Seq(1 .. MaxSent)]
      /\ \A q \in Tui : lastSeq[q] \in 0 .. sentCount
      /\ files \in Seq(Seq(1 .. sentCount)) /\ Len(files) \in 1 .. sentCount + 1
      /\ FlushInterval \in Nat
  BY LogFacts
<1>1. /\ files' \in Seq(Seq(1 .. sentCount)) /\ Len(files') = Len(files)
      /\ (~overlapped => \A i \in 1 .. Len(files') : Increasing(files'[i]))
  <2>1. CASE files' = files
    BY <1>0, <2>1 DEF LogInv, LogOrdered
  <2>2. CASE files' = Flushed(writer[p], files)
    <3>1. WritesTo(files, writer[p].file, writer[p].buffered, sentCount)
      BY DEF LogInv, LogHolds
    <3>2. /\ files' \in Seq(Seq(1 .. sentCount)) /\ Len(files') = Len(files)
      BY <1>0, <2>2, <3>1, FlushProperties DEF WritesTo
    <3>3. ASSUME ~overlapped
          PROVE  \A i \in 1 .. Len(files') : Increasing(files'[i])
      <4>1. Ordered(files, writer[p].file, writer[p].buffered, lastSeq[p]) /\ lastSeq[p] \in Nat
        BY <1>0, <3>3 DEF LogInv, LogOrdered
      <4>2. Ordered(files', writer[p].file, <<>>, lastSeq[p])
        BY <1>0, <2>2, <3>1, <4>1, FlushProperties
      <4> QED
        BY <4>2 DEF Ordered
    <3> QED
      BY <3>2, <3>3
  <2> QED
    BY <2>1, <2>2
<1>2. /\ tui' = [tui EXCEPT ![p] = "off"]
      /\ writer' = [writer EXCEPT ![p] = NoWriter]
      /\ ring' = [ring EXCEPT ![p] = <<>>]
      /\ lastSeq' = [lastSeq EXCEPT ![p] = 0]
  BY DEF Forgets
<1>3. \A q \in Tui : /\ writer'[q] = (IF q = p THEN NoWriter ELSE writer[q])
                     /\ lastSeq'[q] = (IF q = p THEN 0 ELSE lastSeq[q])
                     /\ ring'[q] = (IF q = p THEN <<>> ELSE ring[q])
                     /\ tui'[q] = (IF q = p THEN "off" ELSE tui[q])
  BY <1>0, <1>2
<1>4. /\ NoWriter.file = 1 /\ NoWriter.buffered = <<>>
      /\ <<>> \in Seq(1 .. MaxSent) /\ <<>> \in Seq(1 .. sentCount)
  BY EmptySeq DEF NoWriter
<1>5. NoWriter \in Writer
  <2>1. 1 \in 1 .. MaxSent + 1 /\ 0 \in Nat /\ 0 \in 0 .. FlushInterval
    BY <1>0
  <2> QED
    BY <1>4, <2>1 DEF Writer, NoWriter
<1>6. LogTypeOK'
  <2>1. files' \in Seq(Seq(1 .. MaxSent))
    <3>1. 1 .. sentCount \subseteq 1 .. MaxSent
      BY <1>0
    <3>2. Seq(1 .. sentCount) \subseteq Seq(1 .. MaxSent)
      BY <3>1, SeqMonotonic
    <3> QED
      BY <1>1, <3>2, SeqMonotonic
  <2>2. writer' \in [Tui -> Writer] /\ ring' \in [Tui -> Seq(1 .. MaxSent)]
    BY <1>0, <1>2, <1>4, <1>5
  <2>3. lastSeq' \in [Tui -> 0 .. MaxSent] /\ tui' \in [Tui -> {"off", "on", "flushing"}]
    BY <1>0, <1>2
  <2> QED
    BY <2>1, <2>2, <2>3 DEF LogInv, LogTypeOK
<1>7. LogHolds'
  <2>1. Len(files') <= sentCount + 1 /\ files' # <<>>
    <3>1. Len(<<>>) = 0 /\ Len(files') # 0
      BY <1>0, <1>1, EmptySeq
    <3> QED
      BY <1>0, <1>1, <3>1
  <2>2. \A q \in Tui : writer[q].file \in 1 .. Len(files) /\ writer[q].buffered \in Seq(1 .. sentCount)
    BY DEF LogInv, LogHolds, WritesTo
  <2>3. 1 \in 1 .. Len(files')
    BY <1>0, <1>1
  <2>4. \A q \in Tui : WritesTo(files', writer'[q].file, writer'[q].buffered, sentCount)
    BY <1>1, <1>3, <1>4, <2>2, <2>3 DEF WritesTo
  <2>5. \A q \in Tui : lastSeq'[q] <= sentCount
    <3>1. sentCount \in Nat /\ \A q \in Tui : lastSeq[q] \in 0 .. sentCount
      BY <1>0
    <3>2. \A q \in Tui : lastSeq'[q] = 0 \/ lastSeq'[q] = lastSeq[q]
      BY <1>3
    <3> QED
      BY <3>1, <3>2
  <2> QED
    BY <1>1, <2>1, <2>4, <2>5 DEF LogHolds
<1>8. ASSUME ~overlapped PROVE LogOrdered'
  <2>1. /\ \A q, r \in Tui : tui[q] # "off" /\ tui[r] # "off" => q = r
        /\ \A q \in Tui : Increasing(ring[q]) /\ Below(ring[q], lastSeq[q])
    BY <1>8 DEF LogInv, LogOrdered
  <2>2. \A q \in Tui : tui'[q] = "off"
    BY <1>3, <2>1
  <2>3. Increasing(<<>>) /\ Below(<<>>, 0)
    BY ChainOfNothing DEF Chain
  <2> QED
    BY <1>1, <1>3, <2>1, <2>2, <2>3 DEF LogOrdered
<1> QED
  BY <1>6, <1>7, <1>8 DEF LogInv, LogOrdered

(* A TUI that quits does too.                                             *)
LEMMA QuitSteps ==
  ASSUME LogInv, NEW p \in Tui, Quit(p)
  PROVE  LogInv'
<1>1. /\ tui' = [tui EXCEPT ![p] = "flushing"] /\ tui[p] = "on"
      /\ UNCHANGED <<answerDue, lastSeq, ring, writer, files, sentCount, overlapped>>
  BY DEF Quit
<1>2. tui \in [Tui -> {"off", "on", "flushing"}]
  BY LogFacts
<1>3. \A q \in Tui : tui'[q] # "off" => tui[q] # "off"
  BY <1>1, <1>2
<1>4. LogTypeOK'
  BY <1>1, <1>2 DEF LogInv, LogTypeOK
<1>5. LogHolds'
  BY <1>1 DEF LogInv, LogHolds
<1>6. LogOrdered'
  BY <1>1, <1>3 DEF LogInv, LogOrdered
<1> QED
  BY <1>4, <1>5, <1>6 DEF LogInv

(* It holds before the first TUI starts.                                  *)
LEMMA LogStarts == LogInit => LogInv
<1> SUFFICES ASSUME LogInit PROVE LogInv
  OBVIOUS
<1>1. /\ <<>> \in Seq(1 .. MaxSent) /\ <<>> \in Seq(1 .. 0) /\ MaxSent \in Nat
      /\ FlushInterval \in Nat \ {0}
  BY EmptySeq, LogAssumption
<1>2. /\ \A S : <<>> \in S => /\ << <<>> >> \in Seq(S) /\ Len(<< <<>> >>) = 1
                              /\ << <<>> >>[1] = <<>> /\ << <<>> >> # <<>>
  OBVIOUS
<1>3. NoWriter \in Writer /\ NoWriter.file = 1 /\ NoWriter.buffered = <<>>
  <2>1. 1 \in 1 .. MaxSent + 1 /\ 0 \in Nat /\ 0 \in 0 .. FlushInterval
    BY <1>1
  <2> QED
    BY <1>1, <2>1 DEF Writer, NoWriter
<1>3a. /\ << <<>> >> \in Seq(Seq(1 .. MaxSent)) /\ << <<>> >> \in Seq(Seq(1 .. 0))
       /\ Len(<< <<>> >>) = 1 /\ << <<>> >> # <<>> /\ 1 \in 1 .. 1
  BY <1>1, <1>2
<1>4. LogTypeOK
  <2>1. 0 \in 0 .. MaxSent
    BY <1>1
  <2> QED
    BY <1>1, <1>3, <1>3a, <2>1 DEF LogInit, LogTypeOK
<1>5. LogHolds
  <2>1. WritesTo(<< <<>> >>, 1, <<>>, 0)
    BY <1>1, <1>3a DEF WritesTo
  <2>2. \A p \in Tui : writer[p] = NoWriter /\ lastSeq[p] = 0
    BY DEF LogInit
  <2> QED
    BY <1>3, <1>3a, <2>1, <2>2 DEF LogInit, LogHolds
<1>6. Increasing(<<>>) /\ Below(<<>>, 0)
  BY ChainOfNothing DEF Chain
<1>7. LogOrdered
  BY <1>1, <1>2, <1>6 DEF LogInit, LogOrdered
<1> QED
  BY <1>4, <1>5, <1>7 DEF LogInv

(* Every step keeps it.                                                   *)
LEMMA LogSteps == LogInv /\ [LogNext]_logVars => LogInv'
<1> SUFFICES ASSUME LogInv, [LogNext]_logVars PROVE LogInv'
  OBVIOUS
<1>1. CASE UNCHANGED logVars
  BY <1>1 DEF logVars, LogInv, LogTypeOK, LogHolds, LogOrdered
<1>2. ASSUME NEW p \in Tui, NEW routed \in BOOLEAN, NEW early \in BOOLEAN,
             SendMessage(p, routed, early)
      PROVE  LogInv'
  <2>1. tui[p] # "off" /\ Ingest(p, early) /\ answerDue' \subseteq Tui
    BY <1>2 DEF SendMessage, LogInv, LogTypeOK
  <2> QED
    BY <2>1, IngestSteps
<1>3. ASSUME NEW p \in Tui, NEW early \in BOOLEAN, IngestResponse(p, early)
      PROVE  LogInv'
  <2>1. tui[p] # "off" /\ Ingest(p, early) /\ answerDue' \subseteq Tui
    BY <1>3 DEF IngestResponse, LogInv, LogTypeOK
  <2> QED
    BY <2>1, IngestSteps
<1>4. ASSUME NEW p \in Tui, FlushPersist(p) PROVE LogInv'
  <2>1. /\ tui[p] # "off" /\ Forgets(p) /\ files' = Flushed(writer[p], files)
        /\ sentCount' = sentCount /\ overlapped' = overlapped /\ answerDue' \subseteq Tui
    BY <1>4 DEF FlushPersist, LogInv, LogTypeOK
  <2> QED
    BY <2>1, ForgetSteps
<1>5. ASSUME NEW p \in Tui, ProcessEnds(p) PROVE LogInv'
  <2>1. /\ tui[p] # "off" /\ Forgets(p) /\ files' = files
        /\ sentCount' = sentCount /\ overlapped' = overlapped /\ answerDue' \subseteq Tui
    BY <1>5 DEF ProcessEnds, LogInv, LogTypeOK
  <2> QED
    BY <2>1, ForgetSteps
<1> QED
  BY <1>1, <1>2, <1>3, <1>4, <1>5, OpenSteps, QuitSteps DEF LogNext

(* A message's number orders it: in every ring and in every file of the    *)
(* log the numbers increase, through crashes that lose what was buffered,  *)
(* restarts and rotations, as long as no two processes have had the log    *)
(* open at once.                                                           *)
THEOREM NumbersOrdered == LogSpec => []NumbersIncrease
<1>1. LogInv => NumbersIncrease
  BY DEF LogInv, LogOrdered, NumbersIncrease
<1> QED
  BY <1>1, LogStarts, LogSteps, PTL DEF LogSpec

-----------------------------------------------------------------------------
(* The types of the lifecycle and the limit, and all parts together.       *)

(* Stages, files and the prober's intents keep their types.                *)
LEMMA LifecycleTypesKept ==
  LifecycleTypeOK /\ [LifecycleNext]_lifecycleVars => LifecycleTypeOK'
<1> SUFFICES ASSUME LifecycleTypeOK, [LifecycleNext]_lifecycleVars PROVE LifecycleTypeOK'
  OBVIOUS
<1> USE DEF LifecycleTypeOK
<1>1. ASSUME NEW p \in Process, StartProcess(p) PROVE LifecycleTypeOK'
  BY <1>1 DEF StartProcess, Goes, Starting
<1>2. ASSUME NEW p \in Process, WritePidfile(p) PROVE LifecycleTypeOK'
  BY <1>2 DEF WritePidfile, Goes, Starting
<1>3. ASSUME NEW p \in Process, ProbeSocket(p) PROVE LifecycleTypeOK'
  BY <1>3 DEF ProbeSocket, Goes, Starting
<1>4. ASSUME NEW p \in Process, SweepSocket(p) PROVE LifecycleTypeOK'
  BY <1>4 DEF SweepSocket, Goes, Starting, DeletesSocket
<1>5. ASSUME NEW p \in Process, Bind(p) PROVE LifecycleTypeOK'
  BY <1>5 DEF Bind, Goes, Starting
<1>6. ASSUME NEW p \in Process, LoadState(p) PROVE LifecycleTypeOK'
  BY <1>6 DEF LoadState, Goes, Starting
<1>7. ASSUME NEW p \in Process, RemoveState(p) PROVE LifecycleTypeOK'
  BY <1>7 DEF RemoveState, Goes
<1>8. ASSUME NEW p \in Process, Serve(p) PROVE LifecycleTypeOK'
  BY <1>8 DEF Serve
<1>9. ASSUME NEW p \in Process, Terminate(p) PROVE LifecycleTypeOK'
  BY <1>9 DEF Terminate, Terminated, Goes, Starting, Stopping
<1>10. ASSUME NEW p \in Process, Crash(p) PROVE LifecycleTypeOK'
  BY <1>10 DEF Crash, Goes
<1>11. ASSUME NEW p \in Process, SaveState(p) PROVE LifecycleTypeOK'
  BY <1>11 DEF SaveState, Goes, Stopping
<1>12. ASSUME NEW p \in Process, UnlinkSocket(p) PROVE LifecycleTypeOK'
  BY <1>12 DEF UnlinkSocket, Goes, Stopping
<1>13. ASSUME NEW p \in Process, RemovePidfile(p) PROVE LifecycleTypeOK'
  BY <1>13 DEF RemovePidfile, Goes
<1>14. ASSUME NEW c \in Prober, FindRefused(c) \/ DeleteRefused(c) PROVE LifecycleTypeOK'
  BY <1>14 DEF FindRefused, DeleteRefused, DeletesSocket
<1>15. ASSUME NEW force \in BOOLEAN, SignalAll(force) PROVE LifecycleTypeOK'
  BY <1>15 DEF SignalAll, Terminated, Starting, Stopping
<1>16. CASE DeleteArtifacts
  BY <1>16 DEF DeleteArtifacts, DeletesSocket
<1>17. CASE UNCHANGED lifecycleVars
  BY <1>17 DEF lifecycleVars
<1> QED
  BY <1>1, <1>2, <1>3, <1>4, <1>5, <1>6, <1>7, <1>8, <1>9, <1>10, <1>11, <1>12, <1>13,
     <1>14, <1>15, <1>16, <1>17 DEF LifecycleNext

(* Whatever daemons, clients and the tool do, the files name processes.    *)
THEOREM LifecycleTyped == LifecycleSpec => []LifecycleTypeOK
<1>1. LifecycleInit => LifecycleTypeOK
  BY DEF LifecycleInit, LifecycleTypeOK
<1> QED
  BY <1>1, LifecycleTypesKept, PTL DEF LifecycleSpec

(* The list of timestamps never outgrows the limit.                        *)
LEMMA RouteBounds ==
  RouteInv /\ RouteTypeOK /\ [RouteNext]_routeVars => RouteTypeOK'
<1> SUFFICES ASSUME RouteInv, RouteTypeOK, [RouteNext]_routeVars PROVE RouteTypeOK'
  OBVIOUS
<1>0. /\ MaxTime \in Nat /\ RateMax \in Nat \ {0} /\ clock \in Time
      /\ Len(timestamps) \in Nat /\ Len(timestamps) <= RateMax
  BY RateAssumption, LenProperties DEF RouteTypeOK
<1>1. /\ Recent \in Seq(Time) /\ Len(Recent) \in Nat /\ Len(Recent) <= Len(timestamps)
  <2>1. Recent \in Seq(Time) /\ Len(Recent) = Len(timestamps) - Evicted
        /\ Evicted \in 0 .. Len(timestamps)
    BY RecentProperties, EvictedProperties DEF RouteInv, RouteTypeOK
  <2> HIDE DEF Recent, Evicted
  <2> QED
    BY <1>0, <2>1
<1> HIDE DEF Recent
<1>2. CASE TimePasses
  BY <1>0, <1>2 DEF TimePasses, RouteTypeOK, Time
<1>3. ASSUME NEW by, NEW tool, NEW tier, DispatchSystem(by, tool, tier)
      PROVE  RouteTypeOK'
  <2>1. /\ clock' = clock /\ timestamps' = Append(Recent, clock) /\ Len(Recent) < RateMax
        /\ executed' = executed \/ executed' = Append(executed, clock)
    BY <1>3 DEF DispatchSystem
  <2>2. timestamps' \in Seq(Time) /\ Len(timestamps') = Len(Recent) + 1
        /\ Append(executed, clock) \in Seq(Time) /\ executed \in Seq(Time)
    BY <1>0, <1>1, <2>1, AppendProperties DEF RouteTypeOK
  <2> QED
    <3>1. Len(timestamps') <= RateMax
      BY <1>0, <1>1, <2>1, <2>2
    <3> QED
      BY <1>0, <2>1, <2>2, <3>1 DEF RouteTypeOK
<1>4. ASSUME NEW by, NEW tool, RefuseCommand(by, tool) PROVE RouteTypeOK'
  BY <1>0, <1>1, <1>4 DEF RefuseCommand, RouteTypeOK
<1>5. CASE UNCHANGED routeVars
  BY <1>5 DEF routeVars, RouteTypeOK
<1> QED
  BY <1>2, <1>3, <1>4, <1>5 DEF RouteNext

(* SYSTEM_COMMAND_TIMESTAMPS holds no more entries than commands may pass. *)
THEOREM RouteTyped == RouteSpec => []RouteTypeOK
<1>1. RouteInit => RouteTypeOK
  BY RateAssumption, EmptySeq DEF RouteInit, RouteTypeOK, Time
<1> QED
  BY <1>1, RouteStarts, RouteSteps, RouteBounds, PTL DEF RouteSpec

(* A step of the service is a step of one part, and the others rest.       *)
LEMMA ServicesParts ==
  ASSUME [ServicesNext]_servicesVars
  PROVE  /\ [Next]_vars /\ [LifecycleNext]_lifecycleVars /\ [ClientNext]_clientVars
         /\ [PreviewNext]_previewVars /\ [LogNext]_logVars /\ [RouteNext]_routeVars
         /\ [InferenceNext]_inferenceVars /\ [PollNext]_pollVars
<1>1. CASE UNCHANGED servicesVars
  BY <1>1 DEF servicesVars
<1>2. CASE RegistryRuns
  BY <1>2 DEF RegistryRuns
<1>3. CASE LifecycleRuns
  BY <1>3 DEF LifecycleRuns
<1>4. CASE ClientRuns
  BY <1>4 DEF ClientRuns
<1>5. CASE PreviewRuns
  BY <1>5 DEF PreviewRuns
<1>6. CASE LogRuns
  BY <1>6 DEF LogRuns
<1>7. CASE RouteRuns
  BY <1>7 DEF RouteRuns
<1>8. CASE InferenceRuns
  BY <1>8 DEF InferenceRuns
<1>9. CASE FilesRuns
  BY <1>9 DEF FilesRuns
<1> QED
  BY <1>1, <1>2, <1>3, <1>4, <1>5, <1>6, <1>7, <1>8, <1>9 DEF ServicesNext

(* Each part of the service behaves as it does alone, the registry         *)
(* with its fairness: what is proved of one by itself holds of all.        *)
THEOREM PartsRunAsAlone ==
  ServicesSpec => /\ Spec /\ LifecycleSpec /\ ClientSpec /\ PreviewSpec
                  /\ LogSpec /\ RouteSpec /\ InferenceSpec /\ PollSpec
<1>1. ServicesInit =>
        /\ Init /\ LifecycleInit /\ ClientInit /\ PreviewInit /\ LogInit /\ RouteInit
        /\ InferenceInit /\ PollInit
  BY DEF ServicesInit
<1>2. [ServicesNext]_servicesVars =>
        /\ [Next]_vars /\ [LifecycleNext]_lifecycleVars /\ [ClientNext]_clientVars
        /\ [PreviewNext]_previewVars /\ [LogNext]_logVars /\ [RouteNext]_routeVars
        /\ [InferenceNext]_inferenceVars /\ [PollNext]_pollVars
  BY ServicesParts
<1> QED
  BY <1>1, <1>2, PTL
     DEF ServicesSpec, Spec, LifecycleSpec, ClientSpec, PreviewSpec, LogSpec, RouteSpec,
         InferenceSpec, PollSpec

(* Every variable of the parts keeps its type.                             *)
THEOREM ServicesTyped == ServicesSpec => []ServicesTypeOK
<1>1. LifecycleTypeOK /\ ClientTypeOK /\ PreviewTypeOK /\ RouteTypeOK
      /\ LogInv /\ InferenceInv /\ PollInv => ServicesTypeOK
  BY DEF ServicesTypeOK, LogInv, InferenceInv, PollInv
<1>2. LogSpec => []LogInv
  BY LogStarts, LogSteps, PTL DEF LogSpec
<1>3. InferenceSpec => []InferenceInv
  BY InferenceStarts, InferenceSteps, PTL DEF InferenceSpec
<1> QED
  BY <1>1, <1>2, <1>3, PartsRunAsAlone, LifecycleTyped, ClientTyped, PreviewTyped,
     RouteTyped, PollInvariance, PTL

(* Together the parts keep what each keeps alone; display names as long    *)
(* as no two spawns choose theirs at once.                                 *)
THEOREM ServicesKeep ==
  ServicesSpec => /\ [](FilesAreOwn /\ SavedIsReported)
                  /\ [](DoneIsDone /\ CaughtUpIsCurrent)
                  /\ [](NumbersIncrease /\ RateIsBounded)
                  /\ [](FileFollowsStatus /\ CacheFollowsFiles /\ LivePrunedUnseen)
                  /\ ([]NamedAlone => []NamesUnique)
BY PartsRunAsAlone, FilesOwned, SavedSessionsReported, ReportsAreTrue, PreviewCurrent,
   NumbersOrdered, RateBounded, StatusChangesKept, CachesCorrect, PruneCorrect,
   NamesStayUnique, PTL
=============================================================================
