----------------------------- MODULE StatePoller -----------------------------
(***************************************************************************)
(* The state files of agent sessions and the pollers that read them        *)
(* (thermal-core/src/claude_state.rs).  Hooks write and delete the files;  *)
(* each program that shows sessions keeps a cache of them, which it brings *)
(* up to date from file events, and deletes the files of sessions that are *)
(* dead, whoever else may be reading them.                                 *)
(*                                                                         *)
(* A state is named by the order of its writing.  Which of two files of    *)
(* the same session a poll returns, a choice by source, time and detail    *)
(* that touches no other state, is left out.                               *)
(***************************************************************************)
EXTENDS Naturals

CONSTANTS
  Poller,        \* the ClaudeStatePollers of all programs
  StateFile,     \* the files
  MaxState       \* bound: states written

ASSUME MaxStateAssumption == MaxState \in Nat

VARIABLES
  written,       \* states written so far
  disk,          \* what each file holds, 0 when there is none
  dead,          \* states whose process is gone and whose grace is over
  changed,       \* Create and Modify events in each poller's channel
  deleted,       \* Remove events in each poller's channel
  cache,         \* ClaudeStatePoller.sessions
  polling,       \* the step of each poller's poll
  todo,          \* dirty_paths or dead_paths still to be dealt with
  mourned        \* history: files pruned with a live state in them, whose
                 \* event the pruning poller had already taken

diskVars == <<written, disk, dead>>
pollVars == <<diskVars, changed, deleted, cache, polling, todo, mourned>>

StateNumber == 1 .. MaxState

PollTypeOK ==
  /\ written \in 0 .. MaxState
  /\ disk \in [StateFile -> 0 .. MaxState]
  /\ dead \subseteq StateNumber
  /\ changed \in [Poller -> SUBSET StateFile]
  /\ deleted \in [Poller -> SUBSET StateFile]
  /\ todo \in [Poller -> SUBSET StateFile]
  /\ cache \in [Poller -> [StateFile -> 0 .. MaxState]]
  /\ polling \in [Poller -> {"off", "idle", "reading", "read", "pruning"}]
  /\ mourned \subseteq StateFile

PollInit ==
  /\ written = 0 /\ dead = {}
  /\ disk = [f \in StateFile |-> 0]
  /\ changed = [p \in Poller |-> {}] /\ deleted = [p \in Poller |-> {}]
  /\ cache = [p \in Poller |-> [f \in StateFile |-> 0]]
  /\ polling = [p \in Poller |-> "off"]
  /\ todo = [p \in Poller |-> {}]
  /\ mourned = {}

-----------------------------------------------------------------------------
(* The hooks and time.                                                     *)

(* A hook writes a temporary file and renames it over the state file.      *)
WriteState(f) ==
  /\ written < MaxState
  /\ written' = written + 1
  /\ disk' = [disk EXCEPT ![f] = written']
  /\ changed' = [p \in Poller |-> changed[p] \cup {f}]
  /\ UNCHANGED <<dead, deleted, cache, polling, todo, mourned>>

Deleted(f) ==
  /\ disk' = [disk EXCEPT ![f] = 0]
  /\ deleted' = IF disk[f] = 0 THEN deleted
                ELSE [p \in Poller |-> deleted[p] \cup {f}]

(* The hook at the end of a session removes its file.                      *)
DeleteState(f) ==
  /\ disk[f] # 0
  /\ Deleted(f)
  /\ UNCHANGED <<written, dead, changed, cache, polling, todo, mourned>>

(* The process is gone, or was never known, and the state is old enough.   *)
StateDies(s) ==
  /\ s \in 1 .. written \ dead
  /\ dead' = dead \cup {s}
  /\ UNCHANGED <<written, disk, changed, deleted, cache, polling, todo, mourned>>

-----------------------------------------------------------------------------
(* poll, step by step.                                                     *)
PollGoes(p, step) == polling' = [polling EXCEPT ![p] = step]

(* new: the directories are watched first, then every file there is read.  *)
StartPoller(p) ==
  /\ polling[p] = "off"
  /\ todo' = [todo EXCEPT ![p] = {f \in StateFile : disk[f] # 0}]
  /\ changed' = [changed EXCEPT ![p] = {}]
  /\ deleted' = [deleted EXCEPT ![p] = {}]
  /\ PollGoes(p, "reading")
  /\ UNCHANGED <<diskVars, cache, mourned>>

Without(sessions, files) ==
  [f \in StateFile |-> IF f \in files THEN 0 ELSE sessions[f]]

(* Fault: the deleted files are dropped after the changed ones are read.   *)
DrainEventsOnly(p) ==
  /\ polling[p] = "idle"
  /\ todo' = [todo EXCEPT ![p] = changed[p] \ deleted[p]]
  /\ cache' = [cache EXCEPT ![p] = Without(@, deleted[p])]
  /\ changed' = [changed EXCEPT ![p] = {}]
  /\ deleted' = [deleted EXCEPT ![p] = {}]
  /\ PollGoes(p, "reading")
  /\ UNCHANGED <<diskVars, mourned>>

(* The channel is emptied; what was deleted goes, whenever it was.         *)
DrainEvents(p) ==
  /\ polling[p] = "idle"
  /\ todo' = [todo EXCEPT ![p] = changed[p]]
  /\ cache' = [cache EXCEPT ![p] = Without(@, deleted[p])]
  /\ changed' = [changed EXCEPT ![p] = {}]
  /\ deleted' = [deleted EXCEPT ![p] = {}]
  /\ PollGoes(p, "reading")
  /\ UNCHANGED <<diskVars, mourned>>

(* Fault: what is known already is not replaced.                           *)
ReadDirtyIfNew(p, f) ==
  /\ polling[p] = "reading" /\ f \in todo[p]
  /\ todo' = [todo EXCEPT ![p] = @ \ {f}]
  /\ cache' = IF disk[f] \in {0} \cup dead \/ cache[p][f] # 0 THEN cache
              ELSE [cache EXCEPT ![p][f] = disk[f]]
  /\ UNCHANGED <<diskVars, changed, deleted, polling, mourned>>

(* read_file: no state when the file is gone, or its session dead.  The    *)
(* cache keeps what it had then.                                           *)
ReadDirty(p, f) ==
  /\ polling[p] = "reading" /\ f \in todo[p]
  /\ todo' = [todo EXCEPT ![p] = @ \ {f}]
  /\ cache' = IF disk[f] \in {0} \cup dead THEN cache
              ELSE [cache EXCEPT ![p][f] = disk[f]]
  /\ UNCHANGED <<diskVars, changed, deleted, polling, mourned>>

AllRead(p) ==
  /\ polling[p] = "reading" /\ todo[p] = {}
  /\ PollGoes(p, "read")
  /\ UNCHANGED <<diskVars, changed, deleted, cache, todo, mourned>>

(* Every half minute the dead sessions of the cache are picked out.        *)
PickDead(p) ==
  /\ polling[p] = "read"
  /\ todo' = [todo EXCEPT ![p] = {f \in StateFile : cache[p][f] \in dead}]
  /\ PollGoes(p, "pruning")
  /\ UNCHANGED <<diskVars, changed, deleted, cache, mourned>>

(* Each goes, and its file with whatever it holds by now.                  *)
PruneFile(p, f) ==
  /\ polling[p] = "pruning" /\ f \in todo[p]
  /\ todo' = [todo EXCEPT ![p] = @ \ {f}]
  /\ cache' = [cache EXCEPT ![p][f] = 0]
  /\ Deleted(f)
  /\ mourned' = IF disk[f] \in {0} \cup dead \/ f \in changed[p] THEN mourned
                ELSE mourned \cup {f}
  /\ UNCHANGED <<written, dead, changed, polling>>

(* Done, or no prune is due yet.                                           *)
AllPruned(p) ==
  /\ \/ polling[p] = "pruning" /\ todo[p] = {}
     \/ polling[p] = "read"
  /\ PollGoes(p, "idle")
  /\ UNCHANGED <<diskVars, changed, deleted, cache, todo, mourned>>

PollNext ==
  \/ \E f \in StateFile : WriteState(f) \/ DeleteState(f)
  \/ \E s \in StateNumber : StateDies(s)
  \/ \E p \in Poller :
       \/ StartPoller(p) \/ DrainEvents(p) \/ AllRead(p)
       \/ PickDead(p) \/ AllPruned(p)
       \/ \E f \in StateFile : ReadDirty(p, f) \/ PruneFile(p, f)

PollSpec == PollInit /\ [][PollNext]_pollVars

-----------------------------------------------------------------------------
Quiet(p) == polling[p] = "idle" /\ changed[p] = {} /\ deleted[p] = {}

(* A poller with no event left to take knows of each file what it holds,   *)
(* be it written, deleted, pruned by others and written again between two  *)
(* polls; only where the file's state is dead may it keep an older one.    *)
CacheFollowsFiles ==
  \A p \in Poller, f \in StateFile :
    Quiet(p) /\ disk[f] \notin dead => cache[p][f] = disk[f]

(* A prune deletes a live state only if it was written after the pruning   *)
(* poll had taken its events: what a poll was told of it does not delete.  *)
LivePrunedUnseen == mourned = {}
=============================================================================
