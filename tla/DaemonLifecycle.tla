--------------------------- MODULE DaemonLifecycle ---------------------------
(***************************************************************************)
(* The session daemon's processes and the files they share: the flock that *)
(* lets one run (thermal-runtime/src/runtime.rs), the pidfile, the socket  *)
(* and the state file a clean shutdown leaves for the next daemon          *)
(* (run_daemon in daemon/entry.rs, persist.rs), with the clients that      *)
(* delete a socket nobody answers on and the tool that kills daemons       *)
(* (daemon_lifecycle.rs).                                                  *)
(*                                                                         *)
(* A process is a number, in the order of their starts, and runs once.     *)
(***************************************************************************)
EXTENDS Naturals, FiniteSets

CONSTANTS
  MaxProcess,     \* bound: how many daemons are started
  Prober          \* clients that may find the socket refused

ASSUME MaxProcessAssumption == MaxProcess \in Nat

Process == 1 .. MaxProcess
NoProcess == 0

VARIABLES
  stage,          \* how far each process is through run_daemon
  hosts,          \* processes with sessions
  socketFile,     \* the process that bound conductor.sock, NoProcess without it
  pidFile,        \* the process in conductor.pid
  stateFile,      \* the process whose sessions sessiond-state.json lists
  prober,         \* clients and the tool: about to delete files, or not
  cutOff,         \* history: processes whose socket somebody else deleted
  unlisted,       \* history: processes whose pidfile somebody else deleted
  saved,          \* history: processes that saved their sessions
  reported        \* history: processes whose sessions a later one reported

lifecycleVars == <<stage, hosts, socketFile, pidFile, stateFile, prober, cutOff,
                   unlisted, saved, reported>>

Starting == {"locked", "listed", "sweeping", "binding", "bound", "loaded"}
Stopping == {"stopping", "saved", "unlinked"}
Tool == "tool"

LifecycleTypeOK ==
  /\ stage \in [Process -> {"unborn", "serving", "gone"} \cup Starting
                           \cup Stopping]
  /\ hosts \subseteq Process
  /\ {socketFile, pidFile, stateFile} \subseteq Process \cup {NoProcess}
  /\ prober \in [Prober \cup {Tool} -> {"idle", "deleting"}]
  /\ {cutOff, unlisted, saved, reported} \subseteq SUBSET Process

LifecycleInit ==
  /\ stage = [p \in Process |-> "unborn"]
  /\ hosts = {}
  /\ socketFile = NoProcess /\ pidFile = NoProcess /\ stateFile = NoProcess
  /\ prober = [c \in Prober \cup {Tool} |-> "idle"]
  /\ cutOff = {} /\ unlisted = {} /\ saved = {} /\ reported = {}

-----------------------------------------------------------------------------
(* Fault: the lock goes when the accept loop ends, ahead of the clean-up.  *)
HoldsLockUntilStopping(p) == stage[p] \in Starting \cup {"serving"}

(* The kernel frees the flock with the process, however it ends.           *)
HoldsLock(p) == stage[p] \in Starting \cup {"serving"} \cup Stopping

(* A connection is refused unless the process that bound the file accepts: *)
(* the listener goes when the accept loop ends.                            *)
Listening(p) == p # NoProcess /\ stage[p] \in {"bound", "loaded", "serving"}

Goes(p, next) == stage' = [stage EXCEPT ![p] = next]

DeletesSocket ==
  /\ socketFile' = NoProcess
  /\ cutOff' = cutOff \cup ({socketFile} \ {NoProcess})

(* acquire_instance_lock: a process that does not get the lock exits.      *)
StartProcess(p) ==
  /\ stage[p] = "unborn"
  /\ \A q \in Process : q < p => stage[q] # "unborn"
  /\ Goes(p, IF \E q \in Process : HoldsLock(q) THEN "gone" ELSE "locked")
  /\ UNCHANGED <<hosts, socketFile, pidFile, stateFile, prober, cutOff, unlisted,
                 saved, reported>>

WritePidfile(p) ==
  /\ stage[p] = "locked"
  /\ Goes(p, "listed")
  /\ pidFile' = p
  /\ UNCHANGED <<hosts, socketFile, stateFile, prober, cutOff, unlisted, saved,
                 reported>>

(* cleanup_stale_socket: only a socket nobody listens on is deleted.       *)
ProbeSocket(p) ==
  /\ stage[p] = "listed"
  /\ Goes(p, IF socketFile = NoProcess \/ Listening(socketFile) THEN "binding"
             ELSE "sweeping")
  /\ UNCHANGED <<hosts, socketFile, pidFile, stateFile, prober, cutOff, unlisted,
                 saved, reported>>

SweepSocket(p) ==
  /\ stage[p] = "sweeping"
  /\ Goes(p, "binding")
  /\ DeletesSocket
  /\ UNCHANGED <<hosts, pidFile, stateFile, prober, unlisted, saved, reported>>

(* A bind on a path that exists fails, and the process with it.            *)
Bind(p) ==
  /\ stage[p] = "binding"
  /\ IF socketFile = NoProcess
       THEN Goes(p, "bound") /\ socketFile' = p
       ELSE Goes(p, "gone") /\ UNCHANGED socketFile
  /\ UNCHANGED <<hosts, pidFile, stateFile, prober, cutOff, unlisted, saved,
                 reported>>

(* Fault: the file is deleted as it is read, its sessions reported later.  *)
DeleteStateFirst(p) ==
  /\ stage[p] = "bound"
  /\ Goes(p, "loaded")
  /\ stateFile' = NoProcess
  /\ UNCHANGED <<hosts, socketFile, pidFile, prober, cutOff, unlisted, saved,
                 reported>>

(* recover_sessions reads the file and reports its sessions,               *)
LoadState(p) ==
  /\ stage[p] = "bound"
  /\ Goes(p, "loaded")
  /\ reported' = reported \cup ({stateFile} \ {NoProcess})
  /\ UNCHANGED <<hosts, socketFile, pidFile, stateFile, prober, cutOff, unlisted,
                 saved>>

(* and then deletes it.                                                    *)
RemoveState(p) ==
  /\ stage[p] = "loaded"
  /\ Goes(p, "serving")
  /\ stateFile' = NoProcess
  /\ UNCHANGED <<hosts, socketFile, pidFile, prober, cutOff, unlisted, saved,
                 reported>>

(* While it serves, sessions come and go.                                  *)
Serve(p) ==
  /\ stage[p] = "serving"
  /\ \/ hosts' = hosts \cup {p}
     \/ hosts' = hosts \ {p}
  /\ UNCHANGED <<stage, socketFile, pidFile, stateFile, prober, cutOff, unlisted,
                 saved, reported>>

-----------------------------------------------------------------------------
(* SIGTERM ends the accept loop once there is a handler for it, and the    *)
(* process before that; during a shutdown it does nothing more.            *)
Terminated(s) ==
  IF s = "serving" THEN "stopping" ELSE IF s \in Starting THEN "gone" ELSE s

Terminate(p) ==
  /\ stage[p] \in Starting \cup {"serving"}
  /\ Goes(p, Terminated(stage[p]))
  /\ UNCHANGED <<hosts, socketFile, pidFile, stateFile, prober, cutOff, unlisted,
                 saved, reported>>

(* A crash, SIGKILL, or a start-up error.                                  *)
Crash(p) ==
  /\ HoldsLock(p)
  /\ Goes(p, "gone")
  /\ UNCHANGED <<hosts, socketFile, pidFile, stateFile, prober, cutOff, unlisted,
                 saved, reported>>

(* save_state, which may fail, or remove_state_file without sessions.      *)
SaveState(p) ==
  /\ stage[p] = "stopping"
  /\ Goes(p, "saved")
  /\ IF p \in hosts
       THEN \/ stateFile' = p /\ saved' = saved \cup {p}
            \/ UNCHANGED <<stateFile, saved>>
       ELSE stateFile' = NoProcess /\ UNCHANGED saved
  /\ UNCHANGED <<hosts, socketFile, pidFile, prober, cutOff, unlisted, reported>>

(* The clean-up deletes whatever has the name, whoever made it.            *)
UnlinkSocket(p) ==
  /\ stage[p] = "saved"
  /\ Goes(p, "unlinked")
  /\ socketFile' = NoProcess
  /\ UNCHANGED <<hosts, pidFile, stateFile, prober, cutOff, unlisted, saved,
                 reported>>

RemovePidfile(p) ==
  /\ stage[p] = "unlinked"
  /\ Goes(p, "gone")
  /\ pidFile' = NoProcess
  /\ UNCHANGED <<hosts, socketFile, stateFile, prober, cutOff, unlisted, saved,
                 reported>>

-----------------------------------------------------------------------------
(* connect_to and try_connect_or_cleanup: a client that is refused deletes *)
(* the socket file, in a later step, and it may be another one by then.    *)
FindRefused(c) ==
  /\ prober[c] = "idle"
  /\ socketFile # NoProcess /\ ~Listening(socketFile)
  /\ prober' = [prober EXCEPT ![c] = "deleting"]
  /\ UNCHANGED <<stage, hosts, socketFile, pidFile, stateFile, cutOff, unlisted,
                 saved, reported>>

DeleteRefused(c) ==
  /\ prober[c] = "deleting"
  /\ prober' = [prober EXCEPT ![c] = "idle"]
  /\ DeletesSocket
  /\ UNCHANGED <<stage, hosts, pidFile, stateFile, unlisted, saved, reported>>

(* kill_all and force_kill_all signal every daemon there is,               *)
SignalAll(force) ==
  /\ prober[Tool] = "idle"
  /\ \E p \in Process : HoldsLock(p)
  /\ prober' = [prober EXCEPT ![Tool] = "deleting"]
  /\ stage' = [p \in Process |->
                 IF force /\ HoldsLock(p) THEN "gone" ELSE Terminated(stage[p])]
  /\ UNCHANGED <<hosts, socketFile, pidFile, stateFile, cutOff, unlisted, saved,
                 reported>>

(* and delete the socket and the pidfile at once, without waiting for the  *)
(* daemons to go (cleanup_artifacts).                                      *)
DeleteArtifacts ==
  /\ prober[Tool] = "deleting"
  /\ prober' = [prober EXCEPT ![Tool] = "idle"]
  /\ DeletesSocket
  /\ pidFile' = NoProcess
  /\ unlisted' = unlisted \cup ({pidFile} \ {NoProcess})
  /\ UNCHANGED <<stage, hosts, stateFile, saved, reported>>

LifecycleNext ==
  \/ \E p \in Process :
       \/ StartProcess(p) \/ WritePidfile(p) \/ ProbeSocket(p) \/ SweepSocket(p)
       \/ Bind(p) \/ LoadState(p) \/ RemoveState(p) \/ Serve(p)
       \/ Terminate(p) \/ Crash(p)
       \/ SaveState(p) \/ UnlinkSocket(p) \/ RemovePidfile(p)
  \/ \E c \in Prober : FindRefused(c) \/ DeleteRefused(c)
  \/ \E force \in BOOLEAN : SignalAll(force)
  \/ DeleteArtifacts

LifecycleSpec == LifecycleInit /\ [][LifecycleNext]_lifecycleVars

-----------------------------------------------------------------------------
(* A serving daemon can be reached and found: the socket and the pidfile   *)
(* are its own, whatever crashes and restarts came before and however the  *)
(* shutdown of its predecessor overlapped its start, unless a client or    *)
(* the tool deleted them.                                                  *)
FilesAreOwn ==
  \A p \in Process : stage[p] = "serving" =>
    /\ socketFile = p \/ p \in cutOff
    /\ pidFile = p \/ p \in unlisted

(* The sessions of a clean shutdown are not forgotten: they stay in the    *)
(* state file until a later daemon, however often daemons crash on the     *)
(* way, has reported them.                                                 *)
SavedIsReported ==
  \A p \in saved : stateFile = p \/ p \in reported
=============================================================================
