------------------------------ MODULE Dispatcher ------------------------------
(***************************************************************************)
(* Voice commands in the dispatcher (thermal-dispatcher): each connection  *)
(* is a task of its own that shows "thinking" in the HUD's state file,     *)
(* asks a model with the conversation so far, runs the tools the model     *)
(* calls, at most so many times, adds the turn to the conversation and     *)
(* shows how it ended.  All tasks write the state file through one         *)
(* temporary file, and share the conversation under a lock they hold only  *)
(* to read it at the start and to add to it at the end.                    *)
(*                                                                         *)
(* What the tools, the message bus and the speech output do is outside;    *)
(* the rounds of tool calls of one command, ten at most, end in an answer, *)
(* in giving up, which counts as one, or in an error.                      *)
(***************************************************************************)
EXTENDS Naturals, SequencesExt

CONSTANTS
  MaxCommand,      \* bound: commands, one connection each
  MaxTurns,        \* MAX_TURN_PAIRS
  SessionTimeout,  \* SESSION_TIMEOUT
  MaxClock         \* bound: the clock

ASSUME DispatchAssumption ==
  MaxTurns \in Nat \ {0} /\ {MaxCommand, SessionTimeout, MaxClock} \subseteq Nat

VARIABLES
  step,            \* what each command's task does next
  writing,         \* the state it is writing to the HUD
  tmpFile,         \* HUD_STATE_FILE.tmp
  hudFile,         \* HUD_STATE_FILE
  handle,          \* which file a task's open handle writes to
  unsaid,          \* history: the end of a command could not be shown, and
                   \* that of no command has reached the HUD since
  now,             \* Instant::now
  turns,           \* ConversationContext.turns
  lastInteraction, \* ConversationContext.last_interaction
  began,           \* when each command read the conversation
  messages,        \* the turns it was given
  completed,       \* history: all turns ever added, in order
  completedBefore  \* history: how many when each command began

hudVars == <<writing, tmpFile, hudFile, handle, unsaid>>
talkVars == <<turns, lastInteraction, began, messages, completed, completedBefore>>
dispatchVars == <<step, hudVars, now, talkVars>>

Command == 1 .. MaxCommand
HudState == {"thinking", "result", "error"}
Content == HudState \cup {"none", "empty", "torn"}

DispatchTypeOK ==
  /\ step \in [Command -> {"connected", "open", "fill", "rename", "dispatch",
                           "ask", "done"}]
  /\ writing \in [Command -> HudState]
  /\ {tmpFile, hudFile} \subseteq Content
  /\ handle \in [Command -> {"closed", "tmp", "hud", "gone"}]
  /\ unsaid \in BOOLEAN
  /\ now \in 0 .. MaxClock /\ lastInteraction \in 0 .. now
  /\ began \in [Command -> 0 .. now]
  /\ turns \in Seq(Command) /\ completed \in Seq(Command)
  /\ messages \in [Command -> Seq(Command)]
  /\ \A c \in Command : completedBefore[c] \in 0 .. Len(completed)

DispatchInit ==
  /\ step = [c \in Command |-> "connected"]
  /\ writing = [c \in Command |-> "thinking"]
  /\ tmpFile = "none" /\ hudFile = "none"
  /\ handle = [c \in Command |-> "closed"]
  /\ unsaid = FALSE
  /\ now = 0 /\ lastInteraction = 0
  /\ turns = <<>> /\ completed = <<>>
  /\ began = [c \in Command |-> 0]
  /\ messages = [c \in Command |-> <<>>]
  /\ completedBefore = [c \in Command |-> 0]

-----------------------------------------------------------------------------
Becomes(c, s) == step' = [step EXCEPT ![c] = s]

(* Connections are named in the order their tasks read them.  A transcript *)
(* is shown as being thought about; an empty or unreadable message is      *)
(* refused.                                                                *)
ReceiveTranscript(c) ==
  /\ step[c] = "connected" /\ \A d \in 1 .. c - 1 : step[d] # "connected"
  /\ Becomes(c, "open") \/ Becomes(c, "done")
  /\ UNCHANGED <<hudVars, now, talkVars>>

-----------------------------------------------------------------------------
(* write_hud_state.                                                        *)

(* What a task does after a write, whether or not it succeeded.            *)
GoesOn(c) == Becomes(c, IF writing[c] = "thinking" THEN "dispatch" ELSE "done")

(* A failure is logged, and nothing else is tried.                         *)
GivesUp(c) ==
  /\ GoesOn(c)
  /\ unsaid' = (unsaid \/ writing[c] # "thinking")

(* The temporary file is created, or emptied if another task has it open;  *)
(* or it cannot be opened.                                                 *)
OpenTmp(c) ==
  /\ step[c] = "open"
  /\ \/ /\ tmpFile' = "empty"
        /\ handle' = [handle EXCEPT ![c] = "tmp"]
        /\ Becomes(c, "fill") /\ UNCHANGED unsaid
     \/ GivesUp(c) /\ UNCHANGED <<tmpFile, handle>>
  /\ UNCHANGED <<writing, hudFile, now, talkVars>>

(* Written from its start over what is there, which may be longer; a write *)
(* that fails may have got somewhere.                                      *)
Over(old, new, whole) ==
  IF ~whole THEN {old, "torn"}
  ELSE IF old = "empty" THEN {new} ELSE {new, "torn"}

FillTmp(c) ==
  /\ step[c] = "fill"
  /\ \E whole \in BOOLEAN :
       /\ IF handle[c] = "tmp" THEN tmpFile' \in Over(tmpFile, writing[c], whole)
                               ELSE UNCHANGED tmpFile
       /\ IF handle[c] = "hud" THEN hudFile' \in Over(hudFile, writing[c], whole)
                               ELSE UNCHANGED hudFile
       /\ IF whole THEN Becomes(c, "rename") /\ UNCHANGED unsaid
                   ELSE GivesUp(c)
  /\ handle' = [handle EXCEPT ![c] = "closed"]
  /\ UNCHANGED <<writing, now, talkVars>>

(* The handles other tasks have keep to the file they opened.  A rename    *)
(* that finds no file, another task having renamed it, or fails otherwise, *)
(* is logged.                                                              *)
RenameTmp(c) ==
  /\ step[c] = "rename"
  /\ \/ /\ tmpFile # "none"
        /\ hudFile' = tmpFile
        /\ tmpFile' = "none"
        /\ handle' = [d \in Command |->
             CASE handle[d] = "tmp" -> "hud"
               [] handle[d] = "hud" -> "gone"
               [] OTHER -> handle[d]]
        /\ GoesOn(c)
        /\ unsaid' = (unsaid /\ tmpFile \notin {"result", "error"})
     \/ /\ tmpFile = "none"
        /\ GoesOn(c) /\ UNCHANGED <<tmpFile, hudFile, handle, unsaid>>
     \/ /\ tmpFile # "none"
        /\ GivesUp(c) /\ UNCHANGED <<tmpFile, hudFile, handle>>
  /\ UNCHANGED <<writing, now, talkVars>>

-----------------------------------------------------------------------------
Expired == now - lastInteraction > SessionTimeout

(* Fault: the conversation is never touched, so its age is its whole life. *)
BeginDispatchUntouched(c) ==
  /\ step[c] = "dispatch"
  /\ turns' = IF Expired THEN <<>> ELSE turns
  /\ lastInteraction' = IF Expired THEN now ELSE lastInteraction
  /\ began' = [began EXCEPT ![c] = now]
  /\ messages' = [messages EXCEPT ![c] = turns']
  /\ completedBefore' = [completedBefore EXCEPT ![c] = Len(completed)]
  /\ Becomes(c, "ask")
  /\ UNCHANGED <<hudVars, now, completed>>

(* dispatch_command, under the lock: reset when expired, touch, and read.  *)
BeginDispatch(c) ==
  /\ step[c] = "dispatch"
  /\ turns' = IF Expired THEN <<>> ELSE turns
  /\ lastInteraction' = now
  /\ began' = [began EXCEPT ![c] = now]
  /\ messages' = [messages EXCEPT ![c] = turns']
  /\ completedBefore' = [completedBefore EXCEPT ![c] = Len(completed)]
  /\ Becomes(c, "ask")
  /\ UNCHANGED <<hudVars, now, completed>>

(* add_turn: the oldest goes when there are too many.                      *)
WithTurn(c) ==
  LET all == Append(turns, c)
  IN IF Len(all) > MaxTurns THEN Tail(all) ELSE all

(* The task's own variables go with it.                                    *)
StopsAsking(c) ==
  /\ messages' = [messages EXCEPT ![c] = <<>>]
  /\ completedBefore' = [completedBefore EXCEPT ![c] = 0]

(* It answers, or the dispatcher gives up on it.  Either is a turn.        *)
Answer(c) ==
  /\ step[c] = "ask"
  /\ turns' = WithTurn(c)
  /\ completed' = Append(completed, c)
  /\ writing' = [writing EXCEPT ![c] = "result"]
  /\ Becomes(c, "open")
  /\ StopsAsking(c)
  /\ UNCHANGED <<tmpFile, hudFile, handle, unsaid, now, lastInteraction,
                 began>>

(* Fault: a failed command returns before the HUD is told.                 *)
ModelFailsSilently(c) ==
  /\ step[c] = "ask"
  /\ Becomes(c, "done")
  /\ StopsAsking(c)
  /\ UNCHANGED <<hudVars, now, turns, lastInteraction, began, completed>>

(* The call fails: no turn, and the HUD shows the error.                   *)
ModelFails(c) ==
  /\ step[c] = "ask"
  /\ writing' = [writing EXCEPT ![c] = "error"]
  /\ Becomes(c, "open")
  /\ StopsAsking(c)
  /\ UNCHANGED <<tmpFile, hudFile, handle, unsaid, now, turns,
                 lastInteraction, began, completed>>

ClockTicks ==
  /\ now < MaxClock
  /\ now' = now + 1
  /\ UNCHANGED <<step, hudVars, talkVars>>

DispatchNext ==
  \/ ClockTicks
  \/ \E c \in Command :
       \/ ReceiveTranscript(c)
       \/ OpenTmp(c) \/ FillTmp(c) \/ RenameTmp(c)
       \/ BeginDispatch(c) \/ Answer(c) \/ ModelFails(c)

DispatchSpec == DispatchInit /\ [][DispatchNext]_dispatchVars

-----------------------------------------------------------------------------
(* Once no command is in progress the HUD does not say that one is: the    *)
(* last word in its file is how a command ended, or what two tasks that    *)
(* wrote at once have left of it, whichever of them renamed it.  Failed    *)
(* writes of "thinking" do no harm; one of how a command ended is not made *)
(* up for until the end of another command gets into the file.             *)
HudSettles ==
  /\ ~unsaid
  /\ \A c \in Command : step[c] \in {"connected", "done"}
  => hudFile \notin {"thinking", "empty"}

(* A command that follows another within the session timeout, counted from *)
(* one start to the other, is told that one's turn if it was complete by   *)
(* then and is among the last MaxTurns, however many tasks ran, expired or *)
(* failed in between.                                                      *)
RecentTurnsAreTold ==
  \A c \in Command : step[c] = "ask" =>
    \A i \in 1 .. completedBefore[c] :
      LET earlier == completed[i]
      IN /\ began[c] - began[earlier] <= SessionTimeout
         /\ i + MaxTurns > completedBefore[c]
         => earlier \in Range(messages[c])
=============================================================================
