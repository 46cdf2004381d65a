---------------------------- MODULE StateInference ----------------------------
(***************************************************************************)
(* What a session's byte processor makes of the output (terminal.rs): the  *)
(* command marks of OSC 633 (thermal-terminal/src/osc633.rs) and the       *)
(* patterns of the recent lines become a status, which is written to the   *)
(* state file, no more than twice a second                                 *)
(* (thermal-terminal/src/state_inference.rs).  A chunk of output has its   *)
(* marks read first, and is then fed to the inference.  What the daemon is *)
(* told as the status changes is left out.                                 *)
(***************************************************************************)
EXTENDS Naturals, Sequences

CONSTANTS
  AgentTool,      \* names a tool call pattern captures
  NoTool

ASSUME NoToolAssumption ==
  NoTool \notin AgentTool \cup {"idle", "processing", "awaiting"}

VARIABLES
  chunk,          \* is the byte processor on a chunk, or at its end?
  block,          \* CommandTracker.current_block: state and exit code
  commandState,   \* last_command_state
  startedAt,      \* is command_started_at set?
  lastExit,       \* last_exit_code
  matched,        \* the patterns found in the recent lines
  agentKnown,     \* effective_agent_type
  inferred,       \* last_status
  dirty,          \* does the state file lack something?
  throttled,      \* less than MIN_WRITE_INTERVAL since the last write
  stateJson,      \* the status in the state file
  spoilt          \* history: has a write failed since the last good one?

commandVars == <<block, commandState, startedAt, lastExit>>
inferenceVars == <<chunk, commandVars, matched, agentKnown, inferred, dirty,
                   throttled, stateJson, spoilt>>

NoFile == "none"
ExitCode == {"none", "zero", "failure"}
CommandState == {"none", "prompt", "input", "executing", "finished"}
AgentStatus == {"idle", "processing", "awaiting"} \cup AgentTool

(* An awaiting-input pattern, the nearest tool call, whether that is among *)
(* the eleven last lines, and a spinner.                                   *)
Pattern == [awaits : BOOLEAN, tool : AgentTool \cup {NoTool}, near : BOOLEAN,
            spinner : BOOLEAN]

(* The marks A to D, D with its exit code, and E.                          *)
Mark == {"A", "B", "C", "E"} \cup ({"D"} \X ExitCode)

InferenceTypeOK ==
  /\ chunk \in {"none", "read", "ended"}
  /\ block \in [state : CommandState, exit : ExitCode]
  /\ commandState \in CommandState
  /\ lastExit \in ExitCode
  /\ matched \in Pattern
  /\ {startedAt, agentKnown, dirty, throttled, spoilt} \subseteq BOOLEAN
  /\ inferred \in AgentStatus
  /\ stateJson \in AgentStatus \cup {NoFile}

InferenceInit ==
  /\ chunk = "none"
  /\ block = [state |-> "none", exit |-> "none"]
  /\ commandState = "none" /\ startedAt = FALSE /\ lastExit = "none"
  /\ matched = [awaits |-> FALSE, tool |-> NoTool, near |-> FALSE,
                spinner |-> FALSE]
  /\ agentKnown \in BOOLEAN
  /\ inferred = "idle" /\ dirty = FALSE /\ throttled = FALSE
  /\ stateJson = NoFile
  /\ spoilt = FALSE

-----------------------------------------------------------------------------
(* CommandTracker::apply: A starts a block, and the others need one.       *)
ApplyMark(b, mark) ==
  CASE mark = "A" -> [state |-> "prompt", exit |-> "none"]
    [] mark = "B" /\ b.state # "none" -> [b EXCEPT !.state = "input"]
    [] mark = "C" /\ b.state # "none" -> [b EXCEPT !.state = "executing"]
    [] mark \in {"D"} \X ExitCode /\ b.state # "none" ->
         [state |-> "finished", exit |-> mark[2]]
    [] OTHER -> b

(* infer_status: a tool call counts for longer while a command executes,   *)
(* and a prompt in the output counts for nothing then.                     *)
InferStatus(seen, state) ==
  CASE state = "executing" ->
         IF seen.tool # NoTool THEN seen.tool ELSE "processing"
    [] state # "executing" /\ seen.awaits -> "awaiting"
    [] state # "executing" /\ ~seen.awaits /\ seen.tool # NoTool /\ seen.near ->
         seen.tool
    [] OTHER ->
         IF seen.spinner THEN "processing"
         ELSE IF state \in {"prompt", "input"} THEN "awaiting" ELSE "idle"

(* Fault: the flag is cleared although the write is throttled.             *)
InferAndWriteOnce(seen, state, known, touched, works) ==
  LET status == InferStatus(seen, state)
      due == (dirty \/ touched \/ status # inferred) /\ ~throttled /\ known
  IN
  /\ inferred' = status
  /\ dirty' = FALSE
  /\ stateJson' = IF due /\ works THEN status ELSE stateJson
  /\ throttled' = (throttled \/ (due /\ works))
  /\ spoilt' = IF due THEN ~works ELSE spoilt

(* infer_and_write, with write_state_file: a change that is throttled      *)
(* stays dirty, for the next call; one whose write fails does not.         *)
InferAndWrite(seen, state, known, touched, works) ==
  LET status == InferStatus(seen, state)
      changed == dirty \/ touched \/ status # inferred
      due == changed /\ ~throttled /\ known
  IN
  /\ inferred' = status
  /\ dirty' = (changed /\ throttled)
  /\ stateJson' = IF due /\ works THEN status ELSE stateJson
  /\ throttled' = (throttled \/ (due /\ works))
  /\ spoilt' = IF due THEN ~works ELSE spoilt

-----------------------------------------------------------------------------
(* update_command_state looks at the block the marks leave, once, and at   *)
(* every mark: one that comes after D has it finish again, and one after C *)
(* in the same chunk hides that the command started.  A changed command    *)
(* line is newText.                                                        *)
Touches(now, newText) ==
  \/ now.state = "executing" /\ ~startedAt /\ newText
  \/ /\ now.state = "finished"
     /\ newText \/ startedAt \/ now.exit = "none" \/ now.exit # lastExit

UpdateCommandState(now, newText, works) ==
  /\ startedAt' = (now.state = "executing" \/ (now.state = "input" /\ startedAt))
  /\ lastExit' = IF now.state = "finished" THEN now.exit ELSE lastExit
  /\ commandState' = now.state
  /\ IF now.state # commandState
       THEN InferAndWrite(matched, now.state, agentKnown,
                          Touches(now, newText), works)
       ELSE /\ dirty' = (dirty \/ Touches(now, newText))
            /\ UNCHANGED <<inferred, stateJson, throttled, spoilt>>

(* The marks of a chunk; without a block there is nothing to update.       *)
ReadMarks(first, second, newText, works) ==
  /\ chunk = "none"
  /\ chunk' = "read"
  /\ block' = ApplyMark(ApplyMark(block, first), second)
  /\ IF block'.state = "none"
       THEN UNCHANGED <<commandState, startedAt, lastExit, inferred, dirty,
                        throttled, stateJson, spoilt>>
       ELSE UpdateCommandState(block', newText, works)
  /\ UNCHANGED <<matched, agentKnown>>

(* feed_bytes: the recent lines change, the agent may show itself, or its  *)
(* model or context (noted), and the status is inferred anew.              *)
FeedBytes(seen, shows, noted, works) ==
  /\ chunk # "ended"
  /\ chunk' = "none"
  /\ matched' = seen
  /\ agentKnown' = (agentKnown \/ shows)
  /\ InferAndWrite(seen, commandState, agentKnown',
                   noted \/ agentKnown' # agentKnown, works)
  /\ UNCHANGED commandVars

IntervalPasses ==
  /\ throttled
  /\ throttled' = FALSE
  /\ UNCHANGED <<chunk, commandVars, matched, agentKnown, inferred, dirty,
                 stateJson, spoilt>>

(* The output ends, and the state file goes (cleanup).                     *)
OutputEnds ==
  /\ chunk = "none"
  /\ chunk' = "ended"
  /\ stateJson' = NoFile
  /\ UNCHANGED <<commandVars, matched, agentKnown, inferred, dirty, throttled,
                 spoilt>>

InferenceNext ==
  \/ \E first, second \in Mark, newText, works \in BOOLEAN :
       ReadMarks(first, second, newText, works)
  \/ \E seen \in Pattern, shows, noted, works \in BOOLEAN :
       FeedBytes(seen, shows, noted, works)
  \/ IntervalPasses
  \/ OutputEnds

InferenceSpec == InferenceInit /\ [][InferenceNext]_inferenceVars

-----------------------------------------------------------------------------
(* While the output lasts, the state file of a known agent has the status  *)
(* that was inferred last, or the flag is up that has the next chunk write *)
(* it, unless a write failed: a throttled change is never forgotten.       *)
FileFollowsStatus ==
  agentKnown /\ chunk # "ended" /\ ~dirty /\ ~spoilt =>
    stateJson = inferred \/ (stateJson = NoFile /\ inferred = "idle")
=============================================================================
