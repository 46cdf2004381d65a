------------------------------ MODULE MCDesktop ------------------------------
(* Instances for TLC of the desktop programs that serve one user and do not *)
(* talk to each other: a behaviour picks one of them and runs it, while the *)
(* others rest in their initial states.  Voice capture runs by itself in    *)
(* its listen modes, and together with the announcer, which reads its state *)
(* file, as the push-to-talk daemon, there with no other writer of the file *)
(* and no write that fails.  The commands of the dispatcher share two       *)
(* things that know nothing of each other: the HUD's file, here while the   *)
(* clock stands, and the conversation, here while that file cannot be       *)
(* written.                                                                 *)
EXTENDS NotifyStack, LockScreen, VoiceCapture, Announcer, Dispatcher

VARIABLE running   \* the program of this behaviour

desktopVars == <<running, notifyVars, lockVars, voiceVars, announcerVars,
                 dispatchVars>>

DesktopInit ==
  /\ running \in {"notify", "lock", "capture", "audio", "hud", "dispatcher"}
  /\ NotifyInit /\ LockInit /\ VoiceInit /\ AnnouncerInit /\ DispatchInit
  /\ mode = "ptt" <=> running # "capture"

NotifyRuns ==
  /\ running = "notify" /\ NotifyNext
  /\ UNCHANGED <<lockVars, voiceVars, announcerVars, dispatchVars>>

LockRuns ==
  /\ running = "lock" /\ LockNext
  /\ UNCHANGED <<notifyVars, voiceVars, announcerVars, dispatchVars>>

CaptureRuns ==
  /\ running = "capture" /\ VoiceNext
  /\ UNCHANGED <<notifyVars, lockVars, muted, loopVars, clips, playerVars,
                 dispatchVars>>

AudioRuns ==
  /\ running = "audio"
  /\ \/ /\ VoiceNext /\ voiceWriter' = "capture" /\ UNCHANGED taskVars
        /\ UNCHANGED <<muted, loopVars, clips, playerVars>>
     \/ AnnouncerNext /\ UNCHANGED voiceVars
  /\ UNCHANGED <<notifyVars, lockVars, dispatchVars>>

DispatcherRuns ==
  /\ \/ running = "hud" /\ now' = now
     \/ running = "dispatcher" /\ tmpFile' = "none"
  /\ DispatchNext
  /\ UNCHANGED <<notifyVars, lockVars, voiceVars, announcerVars>>

DesktopNext ==
  /\ UNCHANGED running
  /\ NotifyRuns \/ LockRuns \/ CaptureRuns \/ AudioRuns \/ DispatcherRuns

(* The notification daemon's loop runs at 60 Hz, timers run out, and a     *)
(* texture is to be had now and then.                                      *)
DesktopFairness ==
  /\ WF_notifyVars(running = "notify" /\ (Drain \/ TickStack))
  /\ SF_notifyVars(running = "notify" /\ Draw(TRUE))
  /\ WF_notifyVars(running = "notify" /\ \E n \in Range(cards) : FadesOut(n))

DesktopSpec ==
  DesktopInit /\ [][DesktopNext]_desktopVars /\ DesktopFairness

(* Every variable of the programs has its type.                            *)
DesktopTypeOK ==
  /\ NotifyTypeOK /\ LockTypeOK /\ VoiceTypeOK /\ AnnouncerTypeOK
  /\ DispatchTypeOK
=============================================================================
