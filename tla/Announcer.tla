----------------------------- MODULE Announcer -----------------------------
(***************************************************************************)
(* The announcements of thermal-audio (main.rs, event mode): the loop that *)
(* turns daemon events, replays and socket requests into speech, the queue *)
(* of what was suppressed while the microphone was in use, and the player  *)
(* thread with the mpv process it shares with the interrupt.               *)
(*                                                                         *)
(* The loop, the control connections and voice capture share one thread:   *)
(* they interleave at awaits only, and the loop's only await that matters  *)
(* is edge-tts.  A cached clip is one whose generation ends at once.       *)
(***************************************************************************)
EXTENDS Naturals, SequencesExt, VoiceFile

CONSTANTS
  Speaker,         \* sessions that are announced
  MaxText,         \* bound: announcements and requests
  MaxRequest,      \* bound: requests on audio.sock among them
  SuppressedMax    \* entries of the suppressed queue (8 in the code)

ASSUME AnnouncerAssumption ==
  SuppressedMax \in Nat \ {0} /\ {MaxText, MaxRequest} \subseteq Nat

VARIABLES
  muted,           \* AudioState.muted
  wasActive,       \* SuppressedQueue.was_voice_active
  suppressed,      \* SuppressedQueue.entries
  recent,          \* sessions announced less than DEBOUNCE_MS ago
  replays,         \* what this tick drained and has still to announce
  generating,      \* the clip edge-tts is making, awaited by the loop
  linked,          \* connected to the daemon, rather than backing off
  clips,           \* the channel to the player thread
  player,          \* idle, spawned (mpv runs, not registered), playing
  current,         \* current_child
  mpvs,            \* mpv processes alive, named by their clips
  texts, requests, \* announcements and requests made so far
  spoken,          \* history: the last announcement sent to the player
  gap              \* history: seen, an announcement came between the end of
                   \* voice and the tick, with others waiting; resumed, voice
                   \* was then active again before they were dealt with

announcerVars == <<voiceFile, muted, wasActive, suppressed, recent, replays,
                   generating, linked, clips, player, current, mpvs, texts,
                   requests, spoken, gap>>
loopVars == <<wasActive, suppressed, recent, replays, generating, linked,
              texts, requests, spoken, gap>>
playerVars == <<player, current, mpvs>>

Announcement == [of : Speaker, text : 1 .. MaxText]
Request == [text : 1 .. MaxRequest, high : BOOLEAN]
Clip == Announcement \cup Request
NoClip == [text |-> 0]

AnnouncerTypeOK ==
  /\ voiceFile \in FileState
  /\ {muted, wasActive, linked} \subseteq BOOLEAN
  /\ suppressed \in Seq(Announcement) /\ Len(suppressed) <= SuppressedMax
  /\ recent \subseteq Speaker
  /\ replays \in Seq(Announcement)
  /\ generating \in Clip \cup {NoClip}
  /\ clips \in Seq(Clip)
  /\ player \in {"idle", "spawned", "playing"}
  /\ current \in Clip \cup {NoClip}
  /\ mpvs \subseteq Clip
  /\ texts \in 0 .. MaxText
  /\ requests \in 0 .. MaxRequest
  /\ spoken \in [Speaker -> 0 .. MaxText]
  /\ gap \in {"none", "seen", "resumed"}

AnnouncerInit ==
  /\ voiceFile \in FileState
  /\ muted = FALSE
  /\ wasActive = FALSE
  /\ suppressed = <<>>
  /\ recent = {}
  /\ replays = <<>>
  /\ generating = NoClip
  /\ linked = TRUE
  /\ clips = <<>>
  /\ player = "idle"
  /\ current = NoClip
  /\ mpvs = {}
  /\ texts = 0
  /\ requests = 0
  /\ spoken = [s \in Speaker |-> 0]
  /\ gap = "none"

(* The loop is back at its select.                                         *)
LoopFree == generating = NoClip /\ replays = <<>>

(* The history, when the loop sees the voice state and when it goes on.    *)
GapSeen ==
  gap' = CASE gap = "none" /\ ~VoiceActive /\ suppressed # <<>> -> "seen"
           [] gap = "seen" /\ VoiceActive -> "resumed"
           [] OTHER -> gap

GapSettles ==
  gap' = IF suppressed' = <<>> /\ replays' = <<>> /\ generating' = NoClip
           THEN "none"
         ELSE IF gap = "seen" /\ VoiceActive /\ LoopFree THEN "resumed"
         ELSE gap

-----------------------------------------------------------------------------
(* announce: dropped within the debounce window, which it opens before     *)
(* edge-tts is asked.                                                      *)
Announce(a) ==
  IF a.of \in recent
    THEN UNCHANGED <<recent, generating>>
    ELSE recent' = recent \cup {a.of} /\ generating' = a

(* Fault: newest first, so that a session's place follows its last text.   *)
SuppressKeepsAll(a) ==
  IF Len(suppressed) >= SuppressedMax
    THEN Append(Tail(suppressed), a) ELSE <<a>> \o suppressed

(* Fault: the queue is trimmed only once it is over its limit.             *)
SuppressOverCap(a) ==
  LET others == SelectSeq(suppressed, LAMBDA e : e.of # a.of) IN
  Append(IF Len(others) > SuppressedMax THEN Tail(others) ELSE others, a)

(* What retain leaves when the entry of a session goes: push, which alone  *)
(* adds to the queue, keeps no more than one of each.                      *)
Others(s) ==
  LET mine == {i \in DOMAIN suppressed : suppressed[i].of = s} IN
  IF mine = {} THEN suppressed ELSE RemoveAt(suppressed, CHOOSE i \in mine : TRUE)

(* SuppressedQueue::push: the latest per session, the oldest goes.         *)
Suppress(a) ==
  LET others == Others(a.of) IN
  Append(IF Len(others) >= SuppressedMax THEN Tail(others) ELSE others, a)

(* An event of session s with a text to announce.  Whether voice is active *)
(* is recorded for the next tick, announced or not.                        *)
Event(s) ==
  /\ linked /\ LoopFree /\ texts + requests < MaxText
  /\ texts' = texts + 1
  /\ wasActive' = VoiceActive
  /\ GapSeen
  /\ LET a == [of |-> s, text |-> texts + 1] IN
     IF ~muted /\ ~VoiceActive
       THEN Announce(a) /\ UNCHANGED suppressed
       ELSE /\ suppressed' = IF muted THEN suppressed ELSE Suppress(a)
            /\ UNCHANGED <<recent, generating>>
  /\ UNCHANGED <<voiceFile, muted, replays, linked, clips, playerVars,
                 requests, spoken>>

(* The 500 ms tick, check_and_drain: replay when voice has just ended,     *)
(* wipe what is there when it had ended before.                            *)
Tick ==
  /\ linked /\ LoopFree
  /\ wasActive' = VoiceActive
  /\ suppressed' = IF VoiceActive THEN suppressed ELSE <<>>
  /\ replays' = IF wasActive /\ ~VoiceActive /\ ~muted THEN suppressed
                ELSE <<>>
  /\ UNCHANGED <<voiceFile, muted, recent, generating, linked, clips,
                 playerVars, texts, requests, spoken>>
  /\ GapSettles

(* The tick's loop over what it drained: one announce after the other.     *)
Replay ==
  /\ replays # <<>> /\ generating = NoClip
  /\ Announce(Head(replays))
  /\ replays' = Tail(replays)
  /\ UNCHANGED <<voiceFile, muted, wasActive, suppressed, linked, clips,
                 playerVars, texts, requests, spoken>>
  /\ GapSettles

(* A request on audio.sock: served while backing off too, and whatever the *)
(* microphone does.                                                        *)
Speak(high) ==
  /\ LoopFree /\ requests < MaxRequest /\ texts + requests < MaxText
  /\ requests' = requests + 1
  /\ generating' = IF muted THEN NoClip
                   ELSE [text |-> requests + 1, high |-> high]
  /\ UNCHANGED <<voiceFile, muted, wasActive, suppressed, recent, replays,
                 linked, clips, playerVars, texts, spoken, gap>>

(* Fault: forget it and leave it running.                                  *)
InterruptForgets == mpvs' = mpvs /\ current' = NoClip

(* interrupt_current: kill and reap the registered mpv, then forget it.    *)
Interrupt == mpvs' = mpvs \ {current} /\ current' = NoClip

(* edge-tts has made the clip: a request of high priority first stops what *)
(* is playing; the player gets it at the end of its queue either way.      *)
Generated ==
  /\ generating # NoClip
  /\ clips' = Append(clips, generating)
  /\ generating' = NoClip
  /\ IF generating \in Request /\ generating.high
       THEN Interrupt ELSE UNCHANGED <<mpvs, current>>
  /\ spoken' = IF generating \in Announcement
                 THEN [spoken EXCEPT ![generating.of] = generating.text]
                 ELSE spoken
  /\ UNCHANGED <<voiceFile, muted, wasActive, suppressed, recent, replays,
                 linked, player, texts, requests>>
  /\ GapSettles

(* It has failed: nothing is said, the debounce window stays open.         *)
GenerationFails ==
  /\ generating # NoClip
  /\ generating' = NoClip
  /\ UNCHANGED <<voiceFile, muted, wasActive, suppressed, recent, replays,
                 linked, clips, playerVars, texts, requests, spoken>>
  /\ GapSettles

(* The daemon goes away and comes back; no tick runs in between.           *)
Disconnect ==
  /\ linked /\ LoopFree
  /\ linked' = FALSE
  /\ UNCHANGED <<voiceFile, muted, wasActive, suppressed, recent, replays,
                 generating, clips, playerVars, texts, requests, spoken,
                 gap>>

Reconnect ==
  /\ ~linked /\ LoopFree
  /\ linked' = TRUE
  /\ UNCHANGED <<voiceFile, muted, wasActive, suppressed, recent, replays,
                 generating, clips, playerVars, texts, requests, spoken,
                 gap>>

(* DEBOUNCE_MS have passed since s was announced.                          *)
DebounceEnds(s) ==
  /\ s \in recent
  /\ recent' = recent \ {s}
  /\ UNCHANGED <<voiceFile, muted, wasActive, suppressed, replays,
                 generating, linked, clips, playerVars, texts, requests,
                 spoken, gap>>

-----------------------------------------------------------------------------
(* A control connection toggles or sets mute.                              *)
ToggleMute ==
  /\ muted' = ~muted
  /\ UNCHANGED <<voiceFile, loopVars, clips, playerVars>>

(* Voice capture, or another writer, writes the voice state file.          *)
VoiceChanges ==
  /\ VoiceFileNext
  /\ UNCHANGED <<muted, loopVars, clips, playerVars>>

-----------------------------------------------------------------------------
(* play_file, on the player thread: start mpv, then register it.           *)
SpawnMpv ==
  /\ player = "idle" /\ clips # <<>>
  /\ mpvs' = mpvs \cup {Head(clips)}
  /\ player' = "spawned"
  /\ UNCHANGED <<voiceFile, muted, loopVars, clips, current>>

(* Registered while the clip is still at the head of the queue, where it   *)
(* stands for the one that is played.                                      *)
RegisterMpv ==
  /\ player = "spawned"
  /\ current' = Head(clips)
  /\ clips' = Tail(clips)
  /\ player' = "playing"
  /\ UNCHANGED <<voiceFile, muted, loopVars, mpvs>>

(* mpv reaches the end of its clip.                                        *)
MpvEnds(c) ==
  /\ c \in mpvs
  /\ mpvs' = mpvs \ {c}
  /\ UNCHANGED <<voiceFile, muted, loopVars, clips, player, current>>

(* The player polls: the child has ended, or an interrupt has taken it.    *)
PollMpv ==
  /\ player = "playing" /\ current \notin mpvs
  /\ player' = "idle"
  /\ current' = NoClip
  /\ UNCHANGED <<voiceFile, muted, loopVars, clips, mpvs>>

AnnouncerNext ==
  \/ \E s \in Speaker : Event(s) \/ DebounceEnds(s)
  \/ \E high \in BOOLEAN : Speak(high)
  \/ Tick \/ Replay \/ Generated \/ GenerationFails
  \/ Disconnect \/ Reconnect \/ ToggleMute
  \/ SpawnMpv \/ RegisterMpv \/ PollMpv
  \/ \E c \in mpvs : MpvEnds(c)

(* Alone, with whatever voice capture may do to its file.                  *)
AnnouncerSpec ==
  AnnouncerInit /\ [][AnnouncerNext \/ VoiceChanges]_announcerVars

-----------------------------------------------------------------------------
(* However interrupts, polls and new clips interleave, the daemon is heard *)
(* with one voice: it never runs two mpv processes at once.                *)
OneVoice == \A c, d \in mpvs : c = d

(* What is said about a session is said in the order it happened, replays  *)
(* included, unless voice input ended, an announcement was made at once,   *)
(* and voice input was back before the tick: what was waiting stays then,  *)
(* and is replayed late.                                                   *)
SpokenInOrder ==
  [][\A s \in Speaker : gap = "resumed" \/ spoken'[s] >= spoken[s]]_announcerVars
=============================================================================
