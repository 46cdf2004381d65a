---------------------------- MODULE VoiceCapture ----------------------------
(***************************************************************************)
(* Voice capture (thermal-audio/src/capture.rs, vad.rs): the listen daemon *)
(* that waits for a wake word, cuts utterances out of the microphone's     *)
(* stream and has them transcribed, with push-to-talk taking over, and the *)
(* push-to-talk daemon.  Audio is the number of the utterance it belongs   *)
(* to; a chunk is the verdict, speech or not, on its one or two windows.   *)
(* Each handler runs to its end before the loop selects again, so a        *)
(* transcription is two steps with nothing of this loop in between.        *)
(*                                                                         *)
(* The state file has other writers: the tasks that dispatch transcripts,  *)
(* which run beside the loop and fall back on Claude when the dispatcher   *)
(* does not answer, and the dispatcher itself, which leaves its speech     *)
(* there when it cannot reach the announcer.  Any write may fail.          *)
(*                                                                         *)
(* The echo flag is not modelled: nothing in the program ever sets it.     *)
(***************************************************************************)
EXTENDS Naturals, Sequences, FiniteSets, VoiceFile

CONSTANTS
  MaxUtterance,    \* bound: utterances the detector hears
  MaxDispatch,     \* bound: transcripts dispatched and not done with
  MaxSpeech,       \* chunks of one utterance (30 s in the code)
  SilenceRequired, \* windows of silence that end one (19 in the code)
  NoStream         \* no streaming transcriber is open

ASSUME VoiceAssumption ==
  MaxSpeech \in Nat \ {0} /\ {MaxUtterance, MaxDispatch, SilenceRequired} \subseteq Nat

VARIABLES
  mode,            \* listen or ptt: which of the two daemons runs
  wakeWord,        \* a wake word detector is loaded
  streaming,       \* utterances go to the streaming transcriber
  capture,         \* current_voice_state
  inSpeech, silence, \* VadDetector
  utterance,       \* the utterance heard last
  buffer,          \* speech_buffer: the utterance of each chunk
  transcriber,     \* streaming_transcriber: the utterances sent to it
  ptt,             \* ptt_active
  recording,       \* the push-to-talk recorder runs
  awaiting,        \* the transcription the loop is waiting for
  dispatching,     \* tasks that wait for the dispatcher's answer
  fallbacks,       \* tasks that have turned to Claude
  voiceWriter,     \* history: whose last write the file holds; failed when
                   \* that writer's next one failed
  transcripts,     \* history: the utterances in each transcript
  orphans          \* history: utterances left in a transcriber unclosed

voiceVars == <<voiceFile, mode, wakeWord, streaming, capture, inSpeech,
               silence, utterance, buffer, transcriber, ptt, recording,
               awaiting, dispatching, fallbacks, voiceWriter, transcripts,
               orphans>>
fileVars == <<voiceFile, voiceWriter>>
taskVars == <<dispatching, fallbacks>>
vadVars == <<inSpeech, silence, utterance>>
fixedVars == <<mode, wakeWord, streaming>>

Utterance == 1 .. MaxUtterance

VoiceTypeOK ==
  /\ voiceFile \in FileState
  /\ voiceWriter \in {"capture", "fallback", "dispatcher", "failed"}
  /\ {dispatching, fallbacks} \subseteq Nat
  /\ dispatching + fallbacks <= MaxDispatch
  /\ mode \in {"listen", "ptt"}
  /\ {wakeWord, streaming, inSpeech, ptt, recording} \subseteq BOOLEAN
  /\ capture \in VoiceState
  /\ silence \in 0 .. SilenceRequired
  /\ utterance \in 0 .. MaxUtterance
  /\ buffer \in Seq(Utterance) /\ Len(buffer) <= MaxSpeech
  /\ transcriber \in {NoStream} \cup SUBSET Utterance
  /\ awaiting \in {"none", "utterance", "recording", "shutdown"}
  /\ transcripts \subseteq SUBSET Utterance
  /\ orphans \subseteq Utterance

(* The state to go back to after an utterance or a push-to-talk.           *)
RestState == IF mode = "ptt" THEN "muted"
             ELSE IF wakeWord THEN "wake_word" ELSE "monitoring"

VoiceInit ==
  /\ mode \in {"listen", "ptt"}
  /\ wakeWord \in (IF mode = "listen" THEN BOOLEAN ELSE {FALSE})
  /\ streaming \in (IF mode = "listen" THEN BOOLEAN ELSE {FALSE})
  /\ capture = RestState
  /\ voiceFile = RestState /\ voiceWriter = "capture"
  /\ dispatching = 0 /\ fallbacks = 0
  /\ inSpeech = FALSE /\ silence = 0 /\ utterance = 0
  /\ buffer = <<>>
  /\ transcriber = NoStream
  /\ ptt = FALSE /\ recording = FALSE
  /\ awaiting = "none"
  /\ transcripts = {} /\ orphans = {}

-----------------------------------------------------------------------------
(* The file keeps what it holds: a write of who's has failed.              *)
WriteFails(who) ==
  /\ voiceWriter' = IF voiceWriter = who THEN "failed" ELSE voiceWriter
  /\ UNCHANGED voiceFile

(* write_state by the loop, which may have written the earlier states just *)
(* before.                                                                 *)
WriteState(earlier, state) ==
  \/ voiceFile' = state /\ voiceWriter' = "capture"
  \/ voiceFile' \in earlier /\ voiceWriter' = "failed"
  \/ WriteFails("capture")

(* A write by who, that of another writer perhaps at the same time.        *)
OtherWrites(who, state) ==
  \/ voiceFile' \in {state, "torn"} /\ voiceWriter' = who
  \/ WriteFails(who)

-----------------------------------------------------------------------------
(* One window through process_chunk.                                       *)
Heard(v, isSpeech) ==
  IF isSpeech
    THEN [in |-> TRUE, silence |-> 0,
          event |-> IF v.in THEN "continue" ELSE "start"]
  ELSE IF ~v.in
    THEN [v EXCEPT !.silence = IF @ < SilenceRequired THEN @ + 1 ELSE @]
  ELSE IF v.silence + 1 >= SilenceRequired
    THEN [in |-> FALSE, silence |-> SilenceRequired, event |-> "end"]
  ELSE [in |-> TRUE, silence |-> v.silence + 1, event |-> "continue"]

(* A chunk: the event of the last window is the one returned.  "started"   *)
(* says whether an utterance began, returned or not.                       *)
ProcessChunk(windows) ==
  LET before == [in |-> inSpeech, silence |-> silence,
                 event |-> IF inSpeech THEN "continue" ELSE "silence"]
      first == Heard(before, windows[1])
      last == IF Len(windows) = 1 THEN first ELSE Heard(first, windows[2])
  IN [last |-> last,
      started |-> "start" \in {first.event, last.event}]

(* vad.reset().                                                            *)
VadReset == inSpeech' = FALSE /\ silence' = 0 /\ UNCHANGED utterance

(* The utterances whose audio an open transcriber holds.                   *)
Sent == IF transcriber = NoStream THEN {} ELSE transcriber

(* Fault: the cap leaves the transcriber of the utterance open.            *)
CapLeavesStream == transcriber

(* The transcriber after the 30 s cap: closed.                             *)
AfterCap == NoStream

(* What a chunk does once it has passed the gates.  "shown" is the state   *)
(* after the wake word gate, and written if it is new; the level write may *)
(* come before both, with the state the chunk found.                       *)
ShowGate(shown) ==
  IF shown # capture THEN WriteState({capture}, shown)
  ELSE WriteState({}, shown) \/ UNCHANGED fileVars

OnSpeechStart(u, shown) ==
  /\ capture' = "listening"
  /\ WriteState({capture, shown}, "listening")
  /\ buffer' = <<u>>
  /\ orphans' = orphans \cup Sent
  /\ transcriber' \in IF streaming THEN {{u}, transcriber} ELSE {transcriber}
  /\ UNCHANGED awaiting

OnSpeechContinue(u, shown) ==
  IF Len(buffer) >= MaxSpeech
    THEN /\ transcriber' = AfterCap
         /\ buffer' = <<>>
         /\ capture' = RestState
         /\ WriteState({capture, shown}, RestState)
         /\ UNCHANGED <<awaiting, orphans>>
    ELSE /\ buffer' = Append(buffer, u)
         /\ transcriber' \in IF transcriber = NoStream THEN {NoStream}
                             ELSE {transcriber \cup {u}, NoStream}
         /\ capture' = shown
         /\ ShowGate(shown)
         /\ UNCHANGED <<awaiting, orphans>>

OnSpeechEnd(shown) ==
  /\ WriteState({capture, shown}, "processing")
  /\ awaiting' = "utterance"
  /\ capture' = shown
  /\ UNCHANGED <<buffer, transcriber, orphans>>

OnSilence(shown) ==
  /\ capture' = shown
  /\ ShowGate(shown)
  /\ UNCHANGED <<buffer, transcriber, awaiting, orphans>>

(* Fault: chunks are not held back while push-to-talk is active.           *)
ChunkGateOpen == mode = "listen" /\ awaiting = "none"

ChunkGate == mode = "listen" /\ awaiting = "none" /\ ~ptt

(* A chunk that stops at the wake word gate: at most the level is written. *)
ChunkUnheard ==
  /\ ChunkGate
  /\ capture = "wake_word"
  /\ ShowGate(capture)
  /\ UNCHANGED <<fixedVars, capture, vadVars, buffer, transcriber, ptt,
                 recording, awaiting, taskVars, transcripts, orphans>>

(* A chunk that completes the wake word, or needs none, goes through the   *)
(* detector, and the loop acts on the one event that it returns.           *)
Chunk(windows) ==
  /\ ChunkGate
  /\ LET p == ProcessChunk(windows)
         u == utterance + (IF p.started THEN 1 ELSE 0)
         shown == IF capture = "wake_word" THEN "monitoring" ELSE capture
         capped == p.last.event = "continue" /\ Len(buffer) >= MaxSpeech
     IN /\ u <= MaxUtterance
        /\ utterance' = u
        /\ inSpeech' = (p.last.in /\ ~capped)
        /\ silence' = IF capped THEN 0 ELSE p.last.silence
        /\ \/ p.last.event = "start" /\ OnSpeechStart(u, shown)
           \/ p.last.event = "continue" /\ OnSpeechContinue(u, shown)
           \/ p.last.event = "end" /\ OnSpeechEnd(shown)
           \/ p.last.event = "silence" /\ OnSilence(shown)
  /\ UNCHANGED <<fixedVars, ptt, recording, taskVars, transcripts>>

(* Back to rest, after an utterance or a push-to-talk.                     *)
Rest(earlier) == capture' = RestState /\ WriteState(earlier, RestState)

(* A task is spawned for a transcript that goes to the dispatcher.         *)
SpawnDispatch ==
  /\ dispatching + fallbacks < MaxDispatch
  /\ dispatching' = dispatching + 1
  /\ UNCHANGED fallbacks

(* The transcription of an utterance ends, from the streaming transcriber  *)
(* if there is one, else from the buffer: without a text, with one that is *)
(* filtered out, or with one to dispatch.                                  *)
UtteranceTranscribed ==
  /\ awaiting = "utterance"
  /\ awaiting' = "none"
  /\ \/ UNCHANGED <<transcripts, taskVars>>
     \/ /\ transcripts' = transcripts \cup
             {IF transcriber # NoStream THEN transcriber
              ELSE {buffer[i] : i \in DOMAIN buffer}}
        /\ SpawnDispatch \/ UNCHANGED taskVars
  /\ transcriber' = NoStream
  /\ buffer' = <<>>
  /\ VadReset
  /\ Rest({})
  /\ UNCHANGED <<fixedVars, ptt, recording, orphans>>

-----------------------------------------------------------------------------
(* The listen daemon keeps a flag, the other one asks the recorder.        *)
Talking == IF mode = "listen" THEN ptt ELSE recording

(* start, or toggle while not talking: the flag is set before the recorder *)
(* is started, and stays when it cannot be.                                *)
StartTalking ==
  /\ awaiting = "none" /\ ~Talking
  /\ ptt' = (mode = "listen")
  /\ VadReset
  /\ buffer' = <<>>
  /\ recording' \in BOOLEAN
  /\ WriteState({}, IF recording' THEN "listening" ELSE "muted")
  /\ orphans' = orphans \cup Sent
  /\ UNCHANGED <<fixedVars, capture, transcriber, awaiting, taskVars,
                 transcripts>>

(* stop, dispatch, or toggle while talking.  A recording that is too short *)
(* ends as one whose transcription fails.                                  *)
StopTalking ==
  /\ awaiting = "none" /\ Talking
  /\ recording' = FALSE
  /\ IF recording
       THEN /\ WriteState({}, "processing") /\ awaiting' = "recording"
            /\ UNCHANGED <<ptt, capture>>
       ELSE ptt' = FALSE /\ Rest({}) /\ UNCHANGED awaiting
  /\ UNCHANGED <<fixedVars, vadVars, buffer, transcriber, taskVars,
                 transcripts, orphans>>

(* The text is typed, or dispatched, or there is none.                     *)
RecordingTranscribed ==
  /\ awaiting = "recording"
  /\ awaiting' = "none"
  /\ ptt' = FALSE
  /\ \/ Rest({"muted"}) /\ UNCHANGED taskVars
     \/ Rest({"processing", "muted"}) /\ SpawnDispatch
  /\ UNCHANGED <<fixedVars, vadVars, buffer, transcriber, recording,
                 transcripts, orphans>>

(* ctrl-c, seen between two handlers.                                      *)
Shutdown ==
  /\ awaiting = "none"
  /\ awaiting' = "shutdown"
  /\ transcriber' = NoStream
  /\ recording' = FALSE
  /\ WriteState({}, "muted")
  /\ UNCHANGED <<fixedVars, capture, vadVars, buffer, ptt, taskVars,
                 transcripts, orphans>>

-----------------------------------------------------------------------------
(* What the writers beside the loop leave alone.                           *)
loopKeeps == <<fixedVars, capture, vadVars, buffer, transcriber, ptt,
               recording, awaiting, transcripts, orphans>>

(* The dispatcher has answered, or has not and cannot be waited for.       *)
DispatchAnswered ==
  /\ dispatching > 0
  /\ dispatching' = dispatching - 1
  /\ UNCHANGED <<loopKeeps, fallbacks, fileVars>>

(* Not reached, or silent for two minutes: Claude is asked instead.        *)
FallbackBegins ==
  /\ dispatching > 0
  /\ dispatching' = dispatching - 1
  /\ fallbacks' = fallbacks + 1
  /\ OtherWrites("fallback", "processing")
  /\ UNCHANGED loopKeeps

(* It answers, fails or is given up on: the microphone is shown as muted,  *)
(* whatever it is doing.                                                   *)
FallbackEnds ==
  /\ fallbacks > 0
  /\ fallbacks' = fallbacks - 1
  /\ OtherWrites("fallback", "muted")
  /\ UNCHANGED <<loopKeeps, dispatching>>

(* send_tts_via_state_file in the dispatcher: what it writes has no state, *)
(* and is read as muted.                                                   *)
SpeechLeftInFile ==
  /\ OtherWrites("dispatcher", "muted")
  /\ UNCHANGED <<loopKeeps, taskVars>>

VoiceNext ==
  \/ \E windows \in (BOOLEAN \X BOOLEAN) \cup {<<b>> : b \in BOOLEAN} :
       Chunk(windows)
  \/ ChunkUnheard \/ UtteranceTranscribed
  \/ StartTalking \/ StopTalking \/ RecordingTranscribed \/ Shutdown
  \/ DispatchAnswered \/ FallbackBegins \/ FallbackEnds \/ SpeechLeftInFile

VoiceSpec == VoiceInit /\ [][VoiceNext]_voiceVars

-----------------------------------------------------------------------------
(* The state file, by which the bar shows the microphone and the announcer *)
(* keeps quiet: as the loop has left it, it says Listening only while      *)
(* somebody is heard, always while a push-to-talk records, and Processing  *)
(* exactly while a text is awaited.  Nothing of this holds from the write  *)
(* of another writer, or a failed one, to the loop's next; a dispatching   *)
(* task then says Processing only while Claude is asked.                   *)
IndicatorTrue ==
  /\ voiceWriter = "capture" =>
       /\ voiceFile = "listening" => recording \/ (inSpeech /\ ~ptt)
       /\ recording => voiceFile = "listening"
       /\ voiceFile = "processing" <=> awaiting \in {"utterance", "recording"}
  /\ voiceWriter = "fallback" /\ voiceFile = "processing" => fallbacks > 0

(* What is typed or dispatched was said in one utterance: audio of another *)
(* gets into a transcript only through a streaming transcriber that push-  *)
(* to-talk, or speech resumed within a chunk, had left open.               *)
OwnWords == \A t \in transcripts : Cardinality(t \ orphans) <= 1
=============================================================================
