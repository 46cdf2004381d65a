----------------------------- MODULE VoiceFile -----------------------------
(* The state file of voice capture (thermal-audio/src/capture.rs): written *)
(* by the capture loop and, now and then, by others; read by the bar, the  *)
(* HUD and the announcer.                                                  *)
VARIABLE voiceFile

VoiceState == {"muted", "monitoring", "wake_word", "listening", "processing"}

(* Writers share one temporary file, so what two of them write at once may *)
(* be no state at all.                                                     *)
FileState == VoiceState \cup {"torn"}

(* is_voice_active_from_state: waiting for the wake word is not active,    *)
(* monitoring without one is; a file that cannot be read is not.           *)
VoiceActive == voiceFile \in {"listening", "processing", "monitoring"}

(* What a reader may rely on: any state may follow any other.              *)
VoiceFileNext == voiceFile' \in FileState
=============================================================================
