------------------------------ MODULE MCSpeech ------------------------------
(* Speech on its way in and out: the media loop that cuts it into turns, the  *)
(* gate that listens for voice commands, the playback of phrases, the channel *)
(* that ships speech as data, and the fallback playback of turns whose        *)
(* delivery failed, with both processes of it.  A behaviour is one of a       *)
(* single part, the others rest; one of the automatic output has either       *)
(* retries of a message by its user or an outage, never both.                 *)
EXTENDS AutomaticOutput, PhrasePlayback, Segmentation, TtsChannel,
        CommandGate

VARIABLE part

speechVars == <<part, automaticVars, playbackVars, segmentVars, ttsVars, gateVars>>

SpeechInit ==
    /\ part \in {"retries", "outages", "playback", "segments", "channel", "gate"}
    /\ AutomaticInit /\ PlaybackInit /\ SegmentationInit /\ TtsInit /\ GateInit

SpeechNextStep ==
    \/ /\ part \in {"retries", "outages"}
       /\ AutomaticNext
       /\ part = "retries" => outages' = 0
       /\ part = "outages" => ~\E t \in Turns, x \in Targets : UserRetry(t, x)
       /\ UNCHANGED <<part, playbackVars, segmentVars, ttsVars, gateVars>>
    \/ /\ part = "playback" /\ PlaybackNext
       /\ UNCHANGED <<part, automaticVars, segmentVars, ttsVars, gateVars>>
    \/ /\ part = "segments" /\ SegmentationNext
       /\ UNCHANGED <<part, automaticVars, playbackVars, ttsVars, gateVars>>
    \/ /\ part = "channel" /\ TtsNext
       /\ UNCHANGED <<part, automaticVars, playbackVars, segmentVars, gateVars>>
    \/ /\ part = "gate" /\ GateNext
       /\ UNCHANGED <<part, automaticVars, playbackVars, segmentVars, ttsVars>>

SpeechSpec == SpeechInit /\ [][SpeechNextStep]_speechVars
=============================================================================
