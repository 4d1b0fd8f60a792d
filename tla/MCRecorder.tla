----------------------------- MODULE MCRecorder -----------------------------
(* Recorder for TLC, with every RecordParams. *)
EXTENDS Recorder

AllParams == {NoParams} \cup [muxer : {TRUE}, isVoiceClose : BOOLEAN,
                              duration : BOOLEAN]
=============================================================================
