------------------------------ MODULE Recorder ------------------------------
(***************************************************************************)
(* A recording: the camera thread (handleStartPusher, handleStopPusher)    *)
(* starts and joins H264EncodeConsumer and AACEncodeConsumer, which feed   *)
(* one Mp4MediaMuxer, which drives an Android MediaMuxer.  The camera      *)
(* thread gives each consumer the muxer after starting it, and the         *)
(* consumer's format is known at some time of its own; whoever is second   *)
(* adds the track.                                                         *)
(*                                                                         *)
(* MediaMuxer throws an exception at a call its state forbids, and there   *)
(* may be no MediaMuxer at all; outside release() nobody catches it and    *)
(* the process ends (`illegal`).                                           *)
(***************************************************************************)
EXTENDS Naturals

CONSTANTS Params,         \* the RecordParams used, or NoParams
          MaxRecordings   \* bound on the recordings

NoParams == [muxer |-> FALSE, isVoiceClose |-> FALSE, duration |-> FALSE]

ASSUME RecorderAssumption ==
    /\ MaxRecordings \in Nat
    /\ Params \subseteq {NoParams}
                  \cup [muxer : {TRUE}, isVoiceClose : BOOLEAN,
                        duration : BOOLEAN]

Consumers == {"video", "audio"}

VARIABLES
    pc,             \* of the camera thread
    params, recordings,
    mMuxer,         \* the handler's reference to the Mp4MediaMuxer
    file,           \* the state of the MediaMuxer ("none": null)
    track,          \* track index other than -1
    added,          \* addTrack was called for the present file
    muxerFormat,    \* mVideoFormat, mAudioFormat of the muxer are set
    at,             \* program counter of each consumer
    isExit, newFormat, mMuxerRef,   \* fields of each consumer
    isAddKeyFrame,
    illegal         \* calls MediaMuxer refused

muxerVars == <<file, track, added, muxerFormat, illegal>>
cameraVars == <<pc, params, recordings, mMuxer>>
consumerVars == <<at, isExit, newFormat, mMuxerRef, isAddKeyFrame>>
vars == <<cameraVars, muxerVars, consumerVars>>

None == [e \in Consumers |-> FALSE]

Init ==
    /\ pc = "idle" /\ params = NoParams /\ recordings = 0 /\ mMuxer = FALSE
    /\ file = "none" /\ illegal = {}
    /\ track = None /\ added = None /\ muxerFormat = None
    /\ at = [e \in Consumers |-> "off"]
    /\ isExit = None /\ newFormat = None /\ mMuxerRef = None
    /\ isAddKeyFrame = FALSE

\* An uncaught exception ends the process.
Alive == illegal = {}

Go(from, to) == Alive /\ pc = from /\ pc' = to
Step(e, from, to) == Alive /\ at[e] = from /\ at' = [at EXCEPT ![e] = to]
-----------------------------------------------------------------------------
(* Mp4MediaMuxer *)

\* Both tracks, or only video when the voice is closed.
Complete(t) == t["video"] /\ (params.isVoiceClose \/ t["audio"])

\* addTrack(e) of a muxer: the second track, or video without voice, starts
\* the MediaMuxer; audio starts it whenever video is there.
Starts(e, t) == IF e = "video" THEN params.isVoiceClose \/ t["audio"]
                ELSE t["video"]

AddTrack(e) ==
    IF (~params.isVoiceClose /\ track["audio"]) /\ track["video"]
    THEN /\ illegal' = illegal \cup {"all tracks"}
         /\ UNCHANGED <<file, track, added, muxerFormat>>
    ELSE IF file # "initialized"
    THEN /\ illegal' = illegal \cup {IF file = "none" THEN "no file"
                                    ELSE "addTrack"}
         /\ UNCHANGED <<file, track, added, muxerFormat>>
    ELSE /\ track' = [track EXCEPT ![e] = TRUE]
         /\ added' = [added EXCEPT ![e] = TRUE]
         /\ muxerFormat' = [muxerFormat EXCEPT ![e] = TRUE]
         /\ file' = IF Starts(e, track) THEN "started" ELSE file
         /\ UNCHANGED illegal

\* pumpStream past its first test: write, and at the end of the duration go
\* on with a new file.  Adding the audio track then fails when there never
\* was one and its format is null.
WriteSample ==
    /\ illegal' = IF file = "started" THEN illegal ELSE illegal \cup {"write"}
    /\ UNCHANGED <<file, track, added, muxerFormat>>

RollOver ==
    /\ params.duration /\ file = "started"
    /\ \/ /\ muxerFormat["audio"] /\ ~params.isVoiceClose
          /\ file' = "started"
          /\ track' = [e \in Consumers |-> TRUE]
          /\ added' = [e \in Consumers |-> TRUE]
          /\ UNCHANGED <<illegal, muxerFormat>>
       \/ /\ params.isVoiceClose
          /\ file' = "started"
          /\ track' = [None EXCEPT !["video"] = TRUE]
          /\ added' = [None EXCEPT !["video"] = TRUE]
          /\ illegal' = illegal \cup {"no format"}
          /\ UNCHANGED muxerFormat
       \/ /\ file' = "none" /\ track' = None /\ added' = None   \* IOException
          /\ UNCHANGED <<illegal, muxerFormat>>

PumpStream == IF ~Complete(track) THEN UNCHANGED muxerVars
              ELSE WriteSample \/ RollOver

\* Faulty variant: the track indices survive the release.
ReleaseFileKeeps ==
    /\ file' = IF file = "started" /\ track["video"] THEN "released" ELSE file
    /\ UNCHANGED <<track, added, muxerFormat, illegal>>

\* release: the stop of a file that did not start throws, and is caught.
ReleaseFile ==
    /\ IF file # "none" /\ track["video"]
       THEN /\ file' = IF file = "started" THEN "released" ELSE file
            /\ track' = None
       ELSE UNCHANGED <<file, track>>
    /\ UNCHANGED <<added, muxerFormat, illegal>>
-----------------------------------------------------------------------------
(* The camera thread *)

\* When the file cannot be opened the constructor of Mp4MediaMuxer catches the
\* IOException, and the recording starts without one.
StartPusher(p) ==
    /\ Go("idle", "setVideo")
    /\ recordings < MaxRecordings /\ recordings' = recordings + 1
    /\ params' = p /\ mMuxer' = p.muxer
    /\ IF p.muxer
       THEN /\ file' \in {"initialized", "none"}
            /\ track' = None /\ added' = None /\ muxerFormat' = None
       ELSE UNCHANGED <<file, track, added, muxerFormat>>
    /\ at' = [at EXCEPT !["video"] = "loop"]
    /\ isExit' = [isExit EXCEPT !["video"] = FALSE]
    /\ newFormat' = [newFormat EXCEPT !["video"] = FALSE]
    /\ isAddKeyFrame' = FALSE
    /\ UNCHANGED <<mMuxerRef, illegal>>

\* Faulty variant: setTmpuMuxer leaves the track to the consumer.
SetMuxerOnly(e) ==
    /\ mMuxerRef' = IF mMuxer THEN [mMuxerRef EXCEPT ![e] = TRUE]
                    ELSE mMuxerRef
    /\ UNCHANGED muxerVars

\* setTmpuMuxer(muxer), synchronized on the consumer, as NewFormat is.
SetMuxer(e) ==
    IF mMuxer
    THEN /\ mMuxerRef' = [mMuxerRef EXCEPT ![e] = TRUE]
         /\ IF newFormat[e] THEN AddTrack(e) ELSE UNCHANGED muxerVars
    ELSE UNCHANGED <<mMuxerRef, muxerVars>>

SetVideo ==
    /\ Go("setVideo", IF params.muxer /\ ~params.isVoiceClose
                      THEN "startAudio" ELSE "recording")
    /\ SetMuxer("video")
    /\ UNCHANGED <<params, recordings, mMuxer, at, isExit, newFormat,
                   isAddKeyFrame>>

StartAudio ==
    /\ Go("startAudio", "setAudio")
    /\ at' = [at EXCEPT !["audio"] = "loop"]
    /\ isExit' = [isExit EXCEPT !["audio"] = FALSE]
    /\ newFormat' = [newFormat EXCEPT !["audio"] = FALSE]
    /\ UNCHANGED <<params, recordings, mMuxer, muxerVars, mMuxerRef,
                   isAddKeyFrame>>

SetAudio ==
    /\ Go("setAudio", "recording")
    /\ SetMuxer("audio")
    /\ UNCHANGED <<params, recordings, mMuxer, at, isExit, newFormat,
                   isAddKeyFrame>>

\* handleStopPusher, from the message, handleClose or handleRelease.
StopPusher ==
    /\ Go("recording", "exitAudio")
    /\ IF mMuxer THEN ReleaseFile ELSE UNCHANGED muxerVars
    /\ mMuxer' = FALSE
    /\ UNCHANGED <<params, recordings, consumerVars>>

\* Faulty variant: exit does not reach the consumer.
ExitForgets(e, from, to) ==
    /\ Go(from, to)
    /\ UNCHANGED <<params, recordings, mMuxer, muxerVars, consumerVars>>

\* Faulty variant: the consumer is not waited for.
JoinNot(e, from, to) ==
    /\ Go(from, to)
    /\ UNCHANGED <<params, recordings, mMuxer, muxerVars, consumerVars>>

\* exit(), then setTmpuMuxer(null), then join of each consumer there is.
Exit(e, from, to) ==
    /\ Go(from, to)
    /\ isExit' = [isExit EXCEPT ![e] = TRUE]
    /\ UNCHANGED <<params, recordings, mMuxer, muxerVars, at, newFormat,
                   mMuxerRef, isAddKeyFrame>>

Unset(e, from, to) ==
    /\ Go(from, to)
    /\ mMuxerRef' = [mMuxerRef EXCEPT ![e] = FALSE]
    /\ UNCHANGED <<params, recordings, mMuxer, muxerVars, at, isExit,
                   newFormat, isAddKeyFrame>>

Join(e, from, to) ==
    /\ at[e] \in {"ended", "off"}
    /\ Go(from, to)
    /\ at' = [at EXCEPT ![e] = "off"]
    /\ UNCHANGED <<params, recordings, mMuxer, muxerVars, isExit, newFormat,
                   mMuxerRef, isAddKeyFrame>>

StopAudioRecord ==
    \/ Exit("audio", "exitAudio", "unsetAudio")
    \/ Unset("audio", "unsetAudio", "joinAudio")
    \/ Join("audio", "joinAudio", "exitVideo")

StopVideoRecord ==
    \/ Exit("video", "exitVideo", "unsetVideo")
    \/ Unset("video", "unsetVideo", "joinVideo")
    \/ Join("video", "joinVideo", "idle")

CameraThread ==
    \/ SetVideo \/ StartAudio \/ SetAudio
    \/ StopAudioRecord \/ StopVideoRecord
-----------------------------------------------------------------------------
(* The consumers *)

\* Between two polls of the encoder; audio first empties it (encodeBytes).
Leave(e) ==
    /\ isExit[e]
    /\ Step(e, "loop", "stopping")
    /\ UNCHANGED <<cameraVars, muxerVars, isExit, newFormat, mMuxerRef,
                   isAddKeyFrame>>

Dequeues(e) == Alive /\ (at[e] = "drain" \/ (at[e] = "loop" /\ ~isExit[e]))

TryAgain(e) ==
    /\ Step(e, "drain", "loop")
    /\ UNCHANGED <<cameraVars, muxerVars, isExit, newFormat, mMuxerRef,
                   isAddKeyFrame>>

\* mMuxerRef is weak: the muxer may be gone when the handler has let it go.
RefersToMuxer(e) == mMuxerRef[e] /\ mMuxer

\* INFO_OUTPUT_FORMAT_CHANGED comes once, before any data.
NewFormat(e) ==
    /\ Dequeues(e) /\ ~newFormat[e]
    /\ newFormat' = [newFormat EXCEPT ![e] = TRUE]
    /\ \/ mMuxerRef[e] /\ AddTrack(e)
       \/ ~RefersToMuxer(e) /\ UNCHANGED muxerVars
    /\ at' = [at EXCEPT ![e] = "loop"]
    /\ UNCHANGED <<cameraVars, isExit, mMuxerRef, isAddKeyFrame>>

\* Data: the reference is read without the consumer's lock.  Video waits for
\* a key frame while it has a muxer.
AfterData(e) == IF e = "audio" THEN "drain" ELSE "loop"

Data(e) ==
    /\ Dequeues(e) /\ newFormat[e]
    /\ \E key \in BOOLEAN :
         /\ isAddKeyFrame' = (isAddKeyFrame \/ (e = "video" /\ key
                                                /\ mMuxerRef[e]))
         /\ \/ /\ mMuxerRef[e] /\ (e = "audio" \/ isAddKeyFrame')
               /\ at' = [at EXCEPT ![e] = "pump"]
            \/ /\ ~RefersToMuxer(e) \/ (e = "video" /\ ~isAddKeyFrame')
               /\ at' = [at EXCEPT ![e] = AfterData(e)]
    /\ UNCHANGED <<cameraVars, muxerVars, isExit, newFormat, mMuxerRef>>

Pump(e) ==
    /\ Step(e, "pump", AfterData(e))
    /\ PumpStream
    /\ UNCHANGED <<cameraVars, isExit, newFormat, mMuxerRef, isAddKeyFrame>>

\* stopMediaCodec
End(e) ==
    /\ Step(e, "stopping", "ended")
    /\ UNCHANGED <<cameraVars, muxerVars, isExit, newFormat, mMuxerRef,
                   isAddKeyFrame>>

Consumer(e) ==
    \/ Leave(e) \/ TryAgain(e) \/ NewFormat(e) \/ Data(e) \/ Pump(e) \/ End(e)
-----------------------------------------------------------------------------
Next ==
    \/ CameraThread \/ StopPusher
    \/ \E p \in Params : StartPusher(p)
    \/ \E e \in Consumers : Consumer(e)

Spec == Init /\ [][Next]_vars

\* Threads run, and an encoder that is fed no more is empty in the end.
Fairness ==
    /\ WF_vars(CameraThread)
    /\ \A e \in Consumers : /\ WF_vars(Leave(e) \/ Pump(e) \/ End(e))
                            /\ SF_vars(TryAgain(e))

FairSpec == Spec /\ Fairness
-----------------------------------------------------------------------------
\* Types; a MediaMuxer that is stopped is released (Mp4MediaMuxer.java:141).
TypeOK ==
    /\ params \in Params \cup {NoParams} /\ recordings \in 0 .. MaxRecordings
    /\ mMuxer \in BOOLEAN /\ isAddKeyFrame \in BOOLEAN
    /\ file \in {"none", "initialized", "started", "released"}
    /\ {track, added, muxerFormat, isExit, newFormat, mMuxerRef}
         \subseteq [Consumers -> BOOLEAN]
    /\ at \in [Consumers -> {"off", "loop", "drain", "pump", "stopping",
                             "ended"}]

\* The file of the recording could not be opened: it never had a track.
FileFailed == file = "none" /\ muxerFormat = None

\* MediaMuxer is only called as its state allows: no track after the start or
\* twice, no sample before the start or after release, whichever of the camera
\* thread and the two consumers gets the muxer first
\* (Mp4MediaMuxer.java:54-131).  The code makes two calls that fail, and no
\* other: at the end of a limited duration with the voice closed line 125 adds
\* an audio track nobody made, and line 60 adds a track to the MediaMuxer that
\* the constructor failed to make.
LegalCalls ==
    \/ illegal = {}
    \/ illegal = {"no format"} /\ params.isVoiceClose /\ params.duration
    \/ illegal = {"no file"} /\ FileFailed

\* While the handler records, a consumer that knows both its format and the
\* muxer has added its track: no interleaving of setTmpuMuxer and the new
\* format loses it (H264EncodeConsumer.java:64 and 160).
TrackNotLost ==
    \A e \in Consumers :
        mMuxer /\ mMuxerRef[e] /\ newFormat[e] /\ file # "none" => added[e]

\* A started file is complete: it starts with all its tracks.
StartedIsComplete == file = "started" /\ params.muxer => Complete(added)

\* A stopped recording leaves no thread that encodes or writes, and no
\* reference to its muxer (AbstractUVCCameraHandler.java:761).
IdleIsQuiet ==
    pc = "idle" => /\ \A e \in Consumers : at[e] = "off" /\ ~mMuxerRef[e]
                   /\ ~mMuxer

\* handleStopPusher returns, with both consumers joined, unless one of the
\* calls LegalCalls excepts ends the process first.
RecordingEnds == pc = "exitAudio" ~> pc = "idle" \/ ~Alive
=============================================================================
