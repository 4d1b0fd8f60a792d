---------------------------- MODULE RecorderProofs ----------------------------
(***************************************************************************)
(* For every set of RecordParams and any number of recordings: the calls   *)
(* of the MediaMuxer are legal, no track is lost, a started file is        *)
(* complete, and a stopped recording leaves nothing running.               *)
(***************************************************************************)
EXTENDS Recorder, TLAPS

RecordingPCs == {"setVideo", "startAudio", "setAudio", "recording"}
StoppingPCs == {"exitAudio", "unsetAudio", "joinAudio", "exitVideo",
                "unsetVideo", "joinVideo"}

Types ==
    /\ pc \in RecordingPCs \cup StoppingPCs \cup {"idle"}
    /\ params \in [muxer : BOOLEAN, isVoiceClose : BOOLEAN,
                   duration : BOOLEAN]
    /\ mMuxer \in BOOLEAN
    /\ file \in {"none", "initialized", "started", "released"}
    /\ at \in [Consumers -> {"off", "loop", "drain", "pump", "stopping",
                             "ended"}]
    /\ track \in [Consumers -> BOOLEAN] /\ added \in [Consumers -> BOOLEAN]
    /\ muxerFormat \in [Consumers -> BOOLEAN]
    /\ isExit \in [Consumers -> BOOLEAN] /\ newFormat \in [Consumers -> BOOLEAN]
    /\ mMuxerRef \in [Consumers -> BOOLEAN]

\* Which consumers there are, and which of them refer to the muxer, in each
\* phase of the camera thread.
Phases ==
    /\ pc \in {"idle", "setVideo", "startAudio", "exitVideo", "unsetVideo",
               "joinVideo"} => at["audio"] = "off"
    /\ pc = "idle" => at["video"] = "off"
    /\ pc \in {"idle", "setVideo", "startAudio", "setAudio", "joinAudio",
               "exitVideo", "unsetVideo", "joinVideo"} => ~mMuxerRef["audio"]
    /\ pc \in {"idle", "setVideo", "joinVideo"} => ~mMuxerRef["video"]
    /\ mMuxer <=> params.muxer /\ pc \in RecordingPCs
    /\ pc \in {"startAudio", "setAudio"} => params.muxer /\ ~params.isVoiceClose
    /\ params.isVoiceClose \/ ~params.muxer =>
         at["audio"] = "off" /\ ~mMuxerRef["audio"]
    /\ \A e \in Consumers : mMuxerRef[e] \/ at[e] = "pump" => params.muxer

\* The consumer knows its format, and was given the muxer: its track has been
\* added.
Given(e) == IF e = "video" THEN pc # "setVideo"
            ELSE pc \notin {"setVideo", "startAudio", "setAudio"}
Settled(e) == newFormat[e] /\ Given(e)

Tracks ==
    params.muxer =>
        /\ \A e \in Consumers : track[e] => added[e]
        /\ \A e \in Consumers : added[e] => Settled(e)
        /\ file # "initialized" /\ ~FileFailed =>
             Settled("video") /\ (params.isVoiceClose \/ Settled("audio"))
        /\ file = "started" => Complete(added)
        /\ Complete(track) => file = "started"

IInv == Types /\ Phases /\ Tracks /\ TrackNotLost /\ LegalCalls
-----------------------------------------------------------------------------
(* The muxer *)

\* A track that is added for the first time is accepted, if there is a file.
LEMMA AddTrackLegal ==
  ASSUME Types, Tracks, params.muxer, NEW e \in Consumers, ~Settled(e),
         params.isVoiceClose => e = "video", AddTrack(e)
  PROVE  \/ /\ illegal' = illegal /\ file = "initialized"
            /\ track' = [track EXCEPT ![e] = TRUE]
            /\ added' = [added EXCEPT ![e] = TRUE]
            /\ muxerFormat' = [muxerFormat EXCEPT ![e] = TRUE]
            /\ file' = IF Starts(e, track) THEN "started" ELSE file
         \/ /\ illegal' = illegal \cup {"no file"} /\ FileFailed
            /\ UNCHANGED <<file, track, added, muxerFormat>>
<1>1. file = "initialized" \/ FileFailed
  BY DEF Tracks, Consumers
<1>2. ~(~params.isVoiceClose /\ track["audio"] /\ track["video"])
  BY DEF Tracks, Consumers
<1>3. FileFailed => file = "none"
  BY DEF FileFailed
<1>4. QED
  BY <1>1, <1>2, <1>3 DEF AddTrack

LEMMA TracksAdded ==
  ASSUME Types, Tracks, params.muxer, UNCHANGED params, NEW e \in Consumers,
         ~Settled(e), params.isVoiceClose => e = "video", AddTrack(e),
         file = "initialized",
         Settled(e)', \A u \in Consumers : Settled(u) => Settled(u)'
  PROVE  /\ Tracks' /\ illegal' = illegal /\ added'[e]
         /\ \A u \in Consumers : added[u] => added'[u]
<1>1. /\ illegal' = illegal
      /\ track' = [track EXCEPT ![e] = TRUE]
      /\ added' = [added EXCEPT ![e] = TRUE]
      /\ file' = IF Starts(e, track) THEN "started" ELSE file
  BY AddTrackLegal DEF FileFailed
<1>2. /\ track'[e] /\ \A u \in Consumers \ {e} : track'[u] = track[u]
      /\ added'[e] /\ \A u \in Consumers \ {e} : added'[u] = added[u]
  BY <1>1 DEF Types
<1>3. \A u \in Consumers : track'[u] => added'[u]
  BY <1>2 DEF Tracks
<1>4. \A u \in Consumers : added'[u] => Settled(u)'
  BY <1>2 DEF Tracks
<1>5. file' # "initialized" <=> Starts(e, track)
  BY <1>1
<1>6. Starts(e, track) => Complete(track')
  BY <1>2 DEF Starts, Complete, Consumers
<1>7. Complete(track') => Complete(added')
  BY <1>3 DEF Complete, Consumers
<1>8. Complete(added')
        => Settled("video")' /\ (params.isVoiceClose \/ Settled("audio")')
  BY <1>4 DEF Complete, Consumers
<1>9. Complete(track') => Starts(e, track)
  BY <1>2 DEF Starts, Complete, Consumers
<1>10. file' = "started" <=> Starts(e, track)
  BY <1>1
<1>11. Complete(track)' <=> Complete(track')
  BY DEF Complete
<1>12. Complete(added)' <=> Complete(added')
  BY DEF Complete
<1>13. QED
  BY <1>1, <1>2, <1>3, <1>4, <1>5, <1>6, <1>7, <1>8, <1>9, <1>10, <1>11,
     <1>12 DEF Tracks

LEMMA TracksKept ==
  ASSUME Tracks, UNCHANGED <<params, file, track, added, muxerFormat>>,
         \A u \in Consumers : Settled(u) => Settled(u)'
  PROVE  Tracks'
BY DEF Tracks, Complete, Consumers, FileFailed

\* pumpStream writes to a started file, and goes on with a new one only when
\* every track there may be has been added.
LEMMA PumpKeeps ==
  ASSUME Types, Types', Tracks, params.muxer, UNCHANGED params, PumpStream,
         \A u \in Consumers : Settled(u) => Settled(u)'
  PROVE  /\ Tracks'
         /\ \/ illegal' = illegal
            \/ /\ illegal' = illegal \cup {"no format"}
               /\ params.isVoiceClose /\ params.duration
         /\ file' # "none" =>
              \A u \in Consumers : added[u] =>
                added'[u] \/ (params.isVoiceClose /\ u = "audio")
<1>1. CASE UNCHANGED muxerVars
  BY <1>1, TracksKept DEF muxerVars
<1>2. CASE ~UNCHANGED muxerVars
  <2>1. Complete(track) /\ (WriteSample \/ RollOver)
    BY <1>2 DEF PumpStream
  <2>2. file = "started"
    BY <2>1 DEF Tracks
  <2>3. CASE WriteSample
    BY <2>2, <2>3, TracksKept DEF WriteSample
  <2>4. CASE RollOver
    <3>1. Settled("video")' /\ (params.isVoiceClose \/ Settled("audio")')
      BY <2>2 DEF Tracks, Consumers, FileFailed
    <3>2. CASE /\ ~params.isVoiceClose /\ file' = "started"
               /\ track' = [e \in Consumers |-> TRUE]
               /\ added' = [e \in Consumers |-> TRUE] /\ UNCHANGED illegal
      <4>1. \A u \in Consumers : added'[u] /\ track'[u]
        BY <3>2
      <4>2. \A u \in Consumers : Settled(u)'
        BY <3>1, <3>2 DEF Consumers
      <4>3. QED
        BY <3>1, <3>2, <4>1, <4>2 DEF Tracks, Complete, Consumers
    <3>3. CASE /\ params.isVoiceClose /\ file' = "started"
               /\ track' = [None EXCEPT !["video"] = TRUE]
               /\ added' = [None EXCEPT !["video"] = TRUE]
               /\ illegal' = illegal \cup {"no format"}
      <4>1. /\ track'["video"] /\ added'["video"]
            /\ ~track'["audio"] /\ ~added'["audio"]
        BY <3>3 DEF None, Consumers
      <4>2. params.duration
        BY <2>4 DEF RollOver
      <4>3. QED
        BY <3>1, <3>3, <4>1, <4>2 DEF Tracks, Complete, Consumers
    <3>4. CASE file' = "none" /\ track' = None /\ added' = None
               /\ UNCHANGED illegal
      <4>1. \A u \in Consumers : ~track'[u] /\ ~added'[u]
        BY <3>4 DEF None
      <4>2. QED
        BY <3>1, <3>4, <4>1 DEF Tracks, Complete, Consumers
    <3>5. QED
      BY <2>4, <3>2, <3>3, <3>4 DEF RollOver
  <2>5. QED
    BY <2>1, <2>3, <2>4
<1>3. QED
  BY <1>1, <1>2
-----------------------------------------------------------------------------
(* The types *)

LEMMA ParamsType ==
  ASSUME NEW p \in Params
  PROVE  /\ p \in [muxer : BOOLEAN, isVoiceClose : BOOLEAN, duration : BOOLEAN]
<1>1. CASE p = NoParams
  BY <1>1 DEF NoParams
<1>2. CASE p \in [muxer : {TRUE}, isVoiceClose : BOOLEAN, duration : BOOLEAN]
  BY <1>2
<1>3. QED
  BY <1>1, <1>2, RecorderAssumption

MuxerTypes ==
    /\ file \in {"none", "initialized", "started", "released"}
    /\ track \in [Consumers -> BOOLEAN] /\ added \in [Consumers -> BOOLEAN]
    /\ muxerFormat \in [Consumers -> BOOLEAN]

LEMMA NoneType == None \in [Consumers -> BOOLEAN]
BY DEF None

LEMMA AddTrackTypes ==
  ASSUME MuxerTypes, NEW e \in Consumers, AddTrack(e) PROVE MuxerTypes'
BY DEF MuxerTypes, AddTrack

LEMMA SetMuxerTypes ==
  ASSUME MuxerTypes, NEW e \in Consumers, SetMuxer(e) PROVE MuxerTypes'
<1>1. CASE UNCHANGED muxerVars
  BY <1>1 DEF MuxerTypes, muxerVars
<1>2. CASE AddTrack(e)
  BY <1>2, AddTrackTypes
<1>3. QED
  BY <1>1, <1>2 DEF SetMuxer

LEMMA PumpTypes ==
  ASSUME MuxerTypes, PumpStream PROVE MuxerTypes'
<1>1. CASE UNCHANGED muxerVars \/ WriteSample
  BY <1>1 DEF MuxerTypes, muxerVars, WriteSample
<1>2. CASE RollOver
  <2>1. file' \in {"started", "none"} /\ muxerFormat' = muxerFormat
    BY <1>2 DEF RollOver
  <2>2. /\ track' \in [Consumers -> BOOLEAN]
        /\ added' \in [Consumers -> BOOLEAN]
    BY <1>2, NoneType DEF RollOver
  <2>3. QED
    BY <2>1, <2>2 DEF MuxerTypes
<1>3. QED
  BY <1>1, <1>2 DEF PumpStream

OtherTypes ==
    /\ pc \in RecordingPCs \cup StoppingPCs \cup {"idle"}
    /\ params \in [muxer : BOOLEAN, isVoiceClose : BOOLEAN,
                   duration : BOOLEAN]
    /\ mMuxer \in BOOLEAN
    /\ at \in [Consumers -> {"off", "loop", "drain", "pump", "stopping",
                             "ended"}]
    /\ isExit \in [Consumers -> BOOLEAN] /\ newFormat \in [Consumers -> BOOLEAN]
    /\ mMuxerRef \in [Consumers -> BOOLEAN]

\* What the camera thread and the consumers do.
LEMMA NextSteps ==
  ASSUME [Next]_vars
  PROVE  \/ SetVideo \/ StartAudio \/ SetAudio \/ StopAudioRecord
         \/ StopVideoRecord \/ StopPusher
         \/ \E p \in Params : StartPusher(p)
         \/ \E e \in Consumers : Consumer(e)
         \/ UNCHANGED vars
BY DEF Next, CameraThread

LEMMA TypesStep == ASSUME Types, [Next]_vars PROVE Types'
<1> USE DEF consumerVars, cameraVars
<1>1. MuxerTypes /\ OtherTypes
  BY DEF Types, MuxerTypes, OtherTypes
<1>2. MuxerTypes'
  <2>1. CASE SetVideo \/ SetAudio
    BY <1>1, <2>1, SetMuxerTypes DEF SetVideo, SetAudio, Consumers
  <2>2. CASE StopPusher
    BY <1>1, <2>2, NoneType DEF StopPusher, ReleaseFile, MuxerTypes, muxerVars
  <2>3. ASSUME NEW p \in Params, StartPusher(p) PROVE MuxerTypes'
    BY <1>1, <2>3, NoneType DEF StartPusher, MuxerTypes
  <2>4. ASSUME NEW e \in Consumers, Consumer(e) PROVE MuxerTypes'
    <3>1. CASE NewFormat(e)
      BY <1>1, <2>4, <3>1, AddTrackTypes DEF NewFormat, MuxerTypes, muxerVars
    <3>2. CASE Pump(e)
      BY <1>1, <3>2, PumpTypes DEF Pump
    <3>3. CASE UNCHANGED muxerVars
      BY <1>1, <3>3 DEF MuxerTypes, muxerVars
    <3>4. QED
      BY <2>4, <3>1, <3>2, <3>3 DEF Consumer, Leave, TryAgain, Data, End
  <2>5. CASE UNCHANGED muxerVars
    BY <1>1, <2>5 DEF MuxerTypes, muxerVars
  <2>6. QED
    BY <2>1, <2>2, <2>3, <2>4, <2>5, NextSteps DEF StartAudio,
       StopAudioRecord, StopVideoRecord, Exit, Unset, Join, vars
<1>3. OtherTypes'
  <2> USE <1>1 DEF OtherTypes
  <2>1. CASE SetVideo \/ SetAudio
    BY <2>1 DEF SetVideo, SetAudio, SetMuxer, Go, RecordingPCs
  <2>2. CASE StartAudio \/ StopPusher
    BY <2>2 DEF StartAudio, StopPusher, Go, RecordingPCs, StoppingPCs
  <2>3. CASE StopAudioRecord
    BY <2>3 DEF StopAudioRecord, Exit, Unset, Join, Go, StoppingPCs
  <2>4. CASE StopVideoRecord
    BY <2>4 DEF StopVideoRecord, Exit, Unset, Join, Go, StoppingPCs
  <2>5. ASSUME NEW p \in Params, StartPusher(p) PROVE OtherTypes'
    <3>1. /\ params' \in [muxer : BOOLEAN, isVoiceClose : BOOLEAN,
                          duration : BOOLEAN]
          /\ mMuxer' \in BOOLEAN
      BY <2>5, ParamsType DEF StartPusher
    <3>2. QED
      BY <2>5, <3>1 DEF StartPusher, Go, RecordingPCs
  <2>6. ASSUME NEW e \in Consumers, Consumer(e) PROVE OtherTypes'
    <3>1. CASE Leave(e) \/ TryAgain(e) \/ End(e)
      BY <3>1 DEF Leave, TryAgain, End, Step
    <3>2. CASE NewFormat(e)
      BY <3>2 DEF NewFormat
    <3>3. CASE Data(e)
      BY <3>3 DEF Data, AfterData
    <3>4. CASE Pump(e)
      BY <3>4 DEF Pump, Step, AfterData
    <3>5. QED
      BY <2>6, <3>1, <3>2, <3>3, <3>4 DEF Consumer
  <2>7. CASE UNCHANGED vars
    BY <2>7 DEF vars
  <2>8. QED
    BY <2>1, <2>2, <2>3, <2>4, <2>5, <2>6, <2>7, NextSteps
<1>4. QED
  BY <1>2, <1>3 DEF Types, MuxerTypes, OtherTypes
-----------------------------------------------------------------------------
(* The phases *)

LEMMA PhasesStep == ASSUME Types, Phases, [Next]_vars PROVE Phases'
<1> USE DEF Phases, RecordingPCs
<1>1. CASE SetVideo
  BY <1>1 DEF SetVideo, SetMuxer, Go, Consumers, Types
<1>2. CASE StartAudio
  BY <1>2 DEF StartAudio, Go, Consumers, Types
<1>3. CASE SetAudio
  BY <1>3 DEF SetAudio, SetMuxer, Go, Consumers, Types
<1>4. CASE StopAudioRecord
  BY <1>4 DEF StopAudioRecord, Exit, Unset, Join, Go, Consumers, Types
<1>5. CASE StopVideoRecord
  BY <1>5 DEF StopVideoRecord, Exit, Unset, Join, Go, Consumers, Types
<1>6. CASE StopPusher
  BY <1>6 DEF StopPusher, Go, consumerVars
<1>7. ASSUME NEW p \in Params, StartPusher(p) PROVE Phases'
  BY <1>7, ParamsType DEF StartPusher, Go, Consumers, Types
<1>8. ASSUME NEW e \in Consumers, Consumer(e) PROVE Phases'
  <2>1. UNCHANGED <<cameraVars, mMuxerRef>>
    BY <1>8 DEF Consumer, Leave, TryAgain, NewFormat, Data, Pump, End
  <2>2. at[e] # "off" /\ \A u \in Consumers \ {e} : at'[u] = at[u]
    BY <1>8 DEF Consumer, Leave, TryAgain, NewFormat, Data, Pump, End, Step,
       Dequeues, Types
  <2>3. at'[e] = "pump" => mMuxerRef[e]
    BY <1>8 DEF Consumer, Leave, TryAgain, NewFormat, Data, Pump, End, Step,
       AfterData, Types
  <2>4. QED
    BY <2>1, <2>2, <2>3 DEF cameraVars, Consumers
<1>9. CASE UNCHANGED vars
  BY <1>9 DEF vars, cameraVars, consumerVars
<1>10. QED
  BY <1>1, <1>2, <1>3, <1>4, <1>5, <1>6, <1>7, <1>8, <1>9, NextSteps
-----------------------------------------------------------------------------
(* The tracks *)

Good == Tracks /\ TrackNotLost /\ LegalCalls

\* A step that calls no method of the muxer.
LEMMA GoodKept ==
  ASSUME Types, Phases, Good, UNCHANGED <<params, muxerVars>>,
         \A u \in Consumers : Settled(u) => Settled(u)',
         \A u \in Consumers : mMuxer' /\ mMuxerRef'[u] /\ newFormat'[u]
                              => mMuxer /\ mMuxerRef[u] /\ newFormat[u]
  PROVE  Good'
<1>1. Tracks'
  BY TracksKept DEF Good, muxerVars
<1>2. TrackNotLost' /\ LegalCalls'
  BY DEF Good, TrackNotLost, LegalCalls, FileFailed, muxerVars
<1>3. QED
  BY <1>1, <1>2 DEF Good

\* The consumer that is given the muxer, or learns its format, adds its track
\* if it has both.
LEMMA GoodAdded ==
  ASSUME Types, Phases, Good, Alive, params.muxer, UNCHANGED params,
         NEW e \in Consumers, ~Settled(e),
         params.isVoiceClose => e = "video", AddTrack(e), Settled(e)',
         \A u \in Consumers : Settled(u) => Settled(u)',
         \A u \in Consumers \ {e} :
           mMuxer' /\ mMuxerRef'[u] /\ newFormat'[u]
           => mMuxer /\ mMuxerRef[u] /\ newFormat[u]
  PROVE  Good'
<1>1. CASE file = "initialized"
  <2>1. /\ Tracks' /\ illegal' = illegal /\ added'[e]
        /\ \A u \in Consumers : added[u] => added'[u]
    BY <1>1, TracksAdded DEF Good
  <2>2. TrackNotLost'
    BY <1>1, <2>1 DEF Good, TrackNotLost
  <2>3. LegalCalls'
    BY <2>1 DEF Alive, LegalCalls
  <2>4. QED
    BY <2>1, <2>2, <2>3 DEF Good
<1>2. CASE file # "initialized"
  <2>1. /\ illegal' = {"no file"} /\ FileFailed
        /\ UNCHANGED <<file, track, added, muxerFormat>>
    BY <1>2, AddTrackLegal DEF Good, Alive
  <2>2. Tracks'
    BY <2>1, TracksKept DEF Good
  <2>3. FileFailed' /\ file' = "none"
    BY <2>1 DEF FileFailed
  <2>4. TrackNotLost' /\ LegalCalls'
    BY <2>1, <2>3 DEF TrackNotLost, LegalCalls
  <2>5. QED
    BY <2>2, <2>4 DEF Good
<1>3. QED
  BY <1>1, <1>2

LEMMA SetMuxerGood ==
  ASSUME Types, Phases, Good, Alive,
         NEW e \in Consumers, SetMuxer(e), ~Given(e),
         params.isVoiceClose => e = "video", pc \in RecordingPCs,
         UNCHANGED <<params, mMuxer, newFormat>>, Given(e)',
         \A u \in Consumers : Given(u) => Given(u)',
         \A u \in Consumers \ {e} : ~mMuxerRef'[u] \/ mMuxerRef[u]
  PROVE  Good'
<1>1. \A u \in Consumers : Settled(u) => Settled(u)'
  BY DEF Settled
<1>2. CASE mMuxer /\ newFormat[e]
  <2>1. AddTrack(e) /\ params.muxer
    BY <1>2 DEF SetMuxer, Phases
  <2>2. Settled(e)' /\ ~Settled(e)
    BY <1>2 DEF Settled
  <2>3. QED
    BY <1>1, <2>1, <2>2, GoodAdded
<1>3. CASE ~(mMuxer /\ newFormat[e])
  <2>1. UNCHANGED muxerVars
    BY <1>3 DEF SetMuxer
  <2>2. \A u \in Consumers : mMuxer' /\ mMuxerRef'[u] /\ newFormat'[u]
                             => mMuxer /\ mMuxerRef[u] /\ newFormat[u]
    BY <1>3
  <2>3. QED
    BY <1>1, <2>1, <2>2, GoodKept
<1>4. QED
  BY <1>2, <1>3

LEMMA CameraGood ==
  ASSUME Types, Phases, Good
  PROVE  SetVideo \/ StartAudio \/ SetAudio \/ StopAudioRecord
         \/ StopVideoRecord \/ StopPusher => Good'
<1>1. CASE SetVideo
  <2>1. /\ SetMuxer("video") /\ pc = "setVideo" /\ Alive
        /\ pc' \in {"startAudio", "recording"}
        /\ UNCHANGED <<params, mMuxer, newFormat>>
    BY <1>1 DEF SetVideo, Go
  <2>2. \A u \in Consumers : ~mMuxerRef[u]
    BY <2>1 DEF Phases, Consumers
  <2>3. \A u \in Consumers \ {"video"} : ~mMuxerRef'[u]
    BY <2>1, <2>2 DEF SetMuxer, Types
  <2>4. ~Given("video") /\ Given("video")'
        /\ \A u \in Consumers : Given(u) => Given(u)'
    BY <2>1 DEF Given, Consumers
  <2>5. QED
    BY <2>1, <2>3, <2>4, SetMuxerGood DEF RecordingPCs, Consumers
<1>2. CASE SetAudio
  <2>1. /\ SetMuxer("audio") /\ pc = "setAudio" /\ pc' = "recording" /\ Alive
        /\ UNCHANGED <<params, mMuxer, newFormat>>
    BY <1>2 DEF SetAudio, Go
  <2>2. \A u \in Consumers \ {"audio"} : mMuxerRef'[u] = mMuxerRef[u]
    BY <2>1 DEF SetMuxer, Types
  <2>3. ~Given("audio") /\ Given("audio")'
        /\ \A u \in Consumers : Given(u) => Given(u)'
    BY <2>1 DEF Given, Consumers
  <2>4. ~params.isVoiceClose
    BY <2>1 DEF Phases
  <2>5. QED
    BY <2>1, <2>2, <2>3, <2>4, SetMuxerGood DEF RecordingPCs, Consumers
<1>3. CASE StartAudio
  <2>1. /\ pc = "startAudio" /\ pc' = "setAudio" /\ ~mMuxerRef["audio"]
        /\ UNCHANGED <<params, mMuxer, muxerVars, mMuxerRef>>
        /\ newFormat' = [newFormat EXCEPT !["audio"] = FALSE]
    BY <1>3 DEF StartAudio, Go, Phases
  <2>2. \A u \in Consumers : Settled(u) => Settled(u)'
    BY <2>1 DEF Settled, Given, Types, Consumers
  <2>3. \A u \in Consumers : newFormat'[u] => newFormat[u]
    BY <2>1 DEF Types
  <2>4. QED
    BY <2>1, <2>2, <2>3, GoodKept
<1>4. CASE StopAudioRecord \/ StopVideoRecord
  <2>1. /\ pc \in StoppingPCs
        /\ UNCHANGED <<params, mMuxer, muxerVars, newFormat>>
        /\ pc' \in StoppingPCs \cup {"idle"}
    BY <1>4 DEF StopAudioRecord, StopVideoRecord, Exit, Unset, Join, Go,
       StoppingPCs
  <2>2. ~mMuxer
    BY <2>1 DEF Phases, RecordingPCs, StoppingPCs
  <2>3. \A u \in Consumers : Settled(u) => Settled(u)'
    BY <2>1 DEF Settled, Given, StoppingPCs
  <2>4. QED
    BY <2>1, <2>2, <2>3, GoodKept
<1>5. CASE StopPusher
  <2>1. /\ pc' = "exitAudio" /\ ~mMuxer'
        /\ illegal' = {}
        /\ UNCHANGED <<params, added, muxerFormat, newFormat>>
    BY <1>5 DEF Alive, StopPusher, Go, ReleaseFile, muxerVars, consumerVars
  <2>2. \A u \in Consumers : Settled(u) => Settled(u)'
    BY <2>1 DEF Settled, Given
  <2>3. Tracks'
    <3>1. CASE UNCHANGED <<file, track>>
      BY <2>1, <2>2, <3>1, TracksKept DEF Good
    <3>2. CASE /\ track["video"] /\ track' = None
               /\ file' = IF file = "started" THEN "released" ELSE file
      <4>1. \A u \in Consumers : ~track'[u]
        BY <3>2 DEF None
      <4>2. ~Complete(track)'
        BY <4>1 DEF Complete, Consumers
      <4>3. /\ file' # "started"
            /\ file' # "initialized" => file # "initialized"
            /\ FileFailed => FileFailed'
        BY <2>1, <3>2 DEF FileFailed
      <4>4. QED
        BY <2>1, <2>2, <4>1, <4>2, <4>3 DEF Good, Tracks, Consumers
    <3>3. QED
      BY <1>5, <3>1, <3>2 DEF StopPusher, ReleaseFile, muxerVars
  <2>4. TrackNotLost' /\ LegalCalls'
    BY <2>1 DEF Good, TrackNotLost, LegalCalls
  <2>5. QED
    BY <2>3, <2>4 DEF Good
<1>6. QED
  BY <1>1, <1>2, <1>3, <1>4, <1>5

LEMMA StartGood ==
  ASSUME Types, Phases, Good, NEW p \in Params, StartPusher(p) PROVE Good'
<1>1. illegal' = {}
  BY DEF StartPusher, Go, Alive
<1>2. \A e \in Consumers : ~mMuxerRef'[e]
  BY DEF StartPusher, Go, Phases, Consumers
<1>3. TrackNotLost' /\ LegalCalls'
  BY <1>1, <1>2 DEF TrackNotLost, LegalCalls
<1>4. Tracks'
  <2>1. params'.muxer = p.muxer
    BY DEF StartPusher
  <2>2. CASE p.muxer
    <3>1. /\ file' \in {"initialized", "none"}
          /\ track' = None /\ added' = None /\ muxerFormat' = None
      BY <2>2 DEF StartPusher
    <3>2. \A e \in Consumers : ~track'[e] /\ ~added'[e]
      BY <3>1 DEF None
    <3>3. ~Complete(track)'
      BY <3>2 DEF Complete, Consumers
    <3>4. file' = "initialized" \/ FileFailed'
      BY <3>1 DEF FileFailed, None
    <3>5. file' # "started"
      BY <3>1
    <3>6. QED
      BY <3>2, <3>3, <3>4, <3>5 DEF Tracks
  <2>3. CASE ~p.muxer
    BY <2>1, <2>3 DEF Tracks
  <2>4. QED
    BY <2>2, <2>3
<1>5. QED
  BY <1>3, <1>4 DEF Good

LEMMA ConsumerGood ==
  ASSUME Types, Types', Phases, Good, NEW e \in Consumers, Consumer(e)
  PROVE  Good'
<1>1. UNCHANGED <<cameraVars, mMuxerRef>>
  BY DEF Consumer, Leave, TryAgain, NewFormat, Data, Pump, End
<1>2. \A u \in Consumers \ {e} : newFormat'[u] = newFormat[u]
  BY DEF Consumer, Leave, TryAgain, NewFormat, Data, Pump, End, Types
<1>3. newFormat[e] => newFormat'[e]
  BY DEF Consumer, Leave, TryAgain, NewFormat, Data, Pump, End, Types
<1>4. \A u \in Consumers : Settled(u) => Settled(u)'
  BY <1>1, <1>2, <1>3 DEF Settled, Given, cameraVars
<1>5. CASE NewFormat(e)
  <2>1. ~newFormat[e] /\ newFormat'[e]
    BY <1>5 DEF NewFormat, Types
  <2>2. CASE mMuxerRef[e] /\ AddTrack(e)
    <3>1. params.muxer /\ Given(e) /\ Alive
      BY <1>5, <2>2 DEF Phases, Given, Consumers, NewFormat, Dequeues
    <3>2. params.isVoiceClose => e = "video"
      BY <2>2 DEF Phases, Consumers
    <3>3. ~Settled(e) /\ Settled(e)'
      BY <1>1, <2>1, <3>1 DEF Settled, Given, cameraVars
    <3>4. QED
      BY <1>1, <1>2, <1>4, <2>2, <3>1, <3>2, <3>3, GoodAdded DEF cameraVars
  <2>3. CASE ~RefersToMuxer(e) /\ UNCHANGED muxerVars
    BY <1>1, <1>2, <1>4, <2>3, GoodKept DEF RefersToMuxer, cameraVars
  <2>4. QED
    BY <1>5, <2>2, <2>3 DEF NewFormat
<1>6. CASE Pump(e)
  <2>1. params.muxer /\ PumpStream /\ UNCHANGED <<newFormat, params>>
    BY <1>1, <1>6 DEF Pump, Step, Phases, cameraVars
  <2>2. /\ Tracks'
        /\ \/ illegal' = illegal
           \/ /\ illegal' = illegal \cup {"no format"}
              /\ params.isVoiceClose /\ params.duration
        /\ file' # "none" =>
             \A u \in Consumers : added[u] =>
               added'[u] \/ (params.isVoiceClose /\ u = "audio")
    BY <1>4, <2>1, PumpKeeps DEF Good
  <2>3. LegalCalls'
    <3>1. illegal = {}
      BY <1>6 DEF Pump, Step, Alive
    <3>2. QED
      BY <2>1, <2>2, <3>1 DEF LegalCalls
  <2>4. TrackNotLost'
    <3>1. file' # "none" => file # "none"
      BY <2>1 DEF PumpStream, WriteSample, RollOver, muxerVars
    <3>2. \A u \in Consumers : mMuxerRef[u]
                               => ~(params.isVoiceClose /\ u = "audio")
      BY DEF Phases
    <3>3. QED
      BY <1>1, <2>1, <2>2, <3>1, <3>2 DEF Good, TrackNotLost, cameraVars
  <2>5. QED
    BY <2>2, <2>3, <2>4 DEF Good
<1>7. CASE Leave(e) \/ TryAgain(e) \/ Data(e) \/ End(e)
  <2>1. UNCHANGED <<muxerVars, newFormat>>
    BY <1>7 DEF Leave, TryAgain, Data, End
  <2>2. QED
    BY <1>1, <1>4, <2>1, GoodKept DEF cameraVars
<1>8. QED
  BY <1>5, <1>6, <1>7 DEF Consumer

LEMMA GoodStep == ASSUME Types, Phases, Good, [Next]_vars PROVE Good'
<1>1. Types'
  BY TypesStep
<1>2. CASE UNCHANGED vars
  BY <1>2, GoodKept DEF vars, cameraVars, consumerVars, Settled, Given
<1>3. QED
  BY <1>1, <1>2, NextSteps, CameraGood, StartGood, ConsumerGood
-----------------------------------------------------------------------------
(* The theorems *)

LEMMA InitIInv == Init => IInv
<1> SUFFICES ASSUME Init PROVE IInv
  OBVIOUS
<1>1. Types
  BY NoneType DEF Init, Types, NoParams
<1>2. Phases
  BY DEF Init, Phases, NoParams, None, Consumers, RecordingPCs
<1>3. Tracks /\ TrackNotLost /\ LegalCalls
  BY DEF Init, Tracks, TrackNotLost, LegalCalls, NoParams
<1>4. QED
  BY <1>1, <1>2, <1>3 DEF IInv

LEMMA IInvStep == IInv /\ [Next]_vars => IInv'
BY TypesStep, PhasesStep, GoodStep DEF IInv, Good

LEMMA Invariance == Spec => []IInv
BY InitIInv, IInvStep, PTL DEF Spec

\* The MediaMuxer refuses no call, whichever of the camera thread and the two
\* consumers reaches it first, but line 125 of Mp4MediaMuxer.java with the
\* voice closed, and line 60 when the constructor could not open the file
\* (Mp4MediaMuxer.java:33-131).
THEOREM CallsAreLegal == Spec => []LegalCalls
<1>1. IInv => LegalCalls
  BY DEF IInv
<1>2. QED
  BY <1>1, Invariance, PTL

\* setTmpuMuxer and the new format of a consumer come in either order, and the
\* second of them adds the track (H264EncodeConsumer.java:64 and 160).
THEOREM TracksAreAdded == Spec => []TrackNotLost
<1>1. IInv => TrackNotLost
  BY DEF IInv
<1>2. QED
  BY <1>1, Invariance, PTL

\* A file that has started lacks no track (Mp4MediaMuxer.java:60-110).
THEOREM StartedHasTracks == Spec => []StartedIsComplete
<1>1. IInv => StartedIsComplete
  BY DEF IInv, Tracks, StartedIsComplete
<1>2. QED
  BY <1>1, Invariance, PTL

\* Between recordings there is no consumer and no reference to a muxer
\* (AbstractUVCCameraHandler.java:761).
THEOREM StoppedIsQuiet == Spec => []IdleIsQuiet
<1>1. IInv => IdleIsQuiet
  BY DEF IInv, Phases, IdleIsQuiet, Consumers, RecordingPCs
<1>2. QED
  BY <1>1, Invariance, PTL
=============================================================================
