---------------------------- MODULE PreviewStream ----------------------------
(***************************************************************************)
(* The producers of the preview: libuvc's callback thread, which queues a  *)
(* copy of every frame (uvc_preview_frame_callback, addPreviewFrame), and  *)
(* the preview thread, which negotiates and starts the stream, shows the   *)
(* frames and offers them for capture (preview_thread_func, do_preview).   *)
(***************************************************************************)
EXTENDS PreviewState

(***************************************************************************)
(* libuvc's callback thread.                                               *)
(***************************************************************************)

\* uvc_preview_frame_callback with a good frame: a copy is made and queued.
UvcDeliver ==
  /\ streaming
  /\ mIsRunning
  /\ Goto("uvc", "idle", "add")
  /\ GetInto(Copy)
  /\ UNCHANGED <<previewFrames, controlVars>>

\* uvc_preview_frame_callback when there is no memory for a copy, or when
\* uvc_duplicate_frame fails.
UvcLose ==
  /\ streaming
  /\ mIsRunning
  /\ \/ Goto("uvc", "idle", "drop") /\ GetInto(Copy)
     \/ Goto("uvc", "idle", "idle") /\ NoFrame /\ UNCHANGED hold
  /\ UNCHANGED <<previewFrames, controlVars>>

\* Faulty variant: addPreviewFrame does not signal.
UvcAddSilent ==
  /\ \/ /\ Goto("uvc", "add", "idle")
        /\ mIsRunning
        /\ PutFrom(Copy)
     \/ /\ Goto("uvc", "add", "drop")
        /\ ~mIsRunning \/ Len(previewFrames) >= MAX_FRAME
        /\ UNCHANGED frameVars
  /\ UNCHANGED controlVars

\* addPreviewFrame under preview_mutex.
UvcAdd ==
  /\ \/ /\ Goto("uvc", "add", "idle")
        /\ mIsRunning
        /\ PutFrom(Copy)
        /\ Signal(preview_sync)
     \/ /\ Goto("uvc", "add", "drop")
        /\ ~mIsRunning \/ Len(previewFrames) >= MAX_FRAME
        /\ UNCHANGED <<frameVars, preview_sync>>
  /\ UNCHANGED <<flagVars, targetVars, capture_sync, sessionVars, captureVars,
                 callVars>>

\* The end of addPreviewFrame, or of the callback: recycle_frame.
UvcDrop ==
  /\ Goto("uvc", "drop", "idle")
  /\ RecycleSlot(Copy)
  /\ UNCHANGED <<previewFrames, controlVars>>

Uvc == UvcDeliver \/ UvcLose \/ UvcAdd \/ UvcDrop

(***************************************************************************)
(* The preview thread.                                                     *)
(***************************************************************************)

\* prepare_preview: a failed negotiation ends the thread, and mIsRunning
\* stays true.
Prepare ==
  /\ \/ /\ Goto("preview", "prepare", "stream")
        /\ frameMode' \in Modes
     \/ /\ Goto("preview", "prepare", "ended")
        /\ UNCHANGED frameMode
  /\ UNCHANGED <<frameVars, flagVars, targetVars, syncVars, capture_thread,
                 streaming, captureVars, callVars>>

\* uvc_start_streaming_bandwidth.
StartStreaming ==
  /\ \/ /\ Goto("preview", "stream", "clear")
        /\ streaming' = TRUE
     \/ /\ Goto("preview", "stream", "ended")
        /\ UNCHANGED streaming
  /\ UNCHANGED <<frameVars, flagVars, targetVars, syncVars, capture_thread,
                 frameMode, captureVars, callVars>>

PreviewClear ==
  /\ Goto("preview", "clear", "create")
  /\ ClearQueue
  /\ UNCHANGED controlVars

\* pthread_create(&capture_thread): its result is not looked at.
CreateCapture ==
  /\ pc["preview"] = "create"
  /\ \/ \E c \in CaptureThreads :
          /\ pc[c] = "none"
          /\ pc' = [pc EXCEPT !["preview"] = "test", ![c] = "clear"]
          /\ capture_thread' = c
     \/ /\ pc' = [pc EXCEPT !["preview"] = "test"]
        /\ UNCHANGED capture_thread
  /\ UNCHANGED <<frameVars, flagVars, targetVars, syncVars, frameMode,
                 streaming, captureVars, callVars>>

\* The loop condition, read without a lock.
PreviewTest ==
  /\ IF mIsRunning THEN Goto("preview", "test", "wait")
                   ELSE Goto("preview", "test", "signal")
  /\ UNCHANGED <<frameVars, controlVars>>

\* What waitPreviewFrame does once it does not have to wait.
TakePreviewFrame ==
  IF mIsRunning /\ previewFrames # <<>>
  THEN IF frameMode = "MJPEG"
       THEN /\ pc' = [pc EXCEPT !["preview"] = "decode"]
            /\ TakeInto(Mjpeg)
       ELSE /\ pc' = [pc EXCEPT !["preview"] = "draw"]
            /\ TakeInto(Frame)
  ELSE /\ pc' = [pc EXCEPT !["preview"] = "test"]
       /\ UNCHANGED frameVars

\* waitPreviewFrame up to the wait, under preview_mutex: an empty queue is
\* the only reason to wait, and mIsRunning is not looked at before.
WaitPreviewFrame ==
  /\ pc["preview"] = "wait"
  /\ IF previewFrames = <<>>
     THEN /\ pc' = [pc EXCEPT !["preview"] = "blocked"]
          /\ preview_sync' = preview_sync \cup {"preview"}
          /\ UNCHANGED frameVars
     ELSE /\ TakePreviewFrame
          /\ UNCHANGED preview_sync
  /\ UNCHANGED <<flagVars, targetVars, capture_sync, sessionVars, captureVars,
                 callVars>>

PreviewResume ==
  /\ pc["preview"] = "blocked"
  /\ "preview" \notin preview_sync
  /\ TakePreviewFrame
  /\ UNCHANGED controlVars

\* MJPEG: a frame for the decoded picture.  The code does not test it for
\* NULL: the action waits for the memory the bound on Frames leaves.
Decode ==
  /\ Goto("preview", "decode", "decoded")
  /\ GetInto(Frame)
  /\ UNCHANGED <<previewFrames, controlVars>>

\* Faulty variant: the compressed frame is recycled only when it was decoded.
RecycleMjpegDecoded ==
  /\ \/ Goto("preview", "decoded", "draw") /\ RecycleSlot(Mjpeg)
     \/ Goto("preview", "decoded", "offer") /\ UNCHANGED <<heap, mFramePool, hold>>
  /\ UNCHANGED <<previewFrames, controlVars>>

\* uvc_mjpeg2rgbx succeeds ("draw") or fails ("offer").
RecycleMjpeg ==
  /\ Goto("preview", "decoded", "draw") \/ Goto("preview", "decoded", "offer")
  /\ RecycleSlot(Mjpeg)
  /\ UNCHANGED <<previewFrames, controlVars>>

\* draw_preview_one: without a window nothing is drawn, otherwise there is a
\* converted frame, memory permitting.
DrawConvert ==
  /\ \/ /\ mPreviewWindow # NULL
        /\ \/ Goto("preview", "draw", "copy") /\ GetInto(Converted)
           \/ Goto("preview", "draw", "offer") /\ NoFrame /\ UNCHANGED hold
     \/ /\ mPreviewWindow = NULL
        /\ Goto("preview", "draw", "offer")
        /\ UNCHANGED <<heap, mFramePool, hold>>
  /\ UNCHANGED <<previewFrames, controlVars>>

\* draw_preview_one: the copy to the window, which preview_mutex protects
\* and which changes nothing here, then the end of the converted frame.
DrawRecycle ==
  /\ Goto("preview", "copy", "offer")
  /\ RecycleSlot(Converted)
  /\ UNCHANGED <<previewFrames, controlVars>>

\* Faulty variant: addCaptureFrame does not broadcast.
OfferSilent ==
  /\ Goto("preview", "offer", "test")
  /\ frameMode = "YUYV" /\ CaptureMutexFree
  /\ \/ /\ mIsRunning
        /\ Recycle(FrameOf(CaptureQueu))
        /\ hold' = [hold EXCEPT ![CaptureQueu] = hold[Frame], ![Frame] = NULL]
     \/ /\ ~mIsRunning
        /\ hold' = [hold EXCEPT ![Frame] = NULL]
        /\ UNCHANGED <<heap, mFramePool>>
  /\ UNCHANGED <<previewFrames, controlVars>>

\* YUYV: addCaptureFrame, under capture_mutex.  When the session is over the
\* frame is neither stored nor recycled.  MJPEG: recycle_frame.
Offer ==
  /\ Goto("preview", "offer", "test")
  /\ \/ /\ frameMode = "YUYV" /\ CaptureMutexFree
        /\ \/ /\ mIsRunning
              /\ Recycle(FrameOf(CaptureQueu))
              /\ hold' = [hold EXCEPT ![CaptureQueu] = hold[Frame],
                                      ![Frame] = NULL]
              /\ capture_sync' = {}
           \/ /\ ~mIsRunning
              /\ hold' = [hold EXCEPT ![Frame] = NULL]
              /\ UNCHANGED <<heap, mFramePool, capture_sync>>
     \/ /\ frameMode = "MJPEG"
        /\ RecycleSlot(Frame)
        /\ UNCHANGED capture_sync
  /\ UNCHANGED <<previewFrames, flagVars, targetVars, preview_sync,
                 sessionVars, captureVars, callVars>>

\* The loop is over: wake the capture thread, without capture_mutex.
PreviewSignal ==
  /\ Goto("preview", "signal", "stopStream")
  /\ Signal(capture_sync)
  /\ UNCHANGED <<frameVars, flagVars, targetVars, preview_sync, sessionVars,
                 captureVars, callVars>>

\* uvc_stop_streaming joins the callback thread.
StopStreaming ==
  /\ Goto("preview", "stopStream", "ended")
  /\ pc["uvc"] = "idle"
  /\ streaming' = FALSE
  /\ UNCHANGED <<frameVars, flagVars, targetVars, syncVars, capture_thread,
                 frameMode, captureVars, callVars>>

PreviewThread ==
  \/ Prepare \/ StartStreaming \/ PreviewClear \/ CreateCapture
  \/ PreviewTest \/ WaitPreviewFrame \/ PreviewResume
  \/ Decode \/ RecycleMjpeg \/ DrawConvert \/ DrawRecycle \/ Offer
  \/ PreviewSignal \/ StopStreaming
=============================================================================
