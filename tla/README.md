# AndroidUSBCamera in TLA+

The repository is an Android library that shows and records a USB video class
(UVC) camera. This directory holds TLA+ models of its logic, the TLC
configurations that check them and TLAPS proofs about them. Paths below are
relative to `src/app/src/main/`.

## The system

From the wire up:

| Part | Where | State | Operations | Interacts with |
|---|---|---|---|---|
| libjpeg-turbo, rapidjson | `jni/libjpeg-turbo-1.5.0`, ... | vendored | | external |
| libusb | `jni/libusb/libusb/io.c`, `core.c`, `sync.c`, `os/android_usbfs.c` | vendored, with an Android back end of this repository: events lock, waiters, polled fds, flying transfers, URBs | submit, cancel, time out, handle events, close | the kernel; libuvc |
| libuvc context and device | `jni/libuvc/src/init.c`, `device.c` | context, event handler thread, references to devices, claimed interfaces, `kill_handler_thread` | `uvc_init2`, `uvc_open`, `uvc_close`, `uvc_exit`, `uvc_ref_device`, status and button callbacks | libusb events; UVCCamera.cpp |
| libuvc streaming | `jni/libuvc/src/stream.c` | `running`, transfers, the double buffer (`outbuf`, `holdbuf`), `seq`/`hold_seq`/`last_polled_seq` | negotiate, start, `_uvc_stream_callback`, `_uvc_user_caller`, stop, close | the event thread; UVCPreview's callback |
| UVCPreview | `jni/UVCCamera/UVCPreview.cpp` | flags, windows, callback object, frame pool, two queues, three threads | start, stop, set display, set capture display, set callback | libuvc's callback thread; Java callbacks |
| UVCCamera.cpp and JNI | `jni/UVCCamera/UVCCamera.cpp`, `serenegiant_usb_UVCCamera.cpp` | device handle, status and button callbacks, preview object, ranges of controls | connect, release, delegates, controls | UVCPreview, libuvc |
| UVCCamera.java | `java/com/serenegiant/usb/UVCCamera.java` | `mNativePtr`, `mCtrlBlock` | `synchronized` open, close, start, stop; unsynchronized `setFrameCallback`, `startCapture` | JNI |
| Camera handler | `java/.../usb/common/AbstractUVCCameraHandler.java` | message queue of the camera thread, `mSync`, `mIsPreviewing`, `mIsRecording`, encoders | open, close, startPreview, stopPreview (waits), recording, release | UVCCamera.java, encoders |
| USB monitor | `java/.../usb/USBMonitor.java` | control blocks, permissions, registered receiver | register, requestPermission, attach, detach, openDevice | Android broadcasts |
| Encoders and muxers | `java/.../usb/encoder` | per encoder: pending drains, `mIsEOS`; per muxer: counts of tracks and of started encoders | frame available, drain, stop, addTrack, start, stop | each other, MediaCodec |
| Widgets, sample application | `java/.../widget`, `java/com/dybs` | drawing, user interface | | handler |

What is hard in it:

* **Threads without a common lock.** UVCPreview reads `mIsRunning`,
  `mIsCapturing`, `mCaptureWindow` and `mFrameCallbackObj` without a lock,
  waits on conditions without loops, and signals without the mutex. libuvc
  shares `running` between the event thread and the callers.
* **Frames that change hands.** A buffer goes from the callback thread to a
  queue, to the preview thread, to the capture thread and back to a pool;
  nothing but discipline keeps it from having two owners, or none.
* **Start and stop in any order.** Threads are created asynchronously, joined
  by handles that may be stale, and the handler's callers wait for a
  notification that a wrong state suppresses.
* **Failure.** A camera that is pulled out, a transfer that cannot be
  resubmitted, a failed negotiation, exhausted memory, a muxer that never gets
  its second track.

What each part has to guarantee: frames have one owner and are bounded
(UVCPreview); a stopped preview is quiet (UVCPreview, handler); stop returns
(all); no transfer outlives its stream handle (streaming); no reference is
dropped twice (device, windows); the latest complete frame is delivered
(streaming); the muxer starts once and stops once, and every encoder ends
(encoders); a control block is closed when its device is gone (monitor).

`PROJECT.json` lists the components with their status and, under `hazards`, the
lines where these things could go wrong.

## The modules

From the core outwards: UVCPreview, which everything the user sees or records
goes through; the libuvc stream that feeds it; the device below, with the part
of libusb that both rest on; and the Java side, which drives them.

| Component | Modules |
|---|---|
| UVCPreview and the calls of UVCCamera.java | `FramePool`, `PreviewState`, `PreviewStream`, `PreviewCapture`, `PreviewCalls`, `Preview` |
| libuvc streaming | `UvcStreamState`, `UvcStreamHandler`, `UvcStream`, with `FrameMailbox` |
| libuvc context and device, `connect`, `release` | `UsbEvents`, `UvcDevice` |
| libusb's transfers | `UsbTransfer`, with `TransferContract` |
| Camera handler | `CameraHandler` |
| Encoders and muxer | `Recorder` |
| USB monitor | `UsbMonitor` |

`Preview` composes the threads of UVCPreview, `UvcStream` those of a stream,
`UvcDevice` the camera's life with the sharing of events of `UsbEvents`. The
contract one layer gives another is a module of its own where it can be stated:
`FrameMailbox` is what a stream gives UVCPreview, `TransferContract` what libusb
gives `stream.c` and `sync.c`; `UvcStream` and `UsbTransfer` are shown to
implement them. `UvcStream` assumes of libusb just what `UsbTransfer` shows: an
accepted transfer comes back once, a cancelled one even if the camera is silent.

### UVCPreview

* `FramePool` - frame identities, the pool (`get_frame`, `recycle_frame`), the
  bounded queue `previewFrames`, and *slots*: the variables that hold one frame
  each (`captureQueu`, locals of the threads). A frame's contents are
  abstracted, and so is the order of the pool: the code pops the last element,
  the model any.
* `PreviewState` - the variables of UVCPreview, program counters of the threads,
  and helpers. `Slots` is a constant that must equal `PreviewSlots` (assumed in
  `PreviewAssumption`, given by the configurations).
* `PreviewStream` - libuvc's callback thread and the preview thread.
* `PreviewCapture` - the capture threads.
* `PreviewCalls` - `setFrameCallback`, `setCaptureDisplay`, `setPreviewDisplay`,
  `startPreview`, `stopPreview`, with what UVCCamera.java and the JNI layer add:
  `stopPreview` removes the callback first, and a reference is taken to a
  window or object before the call.
* `Preview` - the composition, fairness and properties.
* `MCPreview` - `Preview` for TLC, with the symmetry of frames, and of capture
  threads and callbacks in `sessions`.
* `FramePoolProofs`, `PreviewProofs` - the proofs.

How the code maps to actions:

* A program counter per thread names the point reached. One action is one
  section under a mutex that does not wait, or one unlocked access of shared
  state. `capture_mutex` sections that the unlocked accesses of the capture
  thread can cut in two are several actions, with the mutex held in between
  (`CaptureMutexFree`).
* `pthread_cond_wait` puts the thread in `preview_sync` or `capture_sync` and
  releases the mutex in one step; the thread goes on when it has been removed.
  `pthread_cond_signal` removes one member or is lost; a broadcast empties the
  set. `SpuriousWakeups` allows removals nobody asked for.
* `pthread_join` of a handle that was never created or is joined already is
  undefined; the model lets it return at once, as bionic's error return does.
* `capture_thread` is the last created thread. A capture thread that was not
  joined stays in the model and keeps running, hence `CaptureThreads` has more
  than one member in the runs that stop and start again.
* Conversions, drawing and `clearDisplay` change only pixels; that they may
  fail is kept. The conversion function of the callback may be NULL: both ways
  are allowed at every frame.
* Memory: `Frames` is what the heap can provide. `get_frame` returns NULL when
  the pool and the heap are empty. `do_preview` does not test that in MJPEG
  mode (line 612), so `Decode` waits instead.
* `refs` counts the references native code holds to windows and callbacks.

### The libuvc stream

* `UvcStreamState` - the stream handle, the transfers, the camera.
* `UvcStreamHandler` - the event thread: `_uvc_stream_callback` for each
  transfer libusb completes, and the packets in it.
* `UvcStream` - start, stop and close, `_uvc_user_caller`, the composition,
  fairness and properties.
* `FrameMailbox` - what a stream promises: a box with the latest frame.
  `UvcStream` refines it (`IsMailbox`) with `box` the number of the presented
  frame and `taken` that of the copied one.
* `MCUvcStream`, with the symmetry of transfers; `UvcStreamProofs` - the
  proofs.

How the code maps to actions:

* A section under `cb_mutex` is one action, as none of them waits in the middle;
  both waits sit in loops. `running` is read and written without the mutex, so
  each access is a step: the event thread tests it (`TestRunning`) before it
  submits (`Resubmit`), `uvc_stream_close` tests it before `uvc_stream_stop`
  tests it again.
* `xfer[t]` follows a transfer: NULL, allocated, with libusb, cancelled, in its
  callback, or refused by libusb. A cancelled transfer may still complete with
  data, as libusb allows.
* Image data is the set of the camera's frames it comes from. `IsoData` and
  `BulkData` keep the differences of the two payload functions: a bogus
  isochronous packet is skipped, bulk data that does not fit flags the frame but
  its end publishes it, a bulk packet without data ends nothing.
* The camera sends any number of packets per frame, may never send the end of a
  frame, and at least one packet of every frame arrives. Without that a frame ID
  bit, which has one bit only, could not tell two frames apart.
* A handle is opened again only when nothing uses the one before
  (`NobodyLeft`): what a thread does with a freed handle is undefined, so the
  model reports it and goes no further.
* The caller is one thread, UVCPreview's preview thread. `uvc_stream_get_frame`
  refuses to work beside a callback and nothing calls it.
* The size of the buffers and of packets is not modelled.

### The device and its events

* `UsbEvents` - the event lock of a libusb context, the threads that poll, those
  that wait for another to poll, synchronous control requests, and
  `libusb_close`, which takes the events over by way of the control pipe.
* `UvcDevice` - `UVCCamera::connect` and `release`, `uvc_open` with its failing
  steps, `uvc_close`, the event thread, the references to the device.

Three threads: the event thread (`_uvc_handle_events`), the thread that opens,
controls and releases the camera, and another one that sends control requests
(the preview thread negotiates its format). A section under
`event_waiters_lock`, which no wait cuts in two, is one action; the three
statements of `libusb_unlock_events` are three. `events_lock` is recursive
(`owner`, `depth`), as `do_close` takes it a second time. `polls[t]` is the list
of fds a thread gave to `poll`, taken before it sleeps. A transfer is `none`,
`flying` or `ready` (its URBs wait to be reaped); how it gets there is
`UsbTransfer`. References are counted in `device.ref` (libuvc) and
`device.usb_ref` (libusb); `leaked` keeps how many `do_close` has dropped.

### A transfer

`UsbTransfer` has one transfer of any kind, cut into URBs, and four threads that
meet on it: the one that submits, one that cancels, one that expires it, and the
one that handles events. `lock` is the mutex of the transfer, which
`libusb_submit_transfer` and a discard hold across several `ioctl`s; each
`ioctl` is an action. The kernel completes URBs in order for bulk endpoints with
`USBFS_CAP_BULK_CONTINUATION`, and refuses continuation URBs after an early end.
Data is counted in halves of a URB, so that a URB is empty, short or full. The
owner may submit the transfer again from its callback, which is what libuvc
does. `TransferContract` is the promise: accepted once, called back once, and
`cancelled` only to an owner that asked.

### The camera handler

`CameraHandler` has `CameraThread` with its looper and message queue, and the
application's threads. A synchronized section, an access to the queue, and an
unlocked access of a field is an action each; the handlers of `MSG_OPEN`,
`MSG_CLOSE`, `MSG_PREVIEW_START` and `MSG_PREVIEW_STOP` are therefore several.
`cam` follows every `UVCCamera` the thread ever made. A call of the camera may
fail where the code catches an exception. Recording appears only as whether
there is a consumer.

### Recording

`Recorder` has the camera thread in `handleStartPusher` and `handleStopPusher`,
the threads of `H264EncodeConsumer` and `AACEncodeConsumer`, and
`Mp4MediaMuxer` above Android's `MediaMuxer`. MediaMuxer and MediaCodec are
external: `file` is MediaMuxer's documented state, a call it forbids is entered
in `illegal` and ends the process. When the format of an encoder is known, when
it has output and whether a wait times out is the environment's choice.

### The USB monitor

`UsbMonitor` has the main thread (broadcasts, `register`, `requestPermission`,
`destroy`), the thread of `mAsyncHandler` (listener, `processConnect`, the check
every two seconds) and the camera thread, which opens and closes clones of
control blocks. Broadcasts and runnables are sequences. Blocks are numbered in
the order of their creation and never forgotten by the model, so that one the
code has lost is still seen to be open.

Definitions commented "Faulty variant" are not part of the model: each is a
wrong version of the definition below it, kept to show that the properties
notice it.

## The runs

Deadlock is not checked anywhere: a preview that nobody stops, a handler nobody
calls, a device nobody unplugs and an exhausted bound all stop a model without
being an error of it. That something does go on is stated by the liveness
properties.

| Run | Instance | Shows |
|---|---|---|
| `sessions` | 2 frames, 2 capture threads, YUYV, start/stop/setPreviewDisplay/setFrameCallback, 2 callbacks, 2 sessions, spurious wakeups | `StoppedIsQuiescent`, `CallbackReferenced` |
| `windows` | 3 frames, queue of 2, 1 capture thread, YUYV and MJPEG, start/stop/setPreviewDisplay/setCaptureDisplay | `TypeOK`, `FrameOwnership`, `LeakBound`, `MjpegReturnsFrames` |
| `live` | 2 frames, queue of 2, 1 capture thread, start/stop/setPreviewDisplay/setFrameCallback | `QueuedFrameIsTaken`, `ReplaceReturns` |
| `capture_hang` | as `live`, with a queue of 1 and without setFrameCallback | violation of `CaptureReturns` |
| `stream_iso` | isochronous, 2 transfers, 3 frames, 2 streams, transfers that end with an error | `CloseEndsAll`, `EachFrameOnce`, `SleepersAreWoken`, `CloseReturns`, `PublishedIsTaken` |
| `stream_bulk` | bulk, 2 transfers, 3 frames, 2 streams, damaged packets too | `WholeFrames`, `IsMailbox` |
| `stream_unplug` | isochronous, 2 transfers, 2 frames, damaged packets, an unplugged camera and refused transfers | `OneEscapesTheCancel`, `UnpluggedEndsUser` |
| `device` | 3 threads, 2 connections, 2 control requests, 1 status event, unplugging at any moment | `PolledIsOpen`, `WaitersAreWoken`, `DoneIsReported`, `ReleaseEndsAll`, `ControlReturns`, `ReleaseReturns`, `StatusIsHandled` |
| `transfers` | a bulk, isochronous or control transfer of up to 3 URBs, submitted again and again | `UrbsOutlived`, `CompletedIsComplete`, `ReturnUnderWay`, `IsContract`, `ComesBack` |
| `handler` | 1 caller, 5 calls of any kind | `OpenIsHeld`, `WaitedIsStopped`, `StopReturns`, `ReleaseEnds` |
| `recorder` | 2 recordings, every combination of muxer, voice and duration | `LegalCalls`, `TrackNotLost`, `IdleIsQuiet`, `RecordingEnds` |
| `monitor` | 1 device, 4 control blocks, 2 requests, 1 registration | `OpenIsKnown`, `AnswerNotLost`, `RequestIsAnswered` |

What the properties say:

* `FrameOwnership`: no buffer is reachable from two places, and no free buffer
  is reachable.
* `LeakBound`: `addCaptureFrame` drops its frame when the session is over; that
  is the only leak, at most one frame per session. `MjpegReturnsFrames`: none
  in MJPEG mode.
* `StoppedIsQuiescent`: after `stopPreview` the preview thread is joined, libuvc
  does not call back, and no frame of the session is left in a queue - even
  when a straggling capture thread still runs.
* `CallbackReferenced`: two threads may replace the callback, and both wait for
  the capture thread at once; each reference is deleted once, and never that of
  the one in force. `QueuedFrameIsTaken`, `ReplaceReturns`: see Fairness.
* `CloseEndsAll`: when a stream is closed no transfer, callback or thread uses
  its handle. `OneEscapesTheCancel`: of the transfers a stop cancels it misses at
  most the one the event thread is submitting. `SleepersAreWoken`: whoever sleeps
  on the condition of the stream has somebody left who is going to wake it.
  `CloseReturns`, `PublishedIsTaken`, `UnpluggedEndsUser`: see Fairness.
* `WholeFrames`: a published frame is one frame of the camera. `EachFrameOnce`:
  the user gets each at most once and in order. `IsMailbox`: and always the
  latest.
* `PolledIsOpen`: `libusb_close` never closes an fd another thread polls.
  `WaitersAreWoken`: whoever sleeps because another thread handles the events
  has somebody who is going to wake it. `DoneIsReported`: nobody sleeps beside a
  completed transfer. `ReleaseEndsAll`: a released camera leaves no thread, no
  transfer and no reference - but the two it does leave (Observations).
  `ControlReturns`, `ReleaseReturns`, `StatusIsHandled`: requests return, a
  release returns, and a status event reaches its function.
* `UrbsOutlived`: the URBs of a transfer are freed when the kernel has none of
  them. `CompletedIsComplete`: what is reported as complete has an end (the first
  short URB or the last), only full URBs before it, and no hole. Two things are
  excepted by name: a failed URB is the end when the kernel took no more of the
  transfer (`CutOff`), and without continuation data from behind the end may be
  counted, against a comment (Observations). `ReturnUnderWay`: a transfer that
  was accepted has at every moment something that brings it back. `IsContract`: see
  `TransferContract`. `ComesBack`: a transfer cancelled, expired or unplugged is
  called back, whatever the camera does.
* `OpenIsHeld`: an open camera is always within reach of the handler.
  `WaitedIsStopped`: a caller that waited in `stopPreview` goes on only when no
  camera previews. `StopReturns`: it does go on. `ReleaseEnds`: a released
  handler ends its thread, with no camera open.
* `LegalCalls`: the three threads of a recording make no call `MediaMuxer`
  refuses, but for the two of line 125 and of a constructor that failed
  (Observations). `TrackNotLost`: who knows format and muxer has added its track.
  `IdleIsQuiet`: a stopped recording leaves no thread. `RecordingEnds`: stopping
  returns.
* `OpenIsKnown`: the monitor knows every control block that is open.
  `AnswerNotLost`: an answer to a request passes from hand to hand, and no step
  drops it while the monitor is registered. `RequestIsAnswered`: whoever asks
  for permission hears an answer.

More is proved that no run checks: `FrameBounds` (the limits of pool and
queue), `SleepsWithoutFrame` (no frame waits for a thread of UVCPreview that
sleeps), `StartedIsComplete` (a file starts with all its tracks), and the types
of `UsbTransfer` and `UsbMonitor`.

### The violation

`stopPreview` can wait for ever: it signals `capture_sync` without the mutex
(`UVCPreview.cpp:375-377`), and `waitCaptureFrame` does not look at
`mIsRunning` before it waits. `findings` in `PROJECT.json` quotes the comment
that says otherwise.

### Observations

Facts that the models brought out and no property states, because the property
that would fail has no words of the repository behind it or is a consequence of
one already listed. Each comes back when the bound or exception named is lifted.

UVCPreview

* `setCaptureDisplay` waits for the end of capturing ("wait finishing
  capturing", line 778), but the next frame ends that wait as well, and the
  window is replaced while the capture thread draws on it, clears it or reads
  the callback object without the lock (lines 940, 973).
* In MJPEG mode `setFrameCallback` may wait until the preview stops: nobody
  offers frames for capture (`ReplaceReturns` with `Modes = {"MJPEG"}`).
* A stop that comes before the capture thread is created does not join it, and
  the next session has two.

libuvc streaming

* A camera that is pulled out makes `_uvc_stream_callback` clear `running`
  (line 985), and `uvc_stream_close` then frees the stream without stopping it.
* A transfer refused when it is resubmitted (line 1003) is waited for without
  end; one refused at the start of a stream leaves the callback thread and the
  other transfers with a freed handle (`SubmitFails = TRUE`).
* The callback thread reads `hold_bfh_err` outside the mutex (line 1657) and may
  give an old frame again: `EachFrameOnce` holds only if packets are not damaged.
* The first frame of a stream, number 0, is taken for one already seen.

Device and libusb

* `kill_handler_thread` is never reset: a camera opened again on the same
  context has an event thread that ends at once. Control requests handle their
  events themselves; status events and stream transfers are then handled only
  while somebody else does (`StatusIsHandled` excepts it).
* The status and button callback objects are deleted before the event thread
  that calls them ends (`UVCCamera.cpp:202`).
* A release can take up to the 60 s of the event thread's `poll`: nothing wakes
  it but the control pipe, and a thread that starts to poll after the byte was
  read sleeps through.
* `do_close` unlocks the recursive events lock once inside its section, which
  clears `event_handler_active` while the lock is held; and it forgets
  transfers in flight with the references they hold.
* `release` closes `mFd` also when `connect` failed, where it is 0.
* Without `USBFS_CAP_BULK_CONTINUATION` a stall frees URBs the kernel still has
  (`BulkStalls = TRUE`), against the comment at `android_usbfs.c:2695`. An error
  that ends a continued transfer while it is being submitted is reported as
  completion: the kernel refuses the URBs that are left, which counts as an early
  end (lines 2280-2300), and the error that came before is not looked at (`CutOff`).
* A bulk transfer may be reported as completed with a hole in its data. The
  kernel may offer neither continuation, nor scatter-gather, nor packets of any
  size; then it is split without continuation (`android_usbfs.c:2184-2190`), and a
  URB behind a short one may complete before it is discarded. Its data is moved
  up behind that of the short one and counted (lines 2612-2622), even when a URB
  between them failed. The comment at line 2605 says that this "can't happen";
  `CompletedIsComplete` leaves it out by name.
* `libusb_cancel_transfer` may answer NOT_FOUND for a transfer that is then reported
  as cancelled.

Camera handler and recording

* With two callers the second in `stopPreview` may never be notified, and one
  may be let go by the notification meant for the other; hence one caller.
* `close` leaves `mIsPreviewing` true: after another open the next preview is
  never started.
* `stopPreview` returns at once while `handleStartPreview` is still starting.
* A muxer that is released before the video track is added is started later and
  never stopped; a limited duration with the voice closed adds an audio track
  without a format (`LegalCalls` excepts it); the first sample need not be a key
  frame.
* The constructor of `Mp4MediaMuxer` catches the `IOException` of a file that
  cannot be opened and leaves `mMuxer` null (lines 43-51). The recording goes on,
  and the first `addTrack` (line 60) throws a `NullPointerException` on the thread
  of an encoder or on the camera thread. `StartPusher` has the failure, and
  `LegalCalls` excepts that call. The same null is left when the next file of a
  limited duration cannot be opened (line 126). That next file does not have the
  path of the first either: the constructor's `mFilePath` is a local variable
  that hides the field (line 34), and line 123 uses the field, which is null.

USB monitor

* Closing a clone of a control block removes the original's entry from
  `mCtrlBlocks` (line 1385); `OpenIsKnown` excepts that device.
* The check and the broadcasts race: an attachment between two checks may be
  lost to the check, one may be reported twice. The block of a device that was
  just detached may stay, and a destroy that meets a connection leaves its block
  open. `hasPermission` and `getDeviceList` throw once the monitor is destroyed
  (lines 295, 306 and 454), and the check, which calls them, does not catch it:
  with a destroy in between the async thread ends by an exception, where the
  model's goes on. `onConnect` may come with a connection that is null by then.

### Bounds

`Preview`: one window is enough for "none", "the same" and "another" (NULL is a
target too). `sessions` has a queue of one, which is full after one frame and
empty after one more step, and with the other frame the capture threads are fed;
two sessions give every leftover of the first a chance to disturb the second.
`MaxSets` bounds the replacing calls; one of them sets the preview window, which
`startPreview` needs. The two that are left in `sessions` bring one callback and
then another: while that call waits for the capture thread, `stopPreview`
takes the callback away and waits for the same thread, and each of the two
comes back to what the other has left (without the lock they would delete the
same reference). In `windows` and `live` the queue holds two, so that more than one
frame waits. A full pool takes more frames than any run has (`FRAME_POOL_SZ` is two
more than the queue): that `recycle_frame` then frees is in the model, and what
it means for the properties is proved only.

`UvcStream`: two transfers suffice for one in its callback while another is with
libusb; two streams give the leftovers of one a chance to meet the next; three
frames let two IDs alternate and come back.

`UvcDevice`: three threads are all that share a context here; two connections
reach the context used again, two requests reach two waiters beside a handler,
and a request after another was completed by somebody else.

`UsbTransfer`: three URBs have one before, at and after the end of the data.

`CameraHandler`: five calls reach open, preview, open again, stop, release, and
every order of as many. `UsbMonitor`: with one device and four blocks there is a
connection, a clone, and both again after the first block was closed. A device is
attached once, as Android gives a device that is plugged in again a new name.
`Recorder`: the second recording meets what the first left.

### Fairness

`FairSpec` assumes of the scheduler that a thread that can run does
(`WF` for the preview thread, each capture thread, and the steps by which a call
that has begun goes on), and of the camera that while it streams frames keep
coming, with memory for a copy now and then (`SF_vars(UvcDeliver)`). It assumes
nothing about the application: no call has to begin. Nothing in the code
justifies more; in particular condition variables are not fair and signals may
be lost. `QueuedFrameIsTaken` holds because `addPreviewFrame` signals under the
mutex under which the preview thread looks at the queue; `ReplaceReturns` holds
in YUYV mode only because every frame broadcasts `capture_sync`, which is what
makes the early end of the wait in `setCaptureDisplay`, and the long one in MJPEG
mode, two sides of one design.

The stream's `FairSpec` assumes that the threads run, that libusb completes the
transfers it has (all have a timeout of 5 s, and cancelled ones come back), and
that a transfer has finitely many packets (`SF_vars(PacketsEnd)`: the packet loop
may be in another step). No frame has to come from the camera. `CloseReturns`
then rests on every transfer coming back and being deleted, and
`PublishedIsTaken` on the broadcast of `_uvc_swap_buffers`.

`UvcDevice`: the threads run, `poll` returns at the latest after its 60 s, and
the camera answers a control request (which has a timeout). The timeout of
`libusb_wait_for_event` is not counted on, so that `ControlReturns` shows the
broadcasts suffice. Nothing assumes a status event or an unplugging.

`UsbTransfer`: the threads run (the event thread as one, for there is one at a
time), and a removal of the device once begun is completed. That a URB completes
is assumed only of one that was discarded or whose device is gone, which is the
kernel's promise.

`CameraHandler`: the camera thread runs, and so does a call once begun.
`Recorder`: the same, and an encoder that is fed no more is empty in the end
(`SF_vars(TryAgain(e))`: it says so from time to time). `UsbMonitor`: the
threads run, the user answers the dialog, and the check that posts itself again
leaves room for other runnables of its queue (`SF`, as the queue is FIFO but the
check may be run between any two).

## The proofs

### UVCPreview

For any numbers of frames, capture threads, windows, callbacks and calls, any
capacity `MAX_FRAME > 0`, and any bounds, `PreviewProofs` proves:

* `TypeCorrect`: `Spec => []TypeOK`
* `FramesAreOwned`: `Spec => []FrameOwnership`
* `StopIsComplete`: `Spec => []StoppedIsQuiescent`
* `FramesAreBounded`: `Spec => []FrameBounds`
* `MjpegLosesNone`: `Spec => MjpegReturnsFrames`
* `LeaksAreBounded`: `Spec => []LeakBound`
* `CallbackIsReferenced`: `Spec => []CallbackReferenced`
* `FramesWakeThreads`: `Spec => []SleepsWithoutFrame`

The assumptions are `FramePoolAssumption` (finitely many frames, NULL is not
one) and `PreviewAssumption` (thread names differ, the slots are those of the
preview, no object is both a window and a callback).

The inductive invariant is `IInv == TypeOK /\ FrameOwnership /\ Lifecycle`.
Ownership alone is not inductive: when `addPreviewFrame` puts `copy` in the
queue, `copy` must not be NULL, which `Lifecycle` says. `StoppedIsQuiescent` is
not inductive either: that the queue is empty when `stopPreview` returns depends
on who may exist in each phase of it (the preview thread only before it is
joined, the stream only while the preview thread streams, the callback only
while there is a stream), and `Lifecycle` is the conjunction of these facts.
`FramePoolProofs` has one lemma per operation of the pool (`GetKeeps`,
`RecycleKeeps`, `TakeKeeps`, ...), so that the proof that a step keeps the
ownership is one citation per action. They reason about `Unshared`, the same
statement slot by slot. The step of the type invariant is proved one group of
variables at a time, after lemmas on what each thread leaves alone. The bounds
need the cardinality of a union, from `FiniteSetTheorems`.

No frame is lost by a step that fills an empty slot, empties one into the pool
or moves a frame (`GetLoses`, `RecycleLoses`, `MoveLoses`, ...), so what is to
be known is that a slot is empty when it is filled: `Vacant` says at which
points each thread's slots are. `NextLoses` then leaves one step that loses a
frame, `addCaptureFrame` of a YUYV frame once the session is over. For the bound
`LeakInv` counts the session going on as long as it may still lose its frame
(`MayLeak`): that step ends it, and only a new session begins it again, because
`Lifecycle` lets nobody start while the preview thread is there. The references
to the callback are counted one by one: `Referenced` has one for the callback in
force and one for each caller that brings a new one, and between the delete and
the assignment, which `capture_mutex` lets one caller at a time reach
(`Exclusive`), none for the callback in force.

`SleepsWithoutFrame` is inductive beside `IInv`: a thread puts itself to sleep
only after it has looked, and whoever fills the queue or `captureQueu` wakes
everyone (`Offer` broadcasts) or the one thread there is (`UvcAdd` signals, and
only the preview thread sleeps on `preview_sync`). That a thread sleeps for good
when nobody brings a frame is the violation above, and no contradiction.

### The libuvc stream

For any numbers of transfers, frames and streams, `UvcStreamProofs` proves:

* `FramesAreWhole`: `Spec => []WholeFrames`
* `ImplementsMailbox`: `Spec => IsMailbox`
* `FramesAreGivenOnce`: `Spec => EachFrameOnce`, if `NothingFlagged`
* `OneTransferEscapes`: `Spec => []OneEscapesTheCancel`
* `ClosedStreamIsUnused`: `Spec => []CloseEndsAll`, if `Reliable`
* `NoWakeupIsLost`: `Spec => []SleepersAreWoken`, if `Reliable`

The first two, and the fourth, hold under every failure of the model. The
invariant `FInv` of the first two ties
the data in the working buffer to the camera (`Accounted`): it belongs to the
frame that has begun, or to the last one that ended, and has the frame ID seen
last. Hence data of another frame has another ID (`SameFrame`) and is published
before anything is added to it (`HeaderKeeps`); and what is presented is never
newer than what is being worked on (`Presented`), so that publishing moves the
mailbox forward (`PublishImplements`).

`EachFrameOnce` needs more than the mailbox, whose box may be filled with the
frame it held before. `NothingFlagged` says that the endpoint is isochronous and
packets arrive undamaged; transfers may fail, be refused, and the camera may be
unplugged. Without it TLC finds a frame given twice: `_uvc_user_caller` tests
`hold_bfh_err` a second time, outside the mutex (`stream.c:1657`), and a flagged
frame was not copied. `OnceInv` says that whatever was published is `Past`: the
camera is beyond that frame and neither the working buffer nor the packet in hand
belongs to it, so that what is published next is newer. `Fresh` follows the user
thread: what it has not copied (`last_seq # hold_seq`) is newer than what it has
given to the user, and than what it is about to give. The numbers need not grow
for that, which is why a stream that is opened again, and counts from 0, gives no
frame a second time.

For the end of a stream, `Reliable` says that libusb refuses no transfer and the
camera is not unplugged; with `SubmitFails = TRUE` or `Unplugs = TRUE` TLC finds
the stream freed under its users, so neither can be left out. The invariant says
who may exist in each phase of the caller (`Phases`) and that a callback in
progress has its transfer still allocated (`CallbackHasTransfer`): this is why a
stop that has seen every transfer deleted knows that the event thread has left
the stream.

A stop clears `running` and cancels what is with libusb, but the event thread may
have read `running` before. `OneEscapesTheCancel` holds without any hypothesis:
there is one event thread, it has one transfer in its hands, and when it submits
that one no other is in flight (`Escape`). So the wait of `uvc_stream_stop`
depends on one transfer that has to end by itself, at most.

`SleepersAreWoken` adds to the invariant of the end that a transfer is new only
until the start has submitted it, and that none is refused (`NoneLost`): whatever
is not deleted is then with libusb or in its callback, whose end broadcasts. With
refused transfers the caller sleeps for nobody (Observations), which is why the
theorem needs `Reliable`. The user thread is safe because `running` is cleared
before the broadcast of the stop, by a caller that has not come past it.

### The device

`UvcDeviceProofs` proves, for any bounds on connections, requests and status
events, from `NullAssumption` and `UsbEventsAssumption` only:

* `PolledFdIsOpen`: `Spec => []PolledIsOpen`
* `NoWakeupIsLost`: `Spec => []WaitersAreWoken`
* `NoSleepOnCompleted`: `Spec => []DoneIsReported`
* `ReleasedIsClean`: `Spec => []ReleaseEndsAll`

The invariant says where each thread must be for the shared state to be what it
is. `LockHeld`: the owner of `events_lock` is the thread that stands at a point
of `HoldPCs`, and `depth` is 2 only inside `do_close`. `Modifies`:
`pollfd_modify` and the byte in the pipe are up between the points where
`libusb_close` raises and lowers them. `Polling`: a thread polls only where it
holds the lock, and with a handle that exists. `Phases`: no other thread sends
requests, and no request is in flight, once the camera is being released. The
waiters' properties are inductive beside `LockHeld` and `Modifies`: the thread
in `Wait` sees `event_handler_active` or `pollfd_modify` set, hence somebody
holds the lock or the caller is in `libusb_close`, and each of them broadcasts
before it leaves. `ReleaseEndsAll` speaks of the end only; `References` counts
the device's references point by point, with one for each transfer in flight,
and `do_close` turns those of the transfers it forgets into `leaked`, of which
there is at most one because `Phases` leaves only the status transfer.

### A transfer

For any number of URBs `UsbTransferProofs` proves, from `UsbTransferAssumption`:

* `TransferTypes`: `Spec => []TypeOK`
* `UrbsOutliveTransfer`: `Spec => []UrbsOutlived`
* `CompletedHasItsData`: `Spec => []CompletedIsComplete`
* `ImplementsContract`: `Spec => IsContract`
* `ReturnsAreUnderWay`: `Spec => []ReturnUnderWay`

Each has the hypothesis `StallsAreCut`, that a bulk endpoint which may stall is
one whose URBs the kernel takes with `USBFS_CAP_BULK_CONTINUATION`. It is needed:
without it the URBs behind a stalled one are freed while the kernel has them
(Observations).

`UrbsOutlived` depends on a count: libusb frees the URBs when `num_retired`
reaches `num_urbs`, or when it sees the last URB, or one that ends the data. The
invariant is the reason that these agree.

* `Counted`: while the transfer is allocated, the URBs that are with the kernel
  or wait to be reaped (`Outstanding`) are as many as are missing in
  `num_retired`; URBs that were never submitted count as retired. That each step
  keeps this needs cardinalities, and that `ready` names each URB once
  (`ReadyUrbs`).
* `InOrder`: as long as nothing went wrong (`reap_action` is normal) URBs come
  back in their order, the next one to be reaped is number `num_retired + 1`, and
  seeing the last URB means that all are back.
* `KernelUrbs`: what the kernel has is an interval, so that what it cancels behind
  a URB that ended early (`Behind`) is all that is left, and nothing is left above
  what `discard_urbs` has reached.
* `Ends`: a stalled bulk URB has none behind it with the kernel. This is where the
  hypothesis enters.

`Data` says what has been received: until something goes wrong every retired URB
was full and `transferred` is twice `num_retired`, hence no hole is left in the
data; and a transfer that ended early is `Whole`, which is kept to the callback
by the steps that follow. `NoSurplus` says that with continuation nothing behind
the end has data. A transfer whose end the kernel refused while it was being
submitted is the other case: `reap_action` is "early" before anything was reaped,
and `Whole` cannot be seen yet. `CutInv`, which is inductive beside `IInv`, says that
the end is known already (`EndsAt`: the kernel refuses only because a URB ended
short or failed, with full ones before it), that the URBs are reaped in their
order and count up to it (`Arriving`), and that no more is counted behind it
(`Arrived`). For the refinement `Owner` says that a transfer that is
flying is busy unless it is being submitted, and is reported once because
reporting takes it off the list; `Cancelled` that a transfer ends as cancelled
only if its owner asked or it expired, and `Settled` tells these two apart. The
step of the invariant has one lemma per action; `Reap`, where nearly all
decisions are, has one per kind of transfer and one for what every kind does to
the URBs (`RetiredUrb`, `RetiredCount`, `ReapKeepsUrbs`).

`ReturnUnderWay` is what the liveness properties of the run rest on, and says
more than they do in a single state. `Counted` leaves two ways for a transfer to
be stuck: every URB retired and the transfer not reported, or URBs that the
kernel keeps for good. `Returning` excludes both: what is allocated has fewer
URBs retired than it has, and once a cancellation or a timeout is through with
discarding the kernel has none of them (`Kernel = {}`), as discarding counts down
to the first.

### Recording

`RecorderProofs` proves, for every set of recording parameters and any number of
recordings, from `RecorderAssumption`:

* `CallsAreLegal`: `Spec => []LegalCalls`
* `TracksAreAdded`: `Spec => []TrackNotLost`
* `StartedHasTracks`: `Spec => []StartedIsComplete`
* `StoppedIsQuiet`: `Spec => []IdleIsQuiet`

A track is added in one of two ways: by the encoder that learns its format when
it has the muxer already, or by `setTmpuMuxer` when the encoder has its format
already. `Settled(e)` says that the second of the two has happened, `Tracks`
that this is when the track is added, neither earlier nor twice, and that the
file starts with the last one; the calls are then legal because `AddTrack` only
comes while the file is initialized, or has failed to open (`FileFailed`). `Phases` says which encoders exist, and
which have the muxer, at each point of the camera thread.

### The camera handler

`CameraHandlerProofs` proves, from `HandlerAssumption`:

* `CamerasAreHeld`: `Spec => []OpenIsHeld`
* `WaitsForItsStop`: `Spec => []WaitedIsStopped`, if `OneCaller`

The first is for any number of callers and calls. Its invariant says that
the open cameras are exactly `mUVCCamera` and the one the camera thread has in
hand (`Owned`), and at which points it has one (`Phases`): `openNew` is only
reached with `mUVCCamera` null, as `handleClose` comes first, and this is why
`handleOpen` never drops an open camera.

The second is for one caller, as with two the notification meant for one lets
the other go (Observations). `WaitInv` says of a caller that waits that its
message is the last of the queue and the only one of its kind (`StopQueued`), or
is being handled with nothing behind it (`StopTaken`), and that `mIsPreviewing` is
still set, so that `handleStopPreview` does not return before it notifies. There
are two more `notifyAll`: that of `CameraThread.run` when it begins comes before a
caller has a handler at all (`Starting`), that when it ends after the caller has
released the handler and is gone (`Running`). That `removeMessages` leaves no
message that was not there (`WithoutLeaves`) needs that the ranks of the messages
it keeps are the numbers from 1 to their count (`FS_Injection`).

### The USB monitor

`UsbMonitorProofs` proves, for any devices and any number of blocks, requests
and registrations, from `MonitorAssumption`:

* `TypeCorrect`: `Spec => []TypeOK`
* `OpenBlocksAreKnown`: `Spec => []OpenIsKnown`
* `AnswersAreNotLost`: `Spec => AnswerNotLost`

That a new block is entered when there is none (`References`: from the `get` to
the `put` the device has no entry) rests on there being one thread that enters.
The other threads only strike entries out. For a block they strike out there
are three cases: the main thread has it in hand and closes it (`Known`); it
strikes out the entry of a device that is gone, and nobody opens a block for it
again, because a device that was detached is never attached as the same device
(`Messages`, `Closing`); or a clone was closed, which is the exception the
property makes.

`AnswerNotLost` is the part of `RequestIsAnswered` that needs no fairness. An
answer is `UnderWay` in one of four places: the dialog, a broadcast, a runnable,
the listener's call. Each step of the threads hands it on. What could drop it is
`post` to a handler whose looper has quit; `Ended` says that the main thread
handles a request or a broadcast only while the monitor is not destroyed, and
that the looper runs until then.

### Only model-checked

Every safety property of the runs, and every refinement, is proved. What is
temporal under fairness is not (liveness and ENABLED are outside what the prover
handles): `QueuedFrameIsTaken`, `ReplaceReturns`, `CloseReturns`,
`PublishedIsTaken`, `UnpluggedEndsUser`, `ControlReturns`, `ReleaseReturns`,
`StatusIsHandled`, `ComesBack`, `StopReturns`, `ReleaseEnds`, `RecordingEnds` and
`RequestIsAnswered`.

## Plan

What is left, in this order:

1. The destructor of UVCPreview with `release`, and counts of the references to
   windows.
2. A theorem that the two ends of `TransferContract` meet: what `UvcStream` lets
   libusb do with a transfer is what the contract allows.

## Not modelled

The models cover the program's own control. Most of the repository's C is
vendored: libjpeg-turbo, rapidjson, and of libusb the enumeration, descriptors,
hotplug and the back ends of other systems are third-party code without a part
in what is stated here, and three of every four lines of the implementation are
theirs. That is also why the share of lines the models cover stays small.

Of its own code, not modelled: pixel conversions (`frame.c`, `frame-mjpeg.c`: pure
functions of contents no property tells apart), `ctrl.c` and `diag.c` (one
control transfer, as in `UvcDevice`, or one printout each, no state), `Parameters.cpp`
(formatting), copyFrame's rows, the negotiation of formats beyond its failure,
the feeding of the encoders and `MediaEncoder` with `MediaMuxerWrapper` (only
commented-out code creates them), the monitor's `openDevice` (nothing calls it),
widgets and the sample application (drawing and user interface), the pipeline
classes (not built), and vendored libraries.
