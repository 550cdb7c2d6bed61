--------------------------- MODULE OpenXrPresent ---------------------------
(***************************************************************************)
(* Headset presentation: the XR pacing thread (runtime/src/vr/              *)
(* openxr_integration.cpp), its D3D12 backend (openxr_d3d12.cpp), Aurora's  *)
(* stereo bridge (aurora-main/lib/webgpu/d3d12_interop.cpp) and the frame   *)
(* worker that claims stereo packets and encodes them (aurora.cpp), under   *)
(* the producer that runs the guest and owns the teardown.                  *)
(*                                                                         *)
(* The three threads meet at four locks: published_mutex_ (the packet       *)
(* offered to Aurora), submission_mutex_ (the result of the GPU job), the   *)
(* bridge's m_mutex and stop_mutex_ (explicit, for the wait on stop_cv_).   *)
(* A step is what one thread does under one of them.                        *)
(*                                                                         *)
(* Both eyes' swapchain images are acquired and released together: one      *)
(* image stands for the pair.  Poses, layers and timing statistics are left *)
(* out.  A token is a frame serial: 64-bit in the code and never reused, so  *)
(* a submission takes one that nothing refers to any more.                  *)
(***************************************************************************)
EXTENDS FrameWorker

CONSTANTS
    Tokens,     \* serials of submitted XR frames
    Immersive,  \* the content tags whose mode bits ask for immersive replay
    None        \* no token, packet, image or lock owner

ASSUME ImmersiveAssumption == Immersive \subseteq Tags /\ Tags # {}
ASSUME TokensAssumption == \A t \in Tokens \cup {None} : \E u \in Tokens : u # t

VARIABLES
    xr,         \* vrAsyncPresentation; the session, its run serial seen or new
    offer,      \* the provider's registration, and published_
    bridge,     \* StereoBridge, and the sink registered for it
    sub,        \* the backend's submission state
    image,      \* the swapchain image: acquired, drawn, last released
    delivery,   \* FrameDelivery with cached_frame_valid_
    pace,       \* the pacing thread
    stereo,     \* the frame worker's progress inside seal and encode
    control     \* stop_, teardown_requested_, stop_mutex_; Shutdown()'s place

xrVars == <<xr, offer, bridge, sub, image, delivery, pace, stereo, control>>
vars == <<fwVars, xrVars>>

Packets == [token : Tokens, tag : Tags]
\* `current' when of the session run now under way.
Jobs == [token : Tokens, tag : Tags, current : BOOLEAN]
CachedImages == [tag : Tags, current : BOOLEAN]
\* What an image shows: the packet it was drawn for, and whether the guest
\* frame it was drawn from fits that packet.
Pictures == [token : Tokens, fits : BOOLEAN]

ASSUME NoneAssumption == None \notin Tokens \cup Packets \cup Jobs \cup CachedImages \cup Pictures

PacePlaces == {"poll", "service", "begin", "harvest", "submit", "publish",
               "finish", "wait", "cancel", "recheck", "leave",
               "ask", "check", "dozing", "asleep", "unhook", "drain", "ended",
               "joined"}
StereoPlaces == {"off", "look", "claim", "sealed", "sink", "submit", "encoded"}
DownPlaces == {"none", "quiesce", "idle", "stop", "notify", "join"}

XrStates == [async : BOOLEAN, running : BOOLEAN, seen : BOOLEAN]
Offers == [provider : BOOLEAN, packet : Packets \cup {None}]
Bridges == [at : {"live", "gone", "leaked"}, sink : BOOLEAN, token : Tokens \cup {None},
            encoded : BOOLEAN, unfenced : BOOLEAN]
Submissions == [awaiting : Tokens \cup {None}, arrived : BOOLEAN, success : BOOLEAN]
Images == [held : BOOLEAN, forbidden : BOOLEAN, drawn : Pictures \cup {None},
           latestOwn : BOOLEAN]
Deliveries == [pending : Jobs \cup {None}, cached : CachedImages \cup {None}]
Paces == [at : PacePlaces, tag : Tags, back : {"begin", "submit", "finish"}]
Stereos == [at : StereoPlaces, token : Tokens \cup {None}, fits : BOOLEAN]
Controls == [stop : BOOLEAN, teardown : BOOLEAN, locked : BOOLEAN, down : DownPlaces]

TypeOK ==
    /\ FWTypeOK
    /\ xr \in XrStates /\ offer \in Offers /\ bridge \in Bridges /\ sub \in Submissions
    /\ image \in Images /\ delivery \in Deliveries /\ pace \in Paces
    /\ stereo \in Stereos /\ control \in Controls

NoTag == CHOOSE t \in Tags : TRUE      \* of a pacing loop without a snapshot
Idle == [awaiting |-> None, arrived |-> FALSE, success |-> FALSE]
NoImages == [pending |-> None, cached |-> None]

\* OpenXRIntegration::Start has bound the backend, enabled the bridge,
\* registered the provider and started the pacing thread.
Init ==
    /\ FWInit
    /\ \E async \in BOOLEAN :
          xr = [async |-> async, running |-> FALSE, seen |-> TRUE]
    /\ offer = [provider |-> TRUE, packet |-> None]
    /\ bridge = [at |-> "live", sink |-> TRUE, token |-> None,
                 encoded |-> FALSE, unfenced |-> FALSE]
    /\ sub = Idle
    /\ image = [held |-> FALSE, forbidden |-> FALSE, drawn |-> None,
                latestOwn |-> FALSE]
    /\ delivery = NoImages
    /\ pace = [at |-> "poll", tag |-> NoTag, back |-> "begin"]
    /\ stereo = [at |-> "off", token |-> None, fits |-> FALSE]
    /\ control = [stop |-> FALSE, teardown |-> FALSE, locked |-> FALSE,
                  down |-> "none"]

----------------------------------------------------------------------------
\* The frame worker, inside FrameWorker's seal and encode.

\* Mutant: a failure is not reported.
PublishSuccess(token, success) ==
    sub' = IF token = sub.awaiting /\ success
           THEN [sub EXCEPT !.arrived = TRUE, !.success = TRUE] ELSE sub

Publish(token, success) ==          \* OnAuroraSubmitted
    sub' = IF token = sub.awaiting
           THEN [sub EXCEPT !.arrived = TRUE, !.success = success] ELSE sub

Cleared == [bridge EXCEPT !.token = None, !.encoded = FALSE]

WorkerTakesJob ==
    /\ TakeJob
    /\ stereo' = [stereo EXCEPT !.at = "look"]
    /\ UNCHANGED <<xr, offer, bridge, sub, image, delivery, pace, control>>

\* request_stereo_frame copies the registration under its mutex ...
LookUpProvider ==
    /\ wpc = "seal" /\ stereo.at = "look"
    /\ stereo' = [stereo EXCEPT !.at = IF offer.provider THEN "claim" ELSE "sealed"]
    /\ UNCHANGED <<fwVars, xr, offer, bridge, sub, image, delivery, pace, control>>

\* Immersive replay needs the very content the packet was made for; a mono
\* copy on the virtual screen fits any.
Fits(packet, tag) == packet.tag \in Immersive => packet.tag = tag
Accepted(packet, tag) == packet # None /\ Fits(packet, tag)

\* ... and calls ProvideStereoFrame, which hands the packet out once.
ClaimPacket ==
    /\ wpc = "seal" /\ stereo.at = "claim"
    /\ offer' = [offer EXCEPT !.packet = None]
    /\ stereo' = IF Accepted(offer.packet, job.tag)
                 THEN [at |-> "sealed", token |-> offer.packet.token,
                       fits |-> Fits(offer.packet, job.tag)]
                 ELSE [stereo EXCEPT !.at = "sealed"]
    /\ UNCHANGED <<fwVars, xr, bridge, sub, image, delivery, pace, control>>

WorkerSeals ==
    /\ stereo.at = "sealed"
    /\ \E overlap \in BOOLEAN : SealFrame(overlap)
    /\ UNCHANGED xrVars

StereoOver == [at |-> "encoded", token |-> None, fits |-> FALSE]

\* run_stereo_sink copies the sink's registration; a frame without a packet,
\* or without a sink, is submitted as it is.
LookUpSink ==
    /\ wpc \in {"encode", "overlap"} /\ stereo.at = "sealed"
    /\ stereo' = IF stereo.token # None /\ bridge.sink
                 THEN [stereo EXCEPT !.at = "sink"] ELSE StereoOver
    /\ UNCHANGED <<fwVars, xr, offer, bridge, sub, image, delivery, pace, control>>

\* StereoBridge::Encode.  A packet the bridge holds no target for, one that
\* was cancelled after the worker claimed it, is refused.
Encode ==
    /\ stereo.at = "sink"
    /\ \/ /\ bridge.token = stereo.token /\ ~bridge.encoded
          /\ bridge' = [bridge EXCEPT !.encoded = TRUE]
          /\ stereo' = [stereo EXCEPT !.at = "submit"]
          /\ UNCHANGED sub
       \/ /\ bridge.token = stereo.token /\ ~bridge.encoded
          /\ Publish(bridge.token, FALSE)
          /\ bridge' = Cleared
          /\ stereo' = StereoOver
       \/ /\ bridge.token # stereo.token \/ bridge.encoded
          /\ stereo' = StereoOver
          /\ UNCHANGED <<bridge, sub>>
    /\ UNCHANGED <<fwVars, xr, offer, image, delivery, pace, control>>

\* submitEncodedSlot, then StereoBridge::Submitted (EndAccessLocked and
\* EnqueueNativeCopyLocked): the copy is queued and fenced; or it never
\* reached the queue; or it did, and its fence was not signalled.
Submitted ==
    /\ stereo.at = "submit"
    /\ \/ /\ bridge.encoded /\ bridge.token = stereo.token
          /\ \E queued, fenced \in BOOLEAN :
                /\ fenced => queued
                /\ bridge' = [Cleared EXCEPT !.unfenced = @ \/ (queued /\ ~fenced)]
                /\ Publish(bridge.token, fenced)
                /\ image' = IF queued
                            THEN [image EXCEPT !.drawn = [token |-> stereo.token,
                                                          fits |-> stereo.fits]]
                            ELSE image
       \/ /\ ~bridge.encoded \/ bridge.token # stereo.token
          /\ UNCHANGED <<bridge, sub, image>>
    /\ stereo' = StereoOver
    /\ UNCHANGED <<fwVars, xr, offer, delivery, pace, control>>

WorkerEncoded ==
    /\ stereo.at = "encoded"
    /\ EncodedInline \/ EncodedOverlapped
    /\ stereo' = [stereo EXCEPT !.at = "off"]
    /\ UNCHANGED <<xr, offer, bridge, sub, image, delivery, pace, control>>

WorkerHandshake ==
    /\ TakePermit \/ (\E ok \in BOOLEAN : PrepareNext(ok)) \/ WorkerExits
    /\ UNCHANGED xrVars

FrameWorkerStep ==
    \/ WorkerTakesJob \/ LookUpProvider \/ ClaimPacket \/ WorkerSeals
    \/ LookUpSink \/ Encode \/ Submitted \/ WorkerEncoded \/ WorkerHandshake

----------------------------------------------------------------------------
\* The pacing thread.

Goto(place) == pace' = [pace EXCEPT !.at = place]

\* The next iteration: the loop's locals do not outlive one.
Again == pace' = [at |-> "poll", tag |-> NoTag, back |-> "begin"]

\* A fatal error, or stop_, ends the loop and its FrameDelivery.
Breaks ==
    /\ pace' = [at |-> "leave", tag |-> NoTag, back |-> "begin"]
    /\ delivery' = NoImages

Unused(t) == t # stereo.token

\* Serials of session runs are only compared with the current one for
\* equality, so an image says whether it has it.
Outdated(j) == IF j = None THEN None ELSE [j EXCEPT !.current = FALSE]

\* The head of either loop: stop_, then PollEvents, which may run or stop the
\* session, lose it, or be asked to exit.
PollEvents ==
    /\ pace.at = "poll"
    /\ \/ control.stop /\ Breaks /\ UNCHANGED xr
       \/ ~control.stop /\ Breaks /\ xr' = [xr EXCEPT !.running = FALSE]
       \/ /\ ~control.stop
          /\ \/ UNCHANGED <<xr, delivery>>
             \/ /\ xr.running
                /\ xr' = [xr EXCEPT !.running = FALSE]
                /\ UNCHANGED delivery
             \/ /\ ~xr.running
                /\ xr' = [xr EXCEPT !.running = TRUE, !.seen = FALSE]
                /\ delivery' = [pending |-> Outdated(delivery.pending),
                                cached |-> Outdated(delivery.cached)]
          /\ Goto(IF xr.async THEN "service" ELSE "begin")
    /\ UNCHANGED <<fwVars, offer, bridge, sub, image, stereo, control>>

\* ReleaseAcquiredSwapchains: a forbidden image stays acquired.  The latest
\* released image may now be another than the one cached_frame_ describes.
Released ==
    IF image.held /\ ~image.forbidden
    THEN [image EXCEPT !.held = FALSE, !.drawn = None,
                       !.latestOwn = image.drawn =
                          [token |-> delivery.pending.token, fits |-> TRUE]]
    ELSE image

\* CommitSubmission and FrameDelivery::Complete; the release may fail.
Commits(next) ==
    \/ /\ image' = Released
       /\ delivery' = [pending |-> None,
                       cached |-> [tag |-> delivery.pending.tag,
                                   current |-> delivery.pending.current]]
       /\ sub' = Idle
       /\ Goto(next)
    \/ Breaks /\ UNCHANGED <<image, sub>>

Withdrawn == [offer EXCEPT !.packet = None]

\* service_pending, at the head of the loop and again after xrWaitFrame; then
\* its last case, a job whose 250 ms are over.
ServicePending(place, next) ==
    /\ pace.at = place
    /\ \/ /\ delivery.pending # None => ~sub.arrived
          /\ Goto(next)
          /\ UNCHANGED <<offer, sub, image, delivery>>
       \/ /\ delivery.pending # None /\ sub.arrived /\ sub.success
          /\ offer' = Withdrawn
          /\ Commits(next)
       \/ /\ delivery.pending # None /\ sub.arrived /\ ~sub.success
          /\ Breaks
          /\ UNCHANGED <<offer, sub, image>>
    /\ UNCHANGED <<fwVars, xr, bridge, stereo, control>>

\* Mutant: only a packet nobody claimed can be late.
DeadlineUnclaimed(place, next) ==
    /\ pace.at = place /\ offer.packet # None
    /\ delivery.pending # None /\ ~sub.arrived
    /\ offer' = Withdrawn
    /\ pace' = [pace EXCEPT !.at = "cancel", !.back = next]
    /\ UNCHANGED <<fwVars, xr, bridge, sub, image, delivery, stereo, control>>

DeadlinePassed(place, next) ==
    /\ pace.at = place
    /\ delivery.pending # None /\ ~sub.arrived
    /\ offer' = Withdrawn
    /\ pace' = [pace EXCEPT !.at = "cancel", !.back = next]
    /\ UNCHANGED <<fwVars, xr, bridge, sub, image, delivery, stereo, control>>

\* CancelBeforeEncode finds the job untouched ...
Cancellable == bridge.token = sub.awaiting /\ bridge.token # None /\ ~bridge.encoded
\* ... or gives up on a lock the worker holds inside Encode or Submitted.
BridgeBusy == stereo.at \in {"sink", "submit"}

\* TryCancelPendingFrame; then DiscardCanceledSubmission (or FinishFrame
\* without a layer) releases the unwritten image, after which the cached one
\* is no longer the swapchain's latest.
TryCancelPendingFrame ==
    /\ pace.at = "cancel"
    /\ \/ /\ Cancellable
          /\ bridge' = Cleared
          /\ sub' = Idle
          /\ \/ /\ image' = Released
                /\ delivery' = NoImages
                /\ IF pace.back = "finish" THEN Again ELSE Goto(pace.back)
             \/ UNCHANGED image /\ Breaks
       \/ /\ ~Cancellable \/ BridgeBusy
          /\ Goto("recheck")
          /\ UNCHANGED <<bridge, sub, delivery, image>>
    /\ UNCHANGED <<fwVars, xr, offer, stereo, control>>

\* Mutant: a refused cancellation is treated like a granted one.
ReleasesAnyway ==
    /\ pace.at = "recheck"
    /\ image' = Released /\ sub' = Idle /\ delivery' = NoImages
    /\ Again
    /\ UNCHANGED <<fwVars, xr, offer, bridge, stereo, control>>

\* A completion may have raced the cancellation; an image the GPU still owns
\* cannot be released here.
RecheckSubmission ==
    /\ pace.at = "recheck"
    /\ \/ /\ ~sub.arrived \/ (xr.async /\ ~sub.success)
          /\ Breaks
          /\ UNCHANGED <<sub, image>>
       \/ /\ xr.async /\ sub.arrived /\ sub.success
          /\ Commits(pace.back)
       \/ /\ ~xr.async /\ sub.arrived
          /\ Goto("finish")
          /\ UNCHANGED <<sub, image, delivery>>
    /\ UNCHANGED <<fwVars, xr, offer, bridge, stereo, control>>

\* Session bookkeeping, the policy snapshot, and BeginDisplayFrame (or
\* BeginFrame), which blocks in xrWaitFrame and may fail or find the session
\* not running.
BeginDisplayFrame ==
    /\ pace.at = "begin"
    /\ xr' = [xr EXCEPT !.seen = TRUE]
    /\ \/ xr.running /\ Breaks /\ UNCHANGED image
       \/ /\ IF xr.seen /\ xr.running THEN UNCHANGED <<delivery, image>>
             ELSE /\ delivery' = [delivery EXCEPT !.cached = None]
                  /\ image' = [image EXCEPT !.latestOwn = FALSE]
          /\ \/ Again
             \/ xr.running /\ xr.async /\ Goto("harvest")
             \/ /\ xr.running /\ ~xr.async
                /\ \E tag \in Tags : pace' = [pace EXCEPT !.at = "submit", !.tag = tag]
    /\ UNCHANGED <<fwVars, offer, bridge, sub, stereo, control>>

\* BeginSubmission: acquire the image, expect its token, give the bridge its
\* target (SetTargets).  A failure gives back what was acquired.
BeginSubmission(tag) ==
    \/ /\ bridge.token = None /\ ~bridge.encoded
       /\ LET t == CHOOSE t \in Tokens : Unused(t) IN
          /\ bridge' = [bridge EXCEPT !.token = t]
          /\ sub' = [Idle EXCEPT !.awaiting = t]
          /\ delivery' = [delivery EXCEPT !.pending =
                            [token |-> t, tag |-> tag, current |-> TRUE]]
       /\ image' = [image EXCEPT !.held = TRUE, !.forbidden = FALSE]
       /\ pace' = [pace EXCEPT !.tag = tag, !.at = "publish"]
    \/ Breaks /\ UNCHANGED <<bridge, sub, image>>

\* A frame the runtime does not want rendered is finished without a layer.
SubmitOrRepeat ==
    /\ pace.at = "submit"
    /\ \E tag \in IF xr.async THEN Tags ELSE {pace.tag} :
       \/ Again /\ UNCHANGED <<bridge, sub, delivery, image>>
       \/ delivery.pending = None /\ BeginSubmission(tag)
       \/ /\ delivery.pending # None
          /\ pace' = [pace EXCEPT !.tag = tag, !.at = "finish"]
          /\ UNCHANGED <<bridge, sub, delivery, image>>
    /\ UNCHANGED <<fwVars, xr, offer, stereo, control>>

PublishFrame ==
    /\ pace.at = "publish"
    /\ offer' = [offer EXCEPT !.packet = [token |-> delivery.pending.token,
                                          tag |-> pace.tag]]
    /\ Goto(IF xr.async THEN "finish" ELSE "wait")
    /\ UNCHANGED <<fwVars, xr, bridge, sub, image, delivery, stereo, control>>

\* Mutant: the session run is not compared.
DisplaysAnyRun == delivery.cached # None /\ delivery.cached.tag = pace.tag

\* FrameDelivery::CanDisplay and the backend's own flag.
CanDisplay ==
    /\ delivery.cached # None
    /\ delivery.cached.tag = pace.tag /\ delivery.cached.current

\* FinishDisplayFrame ends the XR frame with the cached image, or none.
FinishDisplayFrame ==
    /\ pace.at = "finish" /\ xr.async
    /\ (Again /\ UNCHANGED delivery) \/ Breaks
    /\ UNCHANGED <<fwVars, xr, offer, bridge, sub, image, stereo, control>>

\* WaitForPublishedSubmission, between its 50 ms polls.
AwaitSubmission ==
    /\ pace.at = "wait" /\ (control.stop \/ sub.arrived)
    /\ offer' = Withdrawn
    /\ IF control.stop THEN Breaks ELSE Goto("finish") /\ UNCHANGED delivery
    /\ UNCHANGED <<fwVars, xr, bridge, sub, image, stereo, control>>

\* AbandonAcquiredSwapchains, after GPU work may have been queued in vain.
Abandoned == [image EXCEPT !.forbidden = image.held]

\* FinishFrame: abandon an unsafe image or release a good one, end the frame
\* and forget the submission.  A failed copy is fatal.
FinishFrame ==
    /\ pace.at = "finish" /\ ~xr.async
    /\ \/ control.stop /\ Breaks /\ UNCHANGED <<sub, image>>
       \/ /\ ~control.stop
          /\ \/ ~sub.success /\ image' = Abandoned /\ Breaks
             \/ sub.success /\ image' = Released /\ Again /\ delivery' = NoImages
             \/ sub.success /\ image' \in {image, Released} /\ Breaks
          /\ sub' = Idle
    /\ UNCHANGED <<fwVars, xr, offer, bridge, stereo, control>>

\* Both loops end alike.  The packet is withdrawn; a thread that was not told
\* to stop asks the producer for the teardown, and waits for it.
LeaveLoop ==
    /\ pace.at = "leave"
    /\ offer' = Withdrawn
    /\ Goto("ask")
    /\ UNCHANGED <<fwVars, xr, bridge, sub, image, delivery, stereo, control>>

\* Mutant: waits without having asked.
AsksNobody ==
    /\ pace.at = "ask"
    /\ Goto("check")
    /\ UNCHANGED <<fwVars, xr, offer, bridge, sub, image, delivery, stereo, control>>

AskForTeardown ==
    /\ pace.at = "ask"
    /\ IF control.stop
       THEN Goto("unhook") /\ UNCHANGED control
       ELSE Goto("check") /\ control' = [control EXCEPT !.teardown = TRUE]
    /\ UNCHANGED <<fwVars, xr, offer, bridge, sub, image, delivery, stereo>>

\* stop_cv_.wait: the predicate is read with stop_mutex_ held, and the mutex
\* given up on going to sleep.
CheckStop ==
    /\ pace.at = "check" /\ ~control.locked
    /\ IF control.stop
       THEN Goto("unhook") /\ UNCHANGED control
       ELSE Goto("dozing") /\ control' = [control EXCEPT !.locked = TRUE]
    /\ UNCHANGED <<fwVars, xr, offer, bridge, sub, image, delivery, stereo>>

FallAsleep ==
    /\ pace.at = "dozing"
    /\ control' = [control EXCEPT !.locked = FALSE]
    /\ Goto("asleep")
    /\ UNCHANGED <<fwVars, xr, offer, bridge, sub, image, delivery, stereo>>

\* OpenXRD3D12Backend::Shutdown, and aurora_d3d12_disable_stereo_bridge: the
\* sink goes first ...
UnhookSink ==
    /\ pace.at = "unhook"
    /\ bridge' = [bridge EXCEPT !.sink = FALSE]
    /\ Goto("drain")
    /\ UNCHANGED <<fwVars, xr, offer, sub, image, delivery, stereo, control>>

\* ... then CancelPending, and a queue-tail fence.  A drained bridge is
\* destroyed with its images released; otherwise everything is retained.
DrainBridge ==
    /\ pace.at = "drain"
    /\ IF bridge.token # None THEN Publish(bridge.token, FALSE) ELSE UNCHANGED sub
    /\ \/ /\ bridge' = [Cleared EXCEPT !.at = "gone", !.unfenced = FALSE]
          /\ image' = [image EXCEPT !.held = FALSE, !.forbidden = FALSE,
                                    !.drawn = None, !.latestOwn = FALSE]
       \/ /\ bridge' = [Cleared EXCEPT !.at = "leaked"]
          /\ image' = Abandoned
    /\ Goto("ended")
    /\ UNCHANGED <<fwVars, xr, offer, delivery, stereo, control>>

DeadlinePasses ==
    \/ DeadlinePassed("service", "begin") \/ DeadlinePassed("harvest", "submit")
    \/ ~control.stop /\ DeadlinePassed("wait", "finish")

PacingStep ==
    \/ PollEvents \/ DeadlinePasses
    \/ ServicePending("service", "begin") \/ ServicePending("harvest", "submit")
    \/ TryCancelPendingFrame \/ RecheckSubmission
    \/ BeginDisplayFrame \/ SubmitOrRepeat \/ PublishFrame
    \/ FinishDisplayFrame \/ AwaitSubmission \/ FinishFrame
    \/ LeaveLoop \/ AskForTeardown \/ CheckStop \/ FallAsleep
    \/ UnhookSink \/ DrainBridge

----------------------------------------------------------------------------
\* The producer: Aurora's frames, and OpenXRIntegration::Shutdown, which it
\* enters at a frame boundary on request, or on leaving the main loop.

\* To the packet an untagged frame is one of foreign content.
Frames ==
    /\ control.down = "none"
    /\ \/ EndFrameCalled
       \/ \E tag \in Tags : EndFrame(tag)
       \/ \E changing \in BOOLEAN : BeginFrameEarly(changing)
       \/ BeginFrameJoined
       \/ \E ok \in BOOLEAN : BeginFrameLate(ok)
    /\ UNCHANGED xrVars

StopAurora ==
    /\ control.down = "none" /\ pace.at = "joined"
    /\ StopFrameWorker \/ JoinFrameWorker
    /\ UNCHANGED xrVars

ShutdownGoes(place) == control' = [control EXCEPT !.down = place]

ExitRequested ==
    /\ control.down = "none"
    /\ LeaveMainLoop
    /\ UNCHANGED xrVars

\* Shutdown() and the test in aurora_quiesce_frame_worker, which returns at
\* once when no cycle is under way.  A pacing thread already joined leaves
\* nothing to do.
ShutdownBegins ==
    /\ control.down = "none"
    /\ \/ ppc \in {"recording", "ended"} /\ control.teardown
       \/ ppc = "exiting" /\ pace.at # "joined"
    /\ \/ pace.at = "joined" /\ UNCHANGED fwVars
          /\ control' = [control EXCEPT !.teardown = FALSE]
       \/ pace.at # "joined" /\ fw.ready /\ UNCHANGED fwVars
          /\ control' = [control EXCEPT !.teardown = FALSE, !.down = "idle"]
       \/ pace.at # "joined" /\ Quiesce
          /\ control' = [control EXCEPT !.teardown = FALSE, !.down = "quiesce"]
    /\ UNCHANGED <<xr, offer, bridge, sub, image, delivery, pace, stereo>>

FrameWorkerQuiet ==
    /\ control.down = "quiesce"
    /\ QuiesceReturns
    /\ ShutdownGoes("idle")
    /\ UNCHANGED <<xr, offer, bridge, sub, image, delivery, pace, stereo>>

\* Mutant: does not wait for the frame worker.
UnregistersAtOnce ==
    /\ control.down \in {"quiesce", "idle"}
    /\ offer' = [provider |-> FALSE, packet |-> None]
    /\ ShutdownGoes("stop")
    /\ UNCHANGED <<fwVars, xr, bridge, sub, image, delivery, pace, stereo>>

UnregisterProvider ==
    /\ control.down = "idle"
    /\ offer' = [provider |-> FALSE, packet |-> None]
    /\ ShutdownGoes("stop")
    /\ UNCHANGED <<fwVars, xr, bridge, sub, image, delivery, pace, stereo>>

\* Mutant: stop_ is stored without stop_mutex_.
RaiseStopUnlocked ==
    /\ control.down = "stop"
    /\ control' = [control EXCEPT !.stop = TRUE, !.down = "notify"]
    /\ UNCHANGED <<fwVars, xr, offer, bridge, sub, image, delivery, pace, stereo>>

RaiseStop ==
    /\ control.down = "stop" /\ ~control.locked
    /\ control' = [control EXCEPT !.stop = TRUE, !.down = "notify"]
    /\ UNCHANGED <<fwVars, xr, offer, bridge, sub, image, delivery, pace, stereo>>

NotifyStop ==
    /\ control.down = "notify"
    /\ IF pace.at = "asleep" THEN Goto("check") ELSE UNCHANGED pace
    /\ ShutdownGoes("join")
    /\ UNCHANGED <<fwVars, xr, offer, bridge, sub, image, delivery, stereo>>

JoinPacingThread ==
    /\ control.down = "join" /\ pace.at = "ended"
    /\ Goto("joined")
    /\ ShutdownGoes("none")
    /\ UNCHANGED <<fwVars, xr, offer, bridge, sub, image, delivery, stereo>>

ShutdownStep ==
    \/ ShutdownBegins \/ FrameWorkerQuiet \/ UnregisterProvider
    \/ RaiseStop \/ NotifyStop \/ JoinPacingThread

----------------------------------------------------------------------------
Terminated == ppc = "stopped" /\ UNCHANGED vars

Next ==
    \/ FrameWorkerStep \/ PacingStep \/ Frames \/ ExitRequested \/ StopAurora
    \/ ShutdownStep \/ Terminated

\* Every thread keeps running; time passes; the producer reaches a frame
\* boundary at every retrace (vi.cpp AdvanceRetrace).
Fairness ==
    /\ WF_vars(FrameWorkerStep)
    /\ WF_vars(PacingStep)
    /\ SF_vars(DeadlinePasses)
    /\ SF_vars(ShutdownStep)
    /\ WF_vars(StopAurora)
    /\ WF_vars(Frames)

Spec == Init /\ [][Next]_vars /\ Fairness

----------------------------------------------------------------------------
\* As long as the bridge can still write an image, or queued a copy no fence
\* answers for, the image stays acquired: neither a timed-out, a cancelled,
\* nor a failed submission releases it (openxr_d3d12.cpp
\* ReleaseAcquiredSwapchains, d3d12_interop.cpp CancelBeforeEncode).
ImageHeldWhileWritable ==
    bridge.token # None \/ bridge.unfenced => image.held

\* A job the pacing thread waits for is never orphaned: either its result has
\* arrived, or the bridge holds it, so that it will be answered or can be
\* cancelled (d3d12_interop.cpp PublishAndClearFrameLocked).
NoOrphanedJob ==
    sub.awaiting # None /\ ~sub.arrived => bridge.token = sub.awaiting

\* A layer shows the image its poses belong to, drawn in this session run and
\* from guest content of the very scene the policy now asks for; a stale
\* session, a cancelled image or a scene change is never composited
\* (frame_delivery.h CanDisplay, aurora.cpp request_stereo_frame).
ShowsOwnImage ==
    pace.at = "finish" =>
       /\ xr.async /\ CanDisplay => image.latestOwn /\ delivery.cached.current
       /\ ~xr.async /\ sub.success => Released.latestOwn

\* Nothing is used after it is torn down: the frame worker is out of the
\* provider before Shutdown unregisters it, and out of the bridge and the
\* backend before the pacing thread destroys them (openxr_integration.cpp
\* Shutdown: "Registration changes are only safe while no sealed frame is in
\* flight").
NothingUsedAfterTeardown ==
    /\ ~offer.provider => stereo.at # "claim"
    /\ bridge.at # "live" =>
          stereo.at \notin {"sink", "submit"}

\* The producer is never stuck in Aurora or in Shutdown(): the worker it waits
\* for in end_frame, begin_frame and the quiesce gets its permit, and the pacing
\* thread it joins sees stop_ wherever it waits (openxr_integration.cpp
\* Shutdown: "a terminal pacing thread can observe false, miss the notify").
ProducerWaits == ppc \in {"ending", "beginning"} \/ control.down # "none"
ProducerReturns == ProducerWaits ~> ~ProducerWaits

\* A pacing thread that gave up is torn down by the producer, whatever the
\* two were doing when it failed.
FailureTornDown == pace.at = "leave" ~> pace.at = "joined"

\* A submitted job is settled - committed, cancelled or given up - even if the
\* guest never renders the frame it asks for.
JobSettled == delivery.pending # None ~> delivery.pending = None

\* None of the three threads, nor a submitted job, waits for ever.
NobodyStuck == ProducerReturns /\ FailureTornDown /\ JobSettled
============================================================================
