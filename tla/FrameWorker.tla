---------------------------- MODULE FrameWorker ----------------------------
(***************************************************************************)
(* Aurora's bounded frame submission worker (aurora-main/lib/aurora.cpp).   *)
(* One producer (the guest's host thread) records a frame, seals it with    *)
(* end_frame and begins the next one; one worker encodes, submits and       *)
(* presents what was sealed.  A cycle publishes two phases: SEALED (the     *)
(* renderer state shared with the producer is free again) and DONE (`ready' *)
(* in the code: every slot is encoded).  Between the two waits a permit: the *)
(* worker prepares the next frame only once the producer has begun it.      *)
(* The 1 ms polls of wait_for_frame_worker_private are guards here; the     *)
(* wait callback may not enter Aurora, and is left out.                     *)
(***************************************************************************)
EXTENDS Naturals

CONSTANTS
    Tags,       \* content tags of the guest's presentation policy
    UnknownTag  \* AURORA_STEREO_CONTENT_TAG_UNKNOWN, of an untagged frame

ASSUME TagsAssumption == UnknownTag \notin Tags

VARIABLES
    fw,         \* FrameWorkerState: the flags both threads share
    wpc,        \* where the worker is in its cycle
    job,        \* what the worker copied from its queue, and the cycle's mode
    ppc         \* where the producer is between begin_frame and end_frame

fwVars == <<fw, wpc, job, ppc>>

\* The worker's places.  It owns the producer-shared renderer state in the
\* first four; "overlap" is the encode phase that runs beside the producer.
SharedPlaces == {"seal", "encode", "permit", "prepare"}
WorkerPlaces == SharedPlaces \cup {"idle", "overlap", "exited"}

\* "recording" is a frame in progress, "ended" the gap before the next one.
ProducerPlaces == {"recording", "ending", "ended", "beginning", "quiescing",
                   "requiescing", "exiting", "stopping", "stopped"}

FWTypeOK ==
    /\ fw \in [jobPending : BOOLEAN, contentTag : Tags \cup {UnknownTag},
               sealed : BOOLEAN, ready : BOOLEAN, framePrepared : BOOLEAN,
               prepareAllowed : BOOLEAN, stop : BOOLEAN]
    /\ wpc \in WorkerPlaces
    /\ job \in [tag : Tags \cup {UnknownTag}, overlap : BOOLEAN]
    /\ ppc \in ProducerPlaces

NoJob == [tag |-> UnknownTag, overlap |-> FALSE]

\* ensure_frame_worker_started, after the first frame was begun on the
\* producer's own thread.
FWInit ==
    /\ fw = [jobPending |-> FALSE, contentTag |-> UnknownTag, sealed |-> TRUE,
             ready |-> TRUE, framePrepared |-> TRUE, prepareAllowed |-> FALSE,
             stop |-> FALSE]
    /\ wpc = "idle"
    /\ job = NoJob
    /\ ppc = "recording"

----------------------------------------------------------------------------
\* The worker.

TakeJob ==
    /\ wpc = "idle" /\ ~fw.stop /\ fw.jobPending
    /\ fw' = [fw EXCEPT !.jobPending = FALSE, !.contentTag = UnknownTag]
    /\ job' = [job EXCEPT !.tag = fw.contentTag]
    /\ wpc' = "seal"
    /\ UNCHANGED ppc

\* seal_frame_locked, which alone uses the tag; interpolation decides whether
\* the encode overlaps the producer's next frame.
SealFrame(overlap) ==
    /\ wpc = "seal"
    /\ job' = [tag |-> UnknownTag, overlap |-> overlap]
    /\ wpc' = IF overlap THEN "permit" ELSE "encode"
    /\ UNCHANGED <<fw, ppc>>

EncodedInline ==
    /\ wpc = "encode"
    /\ wpc' = "permit"
    /\ UNCHANGED <<fw, job, ppc>>

\* Mutant: the worker does not wait for the producer.
TakesNoPermit ==
    /\ wpc = "permit" /\ ~fw.stop
    /\ fw' = [fw EXCEPT !.prepareAllowed = FALSE]
    /\ wpc' = "prepare"
    /\ UNCHANGED <<job, ppc>>

\* The second wait of a cycle, which a stop request also ends.
TakePermit ==
    /\ wpc = "permit" /\ ~fw.stop /\ fw.prepareAllowed
    /\ fw' = [fw EXCEPT !.prepareAllowed = FALSE]
    /\ wpc' = "prepare"
    /\ UNCHANGED <<job, ppc>>

\* The cycle's locals do not outlive it.
CycleOver == wpc' = "idle" /\ job' = NoJob

\* Mutant: DONE is published with SEALED.
PreparesDone(ok) ==
    /\ wpc = "prepare"
    /\ fw' = [fw EXCEPT !.framePrepared = ok, !.sealed = TRUE, !.ready = TRUE]
    /\ IF job.overlap THEN wpc' = "overlap" /\ UNCHANGED job ELSE CycleOver
    /\ UNCHANGED ppc

\* The end of the SEALED phase, and of the cycle when nothing overlaps.
\* begin_frame_impl fails on a window that is paused or hidden, or whose
\* surface cannot be had again.
PrepareNext(ok) ==
    /\ wpc = "prepare"
    /\ fw' = [fw EXCEPT !.framePrepared = ok, !.sealed = TRUE,
                        !.ready = ~job.overlap]
    /\ IF job.overlap THEN wpc' = "overlap" /\ UNCHANGED job ELSE CycleOver
    /\ UNCHANGED ppc

EncodedOverlapped ==
    /\ wpc = "overlap"
    /\ fw' = [fw EXCEPT !.ready = TRUE]
    /\ CycleOver
    /\ UNCHANGED ppc

WorkerExits ==
    /\ wpc \in {"idle", "permit"} /\ fw.stop
    /\ fw' = [fw EXCEPT !.sealed = TRUE, !.ready = TRUE]
    /\ wpc' = "exited" /\ job' = NoJob
    /\ UNCHANGED ppc

----------------------------------------------------------------------------
\* The producer.

EndFrameCalled ==
    /\ ppc = "recording"
    /\ ppc' = "ending"
    /\ UNCHANGED <<fw, wpc, job>>

\* end_frame, once the previous cycle is DONE.
EndFrame(tag) ==
    /\ ppc = "ending" /\ fw.ready
    /\ fw' = [fw EXCEPT !.framePrepared = FALSE, !.sealed = FALSE,
                        !.ready = FALSE, !.contentTag = tag,
                        !.jobPending = TRUE, !.prepareAllowed = FALSE]
    /\ ppc' = "ended"
    /\ UNCHANGED <<wpc, job>>

\* begin_frame while a cycle is under way gives the permit and reports
\* success before the worker has prepared anything, unless it sees the window
\* change and joins the worker for its real result.
BeginFrameEarly(changing) ==
    /\ ppc = "ended" /\ ~fw.ready
    /\ fw' = [fw EXCEPT !.prepareAllowed = TRUE]
    /\ ppc' = IF changing THEN "beginning" ELSE "recording"
    /\ UNCHANGED <<wpc, job>>

\* A caller whose begin_frame failed has no frame, and tries again later.
BeginFrameJoined ==
    /\ ppc = "beginning" /\ fw.ready
    /\ ppc' = IF fw.framePrepared THEN "recording" ELSE "ended"
    /\ UNCHANGED <<fw, wpc, job>>

BeginFrameLate(ok) ==
    /\ ppc = "ended" /\ fw.ready
    /\ fw.framePrepared => ok
    /\ fw' = [fw EXCEPT !.framePrepared = ok]
    /\ ppc' = IF ok THEN "recording" ELSE "ended"
    /\ UNCHANGED <<wpc, job>>

\* quiesce_frame_worker: from the gap ("ended") or from a frame.  A finished
\* cycle needs no permit.
Quiesce ==
    /\ ppc \in {"recording", "ended", "exiting"} /\ ~fw.ready
    /\ fw' = [fw EXCEPT !.prepareAllowed = TRUE]
    /\ ppc' = CASE ppc = "recording" -> "requiescing"
                [] ppc = "ended" -> "quiescing"
                [] OTHER -> "stopping"
    /\ UNCHANGED <<wpc, job>>

QuiesceReturns ==
    /\ ppc \in {"requiescing", "quiescing", "stopping"} /\ fw.ready
    /\ fw' = [fw EXCEPT !.prepareAllowed = FALSE]
    /\ ppc' = CASE ppc = "requiescing" -> "recording"
                [] ppc = "quiescing" -> "ended"
                [] OTHER -> "exiting"
    /\ UNCHANGED <<wpc, job>>

\* The program leaves its main loop between two calls into Aurora.
LeaveMainLoop ==
    /\ ppc \in {"recording", "ended"}
    /\ ppc' = "exiting"
    /\ UNCHANGED <<fw, wpc, job>>

\* stop_frame_worker raises the flags, then joins.
StopFrameWorker ==
    /\ ppc = "exiting" /\ ~fw.stop
    /\ fw' = [fw EXCEPT !.stop = TRUE, !.prepareAllowed = TRUE]
    /\ UNCHANGED <<wpc, job, ppc>>

JoinFrameWorker ==
    /\ ppc = "exiting" /\ fw.stop /\ wpc = "exited"
    /\ fw' = [fw EXCEPT !.framePrepared = FALSE, !.jobPending = FALSE,
                        !.contentTag = UnknownTag]
    /\ ppc' = "stopped"
    /\ UNCHANGED <<wpc, job>>

----------------------------------------------------------------------------
WorkerStep ==
    \/ TakeJob
    \/ \E overlap \in BOOLEAN : SealFrame(overlap)
    \/ EncodedInline
    \/ TakePermit
    \/ \E ok \in BOOLEAN : PrepareNext(ok)
    \/ EncodedOverlapped
    \/ WorkerExits

ProducerStep ==
    \/ EndFrameCalled
    \/ \E tag \in Tags \cup {UnknownTag} : EndFrame(tag)
    \/ \E changing \in BOOLEAN : BeginFrameEarly(changing)
    \/ BeginFrameJoined
    \/ \E ok \in BOOLEAN : BeginFrameLate(ok)
    \/ Quiesce
    \/ QuiesceReturns
    \/ LeaveMainLoop
    \/ StopFrameWorker
    \/ JoinFrameWorker

FWNext == WorkerStep \/ ProducerStep

FWSpec == FWInit /\ [][FWNext]_fwVars

----------------------------------------------------------------------------
\* The two phases mean what their waiters rely on: SEALED, that the worker is
\* out of the renderer state it shares with the producer and has no frame
\* queued; DONE, that it is out of its cycle altogether.  The FIFO drain
\* (gx/fifo.cpp) and every ImGui caller depend on it (aurora.cpp
\* run_frame_worker_cycle, end_frame).
PhasesHonest ==
    /\ fw.sealed => wpc \notin SharedPlaces
    /\ fw.ready => wpc \in {"idle", "exited"}
    /\ fw.sealed /\ fw.jobPending => wpc = "exited"

\* The worker never prepares the next frame in the gap between end_frame and
\* begin_frame, where the producer still owns the window and its events: a
\* permit left over from an earlier cycle would let it.
PermitFresh == wpc = "prepare" => ppc # "ended"

\* Producer and worker never own the shared renderer state at the same time.
HandshakeHonest == PhasesHonest /\ PermitFresh
============================================================================
