------------------------- MODULE FrameWorker_proof -------------------------
(***************************************************************************)
(* The frame worker's handshake holds in every behaviour of FWSpec.         *)
(*                                                                         *)
(* HandshakeHonest is not inductive: that SEALED excludes the shared places *)
(* rests on a queued job meeting an idle worker only, and that no permit is *)
(* taken in the gap on none being left over there.                          *)
(***************************************************************************)
EXTENDS FrameWorker, TLAPS

\* A queued frame waits for a worker that is between two cycles, or gone.
QueuedForIdle == fw.jobPending => wpc \in {"idle", "exited"}

\* SEALED is published before the overlapped encode and so before DONE:
\* end_frame may wait for DONE alone.
DoneIsSealed == fw.ready \/ wpc = "overlap" => fw.sealed

\* In the gap before begin_frame a cycle under way has no permit.
NoPermitInGap == ppc = "ended" /\ ~fw.ready => ~fw.prepareAllowed

FWInv ==
    /\ FWTypeOK
    /\ HandshakeHonest
    /\ QueuedForIdle /\ DoneIsSealed /\ NoPermitInGap

\* Before the first frame the producer is in a frame and the worker waits for a job.
LEMMA FWInitInv == FWInit => FWInv
  BY DEF FWInit, FWInv, FWTypeOK, NoJob, HandshakeHonest, PhasesHonest, PermitFresh,
     QueuedForIdle, DoneIsSealed, NoPermitInGap, WorkerPlaces, SharedPlaces, ProducerPlaces

\* Every step of the worker thread (run_frame_worker_cycle) keeps the invariant.
LEMMA FWWorkerInv == FWInv /\ WorkerStep => FWInv'
  <1> SUFFICES ASSUME FWInv, WorkerStep PROVE FWInv'
    OBVIOUS
  <1> USE DEF FWInv, FWTypeOK, NoJob, HandshakeHonest, PhasesHonest, PermitFresh,
     QueuedForIdle, DoneIsSealed, NoPermitInGap, WorkerPlaces, SharedPlaces,
     ProducerPlaces, CycleOver
  <1>1. CASE TakeJob
    BY <1>1 DEF TakeJob
  <1>2. CASE \E overlap \in BOOLEAN : SealFrame(overlap)
    BY <1>2 DEF SealFrame
  <1>3. CASE EncodedInline
    BY <1>3 DEF EncodedInline
  <1>4. CASE TakePermit
    BY <1>4 DEF TakePermit
  <1>5. CASE \E ok \in BOOLEAN : PrepareNext(ok)
    <2> PICK ok \in BOOLEAN : PrepareNext(ok)
      BY <1>5
    <2>1. CASE job.overlap
      <3>1. /\ wpc = "prepare" /\ wpc' = "overlap" /\ job' = job /\ ppc' = ppc
            /\ fw' = [fw EXCEPT !.framePrepared = ok, !.sealed = TRUE, !.ready = FALSE]
        BY <2>1 DEF PrepareNext
      <3> QED
        BY <3>1
    <2>2. CASE ~job.overlap
      <3>1. /\ wpc = "prepare" /\ wpc' = "idle" /\ job' = NoJob /\ ppc' = ppc
            /\ fw' = [fw EXCEPT !.framePrepared = ok, !.sealed = TRUE, !.ready = TRUE]
        BY <2>2 DEF PrepareNext
      <3> QED
        BY <3>1
    <2> QED
      BY <2>1, <2>2
  <1>6. CASE EncodedOverlapped
    BY <1>6 DEF EncodedOverlapped
  <1>7. CASE WorkerExits
    BY <1>7 DEF WorkerExits
  <1> QED
    BY <1>1, <1>2, <1>3, <1>4, <1>5, <1>6, <1>7 DEF WorkerStep

\* Every step of the main thread (begin_frame, end_frame, quiesce, stop) keeps the invariant.
LEMMA FWProducerInv == FWInv /\ ProducerStep => FWInv'
  <1> SUFFICES ASSUME FWInv, ProducerStep PROVE FWInv'
    OBVIOUS
  <1> USE DEF FWInv, FWTypeOK, HandshakeHonest, PhasesHonest, PermitFresh,
     QueuedForIdle, DoneIsSealed, NoPermitInGap, WorkerPlaces, SharedPlaces,
     ProducerPlaces
  <1>1. CASE EndFrameCalled
    BY <1>1 DEF EndFrameCalled
  <1>2. CASE \E tag \in Tags \cup {UnknownTag} : EndFrame(tag)
    <2> PICK tag \in Tags \cup {UnknownTag} : EndFrame(tag)
      BY <1>2
    <2>1. /\ ppc = "ending" /\ fw.ready /\ ppc' = "ended" /\ wpc' = wpc /\ job' = job
          /\ fw' = [fw EXCEPT !.framePrepared = FALSE, !.sealed = FALSE, !.ready = FALSE,
                              !.contentTag = tag, !.jobPending = TRUE,
                              !.prepareAllowed = FALSE]
      BY DEF EndFrame
    <2> QED
      BY <2>1
  <1>3. CASE \E changing \in BOOLEAN : BeginFrameEarly(changing)
    BY <1>3 DEF BeginFrameEarly
  <1>4. CASE BeginFrameJoined
    BY <1>4 DEF BeginFrameJoined
  <1>5. CASE \E ok \in BOOLEAN : BeginFrameLate(ok)
    BY <1>5 DEF BeginFrameLate
  <1>6. CASE Quiesce
    BY <1>6 DEF Quiesce
  <1>7. CASE QuiesceReturns
    BY <1>7 DEF QuiesceReturns
  <1>8. CASE LeaveMainLoop
    BY <1>8 DEF LeaveMainLoop
  <1>9. CASE StopFrameWorker
    BY <1>9 DEF StopFrameWorker
  <1>10. CASE JoinFrameWorker
    BY <1>10 DEF JoinFrameWorker
  <1> QED
    BY <1>1, <1>2, <1>3, <1>4, <1>5, <1>6, <1>7, <1>8, <1>9, <1>10 DEF ProducerStep

\* So does every step of the handshake.
LEMMA FWStepInv == FWInv /\ [FWNext]_fwVars => FWInv'
  <1> SUFFICES ASSUME FWInv, [FWNext]_fwVars PROVE FWInv'
    OBVIOUS
  <1>1. CASE UNCHANGED fwVars
    BY <1>1 DEF fwVars, FWInv, FWTypeOK, HandshakeHonest, PhasesHonest, PermitFresh,
       QueuedForIdle, DoneIsSealed, NoPermitInGap
  <1> QED
    BY <1>1, FWWorkerInv, FWProducerInv DEF FWNext

\* The phases that begin_frame, end_frame and aurora's quiesce wait for are honest: when
\* SEALED the worker is out of the state it shares with the main thread, when DONE it is
\* back at its wait, and a queued frame of a sealed worker has nobody to run it only after
\* the worker has exited.  The permit of prepareAllowed is never one left from an earlier
\* cycle, so the next frame is not prepared between end_frame and begin_frame.
THEOREM FWHandshake == FWSpec => []HandshakeHonest
  <1>1. FWInv => HandshakeHonest
    BY DEF FWInv
  <1> QED
    BY <1>1, FWInitInv, FWStepInv, PTL DEF FWSpec
=============================================================================
