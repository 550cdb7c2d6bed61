------------------------ MODULE OpenXrPresent_proof ------------------------
(***************************************************************************)
(* The headset presentation keeps the frame worker's handshake and its own  *)
(* four invariants, in every behaviour of Spec.                             *)
(*                                                                         *)
(* XrInv is the inductive invariant.  Its parts are proved one lemma each,  *)
(* in which a step with the number 0 stands for the actions that leave the  *)
(* part's variables alone.  What an action of many alternatives amounts to  *)
(* is said once, by the lemmas named ...Effect and ...Moves.                *)
(***************************************************************************)
EXTENDS OpenXrPresent, FrameWorker_proof

\* The pacing thread has left its loop for good in these places.
LeavePlaces == {"leave", "ask", "check", "dozing", "asleep", "unhook", "drain",
                "ended", "joined"}
InLoop == pace.at \notin LeavePlaces

\* Where the stereo work of a frame is done.
StereoPlaced ==
    /\ stereo.at \in {"look", "claim"} => wpc = "seal"
    /\ stereo.at \in {"sink", "submit", "encoded"} => wpc \in {"encode", "overlap"}
    /\ stereo.at \in {"sink", "submit"} => stereo.token # None

\* From the end of the quiesce to the join no cycle is under way, and stop_ is
\* up before the pacing thread takes anything down.
TeardownOrdered ==
    /\ control.down \in {"idle", "stop", "notify", "join"} => fw.ready
    /\ control.stop => control.down \in {"notify", "join"} \/ pace.at = "joined"
    /\ pace.at \in {"unhook", "drain", "ended", "joined"} => control.stop
    /\ pace.at \in {"drain", "ended", "joined"} => ~bridge.sink
    /\ bridge.at # "live" => pace.at \in {"ended", "joined"}

\* The bridge holds a target exactly while the backend expects an answer.
TargetExpected ==
    /\ bridge.token = IF sub.arrived THEN None ELSE sub.awaiting
    /\ bridge.encoded => bridge.token # None
    /\ sub.success => sub.arrived
    /\ sub.arrived => sub.awaiting # None

\* In the loop FrameDelivery and the backend agree on the job, whose image is
\* acquired and may be released; outside it there is no delivery left.
JobAgreed ==
    /\ ~InLoop => delivery = NoImages
    /\ InLoop =>
          /\ sub.awaiting = IF delivery.pending = None THEN None ELSE delivery.pending.token
          /\ sub.awaiting # None => image.held /\ ~image.forbidden

\* A copy no fence answers for ends the loop.
UnfencedEndsLoop == bridge.unfenced /\ InLoop => sub.arrived /\ ~sub.success

\* The synchronous loop finishes a frame only after its answer, and begins one
\* with nothing pending.
SynchronousLoop ==
    ~xr.async =>
       /\ pace.at \notin {"service", "harvest"}
       /\ pace.at \in {"poll", "begin", "submit"} => delivery.pending = None
       /\ pace.at = "finish" => sub.arrived

\* What was drawn for whom, and what the cached layer describes.
DrawnForJob ==
    /\ stereo.token # None => stereo.fits
    /\ InLoop /\ sub.success => image.drawn = [token |-> sub.awaiting, fits |-> TRUE]
    /\ delivery.cached # None => image.latestOwn
    /\ pace.at = "publish" => delivery.pending # None

\* The inductive invariant.
XrInv ==
    /\ TypeOK
    /\ StereoPlaced /\ TeardownOrdered /\ NothingUsedAfterTeardown
    /\ TargetExpected /\ JobAgreed /\ UnfencedEndsLoop /\ ImageHeldWhileWritable
    /\ SynchronousLoop /\ DrawnForJob

\* The tag of a pacing loop without a snapshot is a tag.
LEMMA NoTagInTags == NoTag \in Tags
  BY ImmersiveAssumption DEF NoTag

\* A submission finds a serial the frame worker no longer refers to.
LEMMA FreshToken ==
    ASSUME TypeOK
    PROVE  /\ (CHOOSE t \in Tokens : Unused(t)) \in Tokens
           /\ Unused(CHOOSE t \in Tokens : Unused(t))
  <1>1. \E t \in Tokens : Unused(t)
    BY TokensAssumption DEF TypeOK, Unused, Stereos
  <1> QED
    BY <1>1

\* The values the actions assign as a whole are of their variables' types.
LEMMA Values ==
    ASSUME TypeOK
    PROVE  /\ Idle \in Submissions /\ NoImages \in Deliveries /\ StereoOver \in Stereos
           /\ Released \in Images /\ Abandoned \in Images /\ Cleared \in Bridges
           /\ Outdated(delivery.pending) \in Jobs \cup {None}
           /\ Outdated(delivery.cached) \in CachedImages \cup {None}
  <1>1. Idle \in Submissions /\ NoImages \in Deliveries /\ StereoOver \in Stereos
    BY DEF Idle, Submissions, NoImages, Deliveries, StereoOver, Stereos, StereoPlaces
  <1>2. Released \in Images /\ Abandoned \in Images
    BY DEF Released, Abandoned, TypeOK, Images
  <1>3. Cleared \in Bridges
    BY DEF Cleared, TypeOK, Bridges
  <1>4. Outdated(delivery.pending) \in Jobs \cup {None}
    BY DEF Outdated, TypeOK, Deliveries, Jobs
  <1>5. Outdated(delivery.cached) \in CachedImages \cup {None}
    BY DEF Outdated, TypeOK, Deliveries, CachedImages
  <1> QED
    BY <1>1, <1>2, <1>3, <1>4, <1>5

\* No step of the worker takes DONE back.
LEMMA DoneKept == FWInv /\ fw.ready /\ WorkerStep => fw'.ready
  <1> SUFFICES ASSUME FWInv, fw.ready, WorkerStep PROVE fw'.ready
    OBVIOUS
  <1>1. wpc \in {"idle", "exited"} /\ FWTypeOK
    BY DEF FWInv, HandshakeHonest, PhasesHonest
  <1>2. TakeJob \/ WorkerExits
    BY <1>1 DEF WorkerStep, SealFrame, EncodedInline, TakePermit, PrepareNext, EncodedOverlapped
  <1> QED
    BY <1>1, <1>2 DEF TakeJob, WorkerExits, FWTypeOK

\* Where BeginDisplayFrame takes the pacing thread.
LEMMA BeginMoves ==
    ASSUME TypeOK, BeginDisplayFrame
    PROVE  pace' \in Paces /\ pace'.at \in {"poll", "leave", "harvest", "submit"}
  <1> USE DEF TypeOK, Paces, PacePlaces
  <1>1. CASE Again \/ Breaks
    BY <1>1, NoTagInTags DEF Again, Breaks
  <1>2. CASE Goto("harvest")
    BY <1>2 DEF Goto
  <1>3. ASSUME NEW tag \in Tags, pace' = [pace EXCEPT !.at = "submit", !.tag = tag]
        PROVE  pace' \in Paces /\ pace'.at = "submit"
    BY <1>3
  <1> QED
    BY <1>1, <1>2, <1>3 DEF BeginDisplayFrame

\* Where SubmitOrRepeat takes the pacing thread.
LEMMA SubmitMoves ==
    ASSUME TypeOK, SubmitOrRepeat
    PROVE  pace' \in Paces /\ pace'.at \in {"poll", "leave", "publish", "finish"}
  <1> USE DEF TypeOK, Paces, PacePlaces
  <1>1. CASE Again \/ Breaks
    BY <1>1, NoTagInTags DEF Again, Breaks
  <1>2. ASSUME NEW p \in {"publish", "finish"}, NEW tag \in Tags,
               pace' = [pace EXCEPT !.tag = tag, !.at = p]
        PROVE  pace' \in Paces /\ pace'.at = p
    BY <1>2
  <1>3. PICK tag \in Tags : \/ Again \/ BeginSubmission(tag)
                           \/ pace' = [pace EXCEPT !.tag = tag, !.at = "finish"]
    BY DEF SubmitOrRepeat
  <1>4. BeginSubmission(tag) =>
           pace' = [pace EXCEPT !.tag = tag, !.at = "publish"] \/ Breaks
    BY DEF BeginSubmission
  <1> QED
    BY <1>1, <1>2, <1>3, <1>4

\* PollEvents ends the loop, or keeps the job and shows no more than before.
LEMMA PollEffect ==
    ASSUME TypeOK, PollEvents
    PROVE  /\ UNCHANGED <<bridge, sub, image, stereo>> /\ xr'.async = xr.async
           /\ \/ delivery' = NoImages /\ pace'.at = "leave"
              \/ /\ pace'.at = IF xr.async THEN "service" ELSE "begin"
                 /\ delivery'.pending = None <=> delivery.pending = None
                 /\ delivery.pending # None =>
                       delivery'.pending.token = delivery.pending.token
                 /\ delivery'.cached # None => delivery.cached # None
  <1>1. UNCHANGED <<bridge, sub, image, stereo>>
    BY DEF PollEvents
  <1>2. xr'.async = xr.async
    BY DEF PollEvents, TypeOK, XrStates
  <1>3. CASE Breaks
    BY <1>1, <1>2, <1>3 DEF Breaks
  <1>4. CASE ~Breaks
    <2>1. pace'.at = IF xr.async THEN "service" ELSE "begin"
      BY <1>4 DEF PollEvents, Goto, TypeOK, Paces
    <2>2. delivery' = delivery \/
          delivery' = [pending |-> Outdated(delivery.pending),
                       cached |-> Outdated(delivery.cached)]
      BY <1>4 DEF PollEvents
    <2>3. Outdated(delivery.pending) = None <=> delivery.pending = None
      BY NoneAssumption, Values DEF Outdated, TypeOK, Deliveries, Jobs
    <2>4. Outdated(delivery.cached) # None => delivery.cached # None
      BY DEF Outdated
    <2>5. delivery.pending # None => Outdated(delivery.pending).token = delivery.pending.token
      BY DEF Outdated, TypeOK, Deliveries, Jobs
    <2> QED
      BY <1>1, <1>2, <2>1, <2>2, <2>3, <2>4, <2>5
  <1> QED
    BY <1>3, <1>4

\* BeginDisplayFrame ends the loop, or keeps the job and the acquired image.
LEMMA BeginEffect ==
    ASSUME TypeOK, BeginDisplayFrame
    PROVE  /\ UNCHANGED <<bridge, sub, stereo>> /\ xr'.async = xr.async
           /\ image'.held = image.held /\ image'.forbidden = image.forbidden
           /\ image'.drawn = image.drawn
           /\ \/ delivery' = NoImages /\ pace'.at = "leave"
              \/ /\ delivery'.pending = delivery.pending
                 /\ delivery'.cached # None =>
                       delivery.cached # None /\ image'.latestOwn = image.latestOwn
                 /\ pace'.at \in {"poll", IF xr.async THEN "harvest" ELSE "submit"}
  <1>1. UNCHANGED <<bridge, sub, stereo>>
    BY DEF BeginDisplayFrame
  <1>2. xr'.async = xr.async
    BY DEF BeginDisplayFrame, TypeOK, XrStates
  <1>3. CASE Breaks /\ UNCHANGED image
    BY <1>1, <1>2, <1>3 DEF Breaks
  <1>4. CASE ~(Breaks /\ UNCHANGED image)
    <2>1. pace'.at \in {"poll", IF xr.async THEN "harvest" ELSE "submit"}
      <3>1. CASE Again
        BY <3>1 DEF Again
      <3>2. CASE ~Again
        BY <1>4, <3>2 DEF BeginDisplayFrame, Goto, TypeOK, Paces
      <3> QED
        BY <3>1, <3>2
    <2>2. \/ UNCHANGED <<delivery, image>>
          \/ /\ delivery' = [delivery EXCEPT !.cached = None]
             /\ image' = [image EXCEPT !.latestOwn = FALSE]
      BY <1>4 DEF BeginDisplayFrame
    <2>3. /\ image'.held = image.held /\ image'.forbidden = image.forbidden
          /\ image'.drawn = image.drawn
      BY <2>2 DEF TypeOK, Images
    <2>4. /\ delivery'.pending = delivery.pending
          /\ delivery'.cached # None =>
                delivery.cached # None /\ image'.latestOwn = image.latestOwn
      BY <2>2 DEF TypeOK, Deliveries
    <2> QED
      BY <1>1, <1>2, <2>1, <2>3, <2>4
  <1> QED
    BY <1>3, <1>4

\* BeginSubmission with all its calls successful.
SubmitsJob ==
    \E t \in Tokens, tag \in Tags :
       /\ bridge.token = None /\ ~bridge.encoded /\ delivery.pending = None
       /\ bridge' = [bridge EXCEPT !.token = t]
       /\ sub' = [Idle EXCEPT !.awaiting = t]
       /\ delivery' = [delivery EXCEPT !.pending =
                         [token |-> t, tag |-> tag, current |-> TRUE]]
       /\ image' = [image EXCEPT !.held = TRUE, !.forbidden = FALSE]
       /\ pace'.at = "publish"

\* SubmitOrRepeat repeats a frame, ends the loop, or submits a job.
LEMMA SubmitEffect ==
    ASSUME TypeOK, SubmitOrRepeat
    PROVE  /\ UNCHANGED <<stereo, xr>>
           /\ \/ /\ UNCHANGED <<bridge, sub, image, delivery>>
                 /\ pace'.at = "poll" \/ (pace'.at = "finish" /\ delivery.pending # None)
              \/ UNCHANGED <<bridge, sub, image>> /\ delivery' = NoImages /\ pace'.at = "leave"
              \/ SubmitsJob
  <1>1. UNCHANGED <<stereo, xr>> /\ pace.tag \in Tags
    BY DEF SubmitOrRepeat, TypeOK, Paces
  <1>2. PICK tag \in Tags :
           \/ Again /\ UNCHANGED <<bridge, sub, delivery, image>>
           \/ delivery.pending = None /\ BeginSubmission(tag)
           \/ /\ delivery.pending # None
              /\ pace' = [pace EXCEPT !.tag = tag, !.at = "finish"]
              /\ UNCHANGED <<bridge, sub, delivery, image>>
    BY <1>1 DEF SubmitOrRepeat
  <1>3. CASE Again /\ UNCHANGED <<bridge, sub, delivery, image>>
    BY <1>1, <1>3 DEF Again
  <1>4. CASE /\ delivery.pending # None
             /\ pace' = [pace EXCEPT !.tag = tag, !.at = "finish"]
             /\ UNCHANGED <<bridge, sub, delivery, image>>
    BY <1>1, <1>4 DEF TypeOK, Paces
  <1>5. CASE delivery.pending = None /\ BeginSubmission(tag)
    <2>1. CASE Breaks /\ UNCHANGED <<bridge, sub, image>>
      BY <1>1, <2>1 DEF Breaks
    <2>2. CASE ~(Breaks /\ UNCHANGED <<bridge, sub, image>>)
      <3>1. pace' = [pace EXCEPT !.tag = tag, !.at = "publish"]
        BY <1>5, <2>2 DEF BeginSubmission
      <3>2. pace'.at = "publish"
        BY <3>1 DEF TypeOK, Paces
      <3> DEFINE u == CHOOSE u \in Tokens : Unused(u)
      <3>3. /\ bridge.token = None /\ ~bridge.encoded
            /\ bridge' = [bridge EXCEPT !.token = u]
            /\ sub' = [Idle EXCEPT !.awaiting = u]
            /\ delivery' = [delivery EXCEPT !.pending =
                              [token |-> u, tag |-> tag, current |-> TRUE]]
            /\ image' = [image EXCEPT !.held = TRUE, !.forbidden = FALSE]
        BY <1>5, <2>2 DEF BeginSubmission
      <3>4. u \in Tokens
        BY FreshToken
      <3> HIDE DEF u
      <3> QED
        BY <1>1, <1>5, <3>2, <3>3, <3>4 DEF SubmitsJob
    <2> QED
      BY <2>1, <2>2
  <1> QED
    BY <1>2, <1>3, <1>4, <1>5

\* A submitted job is expected by its token, and its image is acquired.
LEMMA SubmitsEffect ==
    ASSUME TypeOK, SubmitsJob
    PROVE  /\ delivery'.pending \in Jobs /\ delivery'.pending # None
           /\ sub'.awaiting = delivery'.pending.token /\ ~sub'.success
           /\ delivery'.cached = delivery.cached
           /\ image'.held /\ ~image'.forbidden /\ image'.latestOwn = image.latestOwn
           /\ pace'.at = "publish"
  <1>1. PICK t \in Tokens, tag \in Tags :
           /\ sub' = [Idle EXCEPT !.awaiting = t]
           /\ delivery' = [delivery EXCEPT !.pending =
                             [token |-> t, tag |-> tag, current |-> TRUE]]
           /\ image' = [image EXCEPT !.held = TRUE, !.forbidden = FALSE]
           /\ pace'.at = "publish"
    BY DEF SubmitsJob
  <1>2. sub'.awaiting = t /\ ~sub'.success
    BY <1>1 DEF Idle
  <1> DEFINE j == [token |-> t, tag |-> tag, current |-> TRUE]
  <1>3. delivery'.pending = j /\ delivery'.cached = delivery.cached
    BY <1>1 DEF TypeOK, Deliveries
  <1>4. j \in Jobs /\ j.token = t
    BY DEF Jobs
  <1>5. image'.held /\ ~image'.forbidden /\ image'.latestOwn = image.latestOwn
    BY <1>1 DEF TypeOK, Images
  <1> HIDE DEF j
  <1>6. j # None
    BY <1>4, NoneAssumption
  <1> QED
    BY <1>1, <1>2, <1>3, <1>4, <1>5, <1>6

\* TryCancelPendingFrame cancels the job everywhere, or touches nothing.
LEMMA CancelEffect ==
    ASSUME TypeOK, TryCancelPendingFrame
    PROVE  /\ pace.at = "cancel" /\ UNCHANGED <<xr, stereo>>
           /\ \/ /\ bridge.token = sub.awaiting /\ bridge.token # None
                 /\ bridge' = Cleared /\ sub' = Idle /\ delivery' = NoImages
                 /\ \/ image' = Released /\ pace'.at \in {"poll", "begin", "submit"}
                    \/ image' = image /\ pace'.at = "leave"
              \/ UNCHANGED <<bridge, sub, delivery, image>> /\ pace'.at = "recheck"
  <1>1. pace.at = "cancel" /\ UNCHANGED <<xr, stereo>>
    BY DEF TryCancelPendingFrame
  <1>2. CASE Goto("recheck") /\ UNCHANGED <<bridge, sub, delivery, image>>
    BY <1>1, <1>2 DEF Goto, TypeOK, Paces
  <1>3. CASE ~(Goto("recheck") /\ UNCHANGED <<bridge, sub, delivery, image>>)
    <2>1. /\ bridge.token = sub.awaiting /\ bridge.token # None
          /\ bridge' = Cleared /\ sub' = Idle /\ delivery' = NoImages
      BY <1>3 DEF TryCancelPendingFrame, Cancellable, Breaks
    <2>2. CASE Breaks /\ UNCHANGED image
      BY <1>1, <2>1, <2>2 DEF Breaks
    <2>3. CASE ~(Breaks /\ UNCHANGED image)
      <3>1. image' = Released /\ IF pace.back = "finish" THEN Again ELSE Goto(pace.back)
        BY <1>3, <2>3 DEF TryCancelPendingFrame
      <3>2. pace'.at \in {"poll", "begin", "submit"}
        BY <3>1 DEF Again, Goto, TypeOK, Paces
      <3> QED
        BY <1>1, <2>1, <3>1, <3>2
    <2> QED
      BY <2>2, <2>3
  <1> QED
    BY <1>2, <1>3

\* Commits gives the job up everywhere, or ends the loop.
LEMMA CommitEffect ==
    ASSUME TypeOK, delivery.pending # None, NEW next \in PacePlaces, Commits(next)
    PROVE  \/ /\ image' = Released /\ delivery'.pending = None /\ sub' = Idle
              /\ pace'.at = next
           \/ delivery' = NoImages /\ pace'.at = "leave" /\ UNCHANGED <<image, sub>>
  BY DEF Commits, Breaks, Goto, TypeOK, Paces

\* A successful job's image is released as that job's.
LEMMA ReleasedOwn ==
    ASSUME XrInv, InLoop, sub.success
    PROVE  Released.latestOwn /\ delivery.pending # None
  <1>1. /\ image.held /\ ~image.forbidden /\ delivery.pending # None
        /\ image.drawn = [token |-> delivery.pending.token, fits |-> TRUE]
    BY DEF XrInv, JobAgreed, TargetExpected, DrawnForJob
  <1>2. Released = [image EXCEPT !.held = FALSE, !.drawn = None, !.latestOwn = TRUE]
    BY <1>1 DEF Released
  <1> QED
    BY <1>1, <1>2 DEF XrInv, TypeOK, Images

\* An answer reaches the backend only for the job it expects.
LEMMA PublishEffect ==
    ASSUME TypeOK, NEW token, NEW success \in BOOLEAN, Publish(token, success)
    PROVE  /\ sub'.awaiting = sub.awaiting
           /\ token = sub.awaiting => sub'.arrived /\ sub'.success = success
           /\ token # sub.awaiting => sub' = sub
  BY DEF Publish, TypeOK, Submissions

\* Encode marks the target, fails it, or refuses the packet.
LEMMA EncodeEffect ==
    ASSUME TypeOK, Encode
    PROVE  /\ stereo.at = "sink" /\ UNCHANGED <<fwVars, xr, offer, image, delivery, pace, control>>
           /\ bridge'.at = bridge.at /\ bridge'.sink = bridge.sink
           /\ bridge'.unfenced = bridge.unfenced
           /\ bridge'.token \in {bridge.token, None}
           /\ \/ bridge'.token = bridge.token /\ sub' = sub
              \/ bridge'.token = None /\ ~bridge'.encoded /\ Publish(bridge.token, FALSE)
  <1>1. stereo.at = "sink" /\ UNCHANGED <<fwVars, xr, offer, image, delivery, pace, control>>
    BY DEF Encode
  <1>2. CASE bridge' = [bridge EXCEPT !.encoded = TRUE] /\ UNCHANGED sub
    BY <1>1, <1>2 DEF TypeOK, Bridges
  <1>3. CASE Publish(bridge.token, FALSE) /\ bridge' = Cleared
    BY <1>1, <1>3 DEF Cleared, TypeOK, Bridges
  <1>4. CASE UNCHANGED <<bridge, sub>>
    BY <1>1, <1>4
  <1> QED
    BY <1>2, <1>3, <1>4 DEF Encode

\* Submitted answers for the target and clears it, or touches nothing.
LEMMA SubmittedEffect ==
    ASSUME TypeOK, Submitted
    PROVE  /\ UNCHANGED <<fwVars, xr, offer, delivery, pace, control>>
           /\ bridge'.at = bridge.at /\ bridge'.sink = bridge.sink
           /\ image'.held = image.held /\ image'.forbidden = image.forbidden
           /\ \/ UNCHANGED <<bridge, sub, image>>
              \/ /\ bridge.encoded /\ ~bridge'.encoded /\ bridge'.token = None
                 /\ \E fenced \in BOOLEAN :
                       /\ Publish(bridge.token, fenced)
                       /\ bridge'.unfenced => bridge.unfenced \/ ~fenced
  <1>1. UNCHANGED <<fwVars, xr, offer, delivery, pace, control>>
    BY DEF Submitted
  <1>2. CASE UNCHANGED <<bridge, sub, image>>
    BY <1>1, <1>2
  <1>3. CASE ~UNCHANGED <<bridge, sub, image>>
    <2>1. bridge.encoded /\ bridge.token = stereo.token
      BY <1>3 DEF Submitted
    <2>2. PICK queued \in BOOLEAN, fenced \in BOOLEAN :
             /\ bridge' = [Cleared EXCEPT !.unfenced = @ \/ (queued /\ ~fenced)]
             /\ Publish(bridge.token, fenced)
             /\ image' = IF queued
                         THEN [image EXCEPT !.drawn = [token |-> stereo.token,
                                                       fits |-> stereo.fits]]
                         ELSE image
      BY <1>3, <2>1 DEF Submitted
    <2>3. /\ bridge'.at = bridge.at /\ bridge'.sink = bridge.sink /\ bridge'.token = None
          /\ ~bridge'.encoded /\ bridge'.unfenced = (bridge.unfenced \/ (queued /\ ~fenced))
      BY <2>2 DEF Cleared, TypeOK, Bridges
    <2>4. image'.held = image.held /\ image'.forbidden = image.forbidden
      BY <2>2 DEF TypeOK, Images
    <2>5. bridge'.unfenced => bridge.unfenced \/ ~fenced
      BY <2>3
    <2> QED
      BY <1>1, <2>1, <2>2, <2>3, <2>4, <2>5
  <1> QED
    BY <1>2, <1>3

\* A deadline takes the pacing thread to the cancellation, and the packet back.
LEMMA DeadlineEffect ==
    ASSUME TypeOK, DeadlinePasses
    PROVE  /\ pace.at \in {"service", "harvest", "wait"} /\ pace'.at = "cancel"
           /\ UNCHANGED <<fwVars, xr, bridge, sub, image, delivery, stereo, control>>
  <1>1. PICK place \in {"service", "harvest", "wait"}, next \in {"begin", "submit", "finish"} :
           DeadlinePassed(place, next)
    BY DEF DeadlinePasses
  <1>2. pace.at = place /\ pace' = [pace EXCEPT !.at = "cancel", !.back = next]
    BY <1>1 DEF DeadlinePassed
  <1>3. pace'.at = "cancel"
    BY <1>2 DEF TypeOK, Paces
  <1> QED
    BY <1>1, <1>2, <1>3 DEF DeadlinePassed

\* DrainBridge answers for what is left and takes the bridge down.
LEMMA DrainEffect ==
    ASSUME TypeOK, DrainBridge
    PROVE  /\ pace.at = "drain" /\ pace'.at = "ended"
           /\ UNCHANGED <<fwVars, xr, offer, delivery, stereo, control>>
           /\ bridge'.token = None /\ ~bridge'.encoded /\ bridge'.sink = bridge.sink
           /\ bridge'.unfenced => bridge.unfenced /\ image'.held = image.held
           /\ IF bridge.token # None THEN Publish(bridge.token, FALSE) ELSE sub' = sub
  <1>1. /\ pace.at = "drain" /\ UNCHANGED <<fwVars, xr, offer, delivery, stereo, control>>
        /\ IF bridge.token # None THEN Publish(bridge.token, FALSE) ELSE sub' = sub
    BY DEF DrainBridge
  <1>2. pace'.at = "ended"
    BY DEF DrainBridge, Goto, TypeOK, Paces
  <1>3. /\ bridge'.token = None /\ ~bridge'.encoded /\ bridge'.sink = bridge.sink
        /\ bridge'.unfenced => bridge.unfenced /\ image'.held = image.held
    <2>1. CASE bridge' = [Cleared EXCEPT !.at = "gone", !.unfenced = FALSE]
      BY <2>1 DEF Cleared, TypeOK, Bridges
    <2>2. CASE bridge' = [Cleared EXCEPT !.at = "leaked"] /\ image' = Abandoned
      BY <2>2 DEF Cleared, Abandoned, TypeOK, Bridges, Images
    <2> QED
      BY <2>1, <2>2 DEF DrainBridge
  <1> QED
    BY <1>1, <1>2, <1>3

\* Every step keeps the variables in their types.
LEMMA TypeStep == XrInv /\ FWTypeOK' /\ Next => TypeOK'
  <1> SUFFICES ASSUME XrInv, FWTypeOK', Next PROVE TypeOK'
    OBVIOUS
  <1> USE NoTagInTags, NoneAssumption DEF XrInv, TypeOK
  <1>1. CASE WorkerTakesJob
    <2>1. stereo' \in Stereos
      BY <1>1 DEF WorkerTakesJob, Stereos, StereoPlaces
    <2> QED
      BY <1>1, <2>1 DEF WorkerTakesJob
  <1>2. CASE LookUpProvider
    <2>1. stereo' \in Stereos
      BY <1>2 DEF LookUpProvider, Stereos, StereoPlaces
    <2> QED
      BY <1>2, <2>1 DEF LookUpProvider
  <1>3. CASE ClaimPacket
    <2>1. offer' \in Offers
      BY <1>3 DEF ClaimPacket, Offers, Packets
    <2>2. stereo' \in Stereos
      BY <1>3 DEF ClaimPacket, Accepted, Fits, Offers, Packets, Stereos, StereoPlaces
    <2> QED
      BY <1>3, <2>1, <2>2 DEF ClaimPacket
  <1>4. CASE WorkerSeals
    BY <1>4 DEF WorkerSeals, xrVars
  <1>5. CASE LookUpSink
    <2>1. stereo' \in Stereos
      BY <1>5 DEF LookUpSink, StereoOver, Stereos, StereoPlaces
    <2> QED
      BY <1>5, <2>1 DEF LookUpSink
  <1>6. CASE Encode
    <2>1. bridge' \in Bridges
      BY <1>6 DEF Encode, Cleared, Bridges
    <2>2. stereo' \in Stereos
      BY <1>6, Values DEF Encode, Stereos, StereoPlaces
    <2>3. sub' \in Submissions
      BY <1>6 DEF Encode, Publish, Submissions
    <2> QED
      BY <1>6, <2>1, <2>2, <2>3 DEF Encode
  <1>7. CASE Submitted
    <2>1. bridge' \in Bridges
      BY <1>7 DEF Submitted, Cleared, Bridges
    <2>2. stereo' \in Stereos
      BY <1>7 DEF Submitted, StereoOver, Stereos, StereoPlaces
    <2>3. sub' \in Submissions
      BY <1>7 DEF Submitted, Publish, Submissions
    <2>4. image' \in Images
      <3>1. stereo.token = bridge.token /\ bridge.encoded =>
               [token |-> stereo.token, fits |-> stereo.fits] \in Pictures
        BY DEF TargetExpected, Stereos, Bridges, Pictures
      <3> QED
        BY <1>7, <3>1 DEF Submitted, Images
    <2> QED
      BY <1>7, <2>1, <2>2, <2>3, <2>4 DEF Submitted
  <1>8. CASE WorkerEncoded
    <2>1. stereo' \in Stereos
      BY <1>8 DEF WorkerEncoded, Stereos, StereoPlaces
    <2> QED
      BY <1>8, <2>1 DEF WorkerEncoded
  <1>9. CASE WorkerHandshake
    BY <1>9 DEF WorkerHandshake, xrVars
  <1>10. CASE PollEvents
    <2>1. xr' \in XrStates
      BY <1>10 DEF PollEvents, XrStates
    <2>2. pace' \in Paces
      BY <1>10 DEF PollEvents, Breaks, Goto, Paces, PacePlaces
    <2>3. delivery' \in Deliveries
      BY <1>10, Values DEF PollEvents, Breaks, Deliveries
    <2> QED
      BY <1>10, <2>1, <2>2, <2>3 DEF PollEvents
  <1>11. CASE DeadlinePasses
    <2>1. offer' \in Offers
      BY <1>11 DEF DeadlinePasses, DeadlinePassed, Withdrawn, Offers, Packets
    <2>2. pace' \in Paces
      BY <1>11 DEF DeadlinePasses, DeadlinePassed, Paces, PacePlaces
    <2> QED
      BY <1>11, <2>1, <2>2 DEF DeadlinePasses, DeadlinePassed
  <1>12. CASE ServicePending("service", "begin")
    <2>1. offer' \in Offers
      BY <1>12 DEF ServicePending, Withdrawn, Offers, Packets
    <2>2. sub' \in Submissions
      BY <1>12, Values DEF ServicePending, Commits
    <2>3. image' \in Images
      <3>1. image' = Released \/ image' = image
        BY <1>12 DEF ServicePending, Commits
      <3> QED
        BY <3>1, Values
    <2>4. delivery' \in Deliveries
      BY <1>12 DEF ServicePending, Commits, Breaks, NoImages, Submissions, JobAgreed,
         TargetExpected, InLoop, LeavePlaces, Deliveries, Jobs, CachedImages
    <2>5. pace' \in Paces
      BY <1>12 DEF ServicePending, Commits, Breaks, Goto, Paces, PacePlaces
    <2> QED
      BY <1>12, <2>1, <2>2, <2>3, <2>4, <2>5 DEF ServicePending
  <1>13. CASE ServicePending("harvest", "submit")
    <2>1. offer' \in Offers
      BY <1>13 DEF ServicePending, Withdrawn, Offers, Packets
    <2>2. sub' \in Submissions
      BY <1>13, Values DEF ServicePending, Commits
    <2>3. image' \in Images
      <3>1. image' = Released \/ image' = image
        BY <1>13 DEF ServicePending, Commits
      <3> QED
        BY <3>1, Values
    <2>4. delivery' \in Deliveries
      BY <1>13 DEF ServicePending, Commits, Breaks, NoImages, JobAgreed, TargetExpected,
         InLoop, LeavePlaces, Deliveries, Jobs, CachedImages
    <2>5. pace' \in Paces
      BY <1>13 DEF ServicePending, Commits, Breaks, Goto, Paces, PacePlaces
    <2> QED
      BY <1>13, <2>1, <2>2, <2>3, <2>4, <2>5 DEF ServicePending
  <1>14. CASE TryCancelPendingFrame
    <2>1. bridge' \in Bridges
      BY <1>14, Values, CancelEffect
    <2>2. sub' \in Submissions
      BY <1>14, Values DEF TryCancelPendingFrame
    <2>3. image' \in Images
      BY <1>14, Values, CancelEffect
    <2>4. delivery' \in Deliveries
      BY <1>14 DEF TryCancelPendingFrame, NoImages, Breaks, Deliveries, Jobs,
         CachedImages
    <2>5. pace' \in Paces
      BY <1>14 DEF TryCancelPendingFrame, Breaks, Goto, Again, Paces, PacePlaces
    <2> QED
      BY <1>14, <2>1, <2>2, <2>3, <2>4, <2>5 DEF TryCancelPendingFrame
  <1>15. CASE RecheckSubmission
    <2>1. sub' \in Submissions
      BY <1>15, Values DEF RecheckSubmission, Commits
    <2>2. image' \in Images
      <3>1. image' = Released \/ image' = image
        BY <1>15 DEF RecheckSubmission, Commits
      <3> QED
        BY <3>1, Values
    <2>3. delivery' \in Deliveries
      BY <1>15 DEF RecheckSubmission, Commits, Breaks, NoImages, JobAgreed,
         TargetExpected, InLoop, LeavePlaces, Deliveries, Jobs, CachedImages
    <2>4. pace' \in Paces
      BY <1>15 DEF RecheckSubmission, Commits, Breaks, Goto, Paces, PacePlaces
    <2> QED
      BY <1>15, <2>1, <2>2, <2>3, <2>4 DEF RecheckSubmission
  <1>16. CASE BeginDisplayFrame
    <2>1. xr' \in XrStates
      BY <1>16 DEF BeginDisplayFrame, XrStates
    <2>2. image' \in Images
      BY <1>16 DEF BeginDisplayFrame, Images, Pictures
    <2>3. delivery' \in Deliveries
      BY <1>16, Values DEF BeginDisplayFrame, Breaks, Deliveries
    <2>4. pace' \in Paces
      BY <1>16, BeginMoves
    <2> QED
      BY <1>16, <2>1, <2>2, <2>3, <2>4 DEF BeginDisplayFrame
  <1>17. CASE SubmitOrRepeat
    <2>1. bridge' \in Bridges
      BY <1>17, FreshToken DEF SubmitOrRepeat, BeginSubmission, Breaks, Bridges
    <2>2. sub' \in Submissions
      BY <1>17, FreshToken DEF SubmitOrRepeat, BeginSubmission, Breaks, Idle,
         Submissions
    <2>3. delivery' \in Deliveries
      <3>1. \A t \in Tokens, tag \in Tags :
               [delivery EXCEPT !.pending = [token |-> t, tag |-> tag, current |-> TRUE]]
                  \in Deliveries
        BY DEF Deliveries, Jobs
      <3>2. pace.tag \in Tags
        BY DEF Paces
      <3> QED
        BY <1>17, <3>1, <3>2, FreshToken, Values DEF SubmitOrRepeat, BeginSubmission, Breaks
    <2>4. image' \in Images
      BY <1>17 DEF SubmitOrRepeat, BeginSubmission, Breaks, Images, Pictures
    <2>5. pace' \in Paces
      BY <1>17, SubmitMoves
    <2> QED
      BY <1>17, <2>1, <2>2, <2>3, <2>4, <2>5 DEF SubmitOrRepeat
  <1>18. CASE PublishFrame
    <2>1. offer' \in Offers
      BY <1>18 DEF PublishFrame, DrawnForJob, Deliveries, Jobs, Paces, Packets, Offers
    <2>2. pace' \in Paces
      BY <1>18 DEF PublishFrame, Goto, Paces, PacePlaces
    <2> QED
      BY <1>18, <2>1, <2>2 DEF PublishFrame
  <1>19. CASE FinishDisplayFrame
    <2>1. delivery' \in Deliveries
      BY <1>19 DEF FinishDisplayFrame, Breaks, NoImages, Deliveries, Jobs, CachedImages
    <2>2. pace' \in Paces
      BY <1>19 DEF FinishDisplayFrame, Again, Breaks, Paces, PacePlaces
    <2> QED
      BY <1>19, <2>1, <2>2 DEF FinishDisplayFrame
  <1>20. CASE AwaitSubmission
    <2>1. offer' \in Offers
      BY <1>20 DEF AwaitSubmission, Withdrawn, Offers, Packets
    <2>2. delivery' \in Deliveries
      BY <1>20 DEF AwaitSubmission, Breaks, NoImages, Deliveries, Jobs, CachedImages
    <2>3. pace' \in Paces
      BY <1>20 DEF AwaitSubmission, Breaks, Goto, Paces, PacePlaces
    <2> QED
      BY <1>20, <2>1, <2>2, <2>3 DEF AwaitSubmission
  <1>21. CASE FinishFrame
    <2>1. sub' \in Submissions
      BY <1>21, Values DEF FinishFrame
    <2>2. image' \in Images
      <3>1. image' = Abandoned \/ image' = Released \/ image' = image
        BY <1>21 DEF FinishFrame
      <3> QED
        BY <3>1, Values
    <2>3. delivery' \in Deliveries
      BY <1>21 DEF FinishFrame, Breaks, NoImages, Again, Deliveries, Jobs, CachedImages
    <2>4. pace' \in Paces
      BY <1>21 DEF FinishFrame, Breaks, Again, Paces, PacePlaces
    <2> QED
      BY <1>21, <2>1, <2>2, <2>3, <2>4 DEF FinishFrame
  <1>22. CASE LeaveLoop
    <2>1. offer' \in Offers
      BY <1>22 DEF LeaveLoop, Withdrawn, Offers, Packets
    <2>2. pace' \in Paces
      BY <1>22 DEF LeaveLoop, Goto, Paces, PacePlaces
    <2> QED
      BY <1>22, <2>1, <2>2 DEF LeaveLoop
  <1>23. CASE AskForTeardown
    <2>1. pace' \in Paces
      BY <1>23 DEF AskForTeardown, Goto, Paces, PacePlaces
    <2>2. control' \in Controls
      BY <1>23 DEF AskForTeardown, Controls, DownPlaces
    <2> QED
      BY <1>23, <2>1, <2>2 DEF AskForTeardown
  <1>24. CASE CheckStop
    <2>1. pace' \in Paces
      BY <1>24 DEF CheckStop, Goto, Paces, PacePlaces
    <2>2. control' \in Controls
      BY <1>24 DEF CheckStop, Controls, DownPlaces
    <2> QED
      BY <1>24, <2>1, <2>2 DEF CheckStop
  <1>25. CASE FallAsleep
    <2>1. pace' \in Paces
      BY <1>25 DEF FallAsleep, Goto, Paces, PacePlaces
    <2>2. control' \in Controls
      BY <1>25 DEF FallAsleep, Controls, DownPlaces
    <2> QED
      BY <1>25, <2>1, <2>2 DEF FallAsleep
  <1>26. CASE UnhookSink
    <2>1. bridge' \in Bridges
      BY <1>26 DEF UnhookSink, Bridges
    <2>2. pace' \in Paces
      BY <1>26 DEF UnhookSink, Goto, Paces, PacePlaces
    <2> QED
      BY <1>26, <2>1, <2>2 DEF UnhookSink
  <1>27. CASE DrainBridge
    <2>1. bridge' \in Bridges
      BY <1>27 DEF DrainBridge, Cleared, Bridges
    <2>2. sub' \in Submissions
      BY <1>27 DEF DrainBridge, Publish, Submissions
    <2>3. image' \in Images
      BY <1>27 DEF DrainBridge, Abandoned, Images, Pictures
    <2>4. pace' \in Paces
      BY <1>27 DEF DrainBridge, Goto, Paces, PacePlaces
    <2> QED
      BY <1>27, <2>1, <2>2, <2>3, <2>4 DEF DrainBridge
  <1>28. CASE Frames
    BY <1>28 DEF Frames, xrVars
  <1>29. CASE ExitRequested
    BY <1>29 DEF ExitRequested, xrVars
  <1>30. CASE StopAurora
    BY <1>30 DEF StopAurora, xrVars
  <1>31. CASE ShutdownBegins
    <2>1. control' \in Controls
      BY <1>31 DEF ShutdownBegins, Controls, DownPlaces
    <2> QED
      BY <1>31, <2>1 DEF ShutdownBegins
  <1>32. CASE FrameWorkerQuiet
    <2>1. control' \in Controls
      BY <1>32 DEF FrameWorkerQuiet, ShutdownGoes, Controls, DownPlaces
    <2> QED
      BY <1>32, <2>1 DEF FrameWorkerQuiet
  <1>33. CASE UnregisterProvider
    <2>1. offer' \in Offers
      BY <1>33 DEF UnregisterProvider, Offers, Packets
    <2>2. control' \in Controls
      BY <1>33 DEF UnregisterProvider, ShutdownGoes, Controls, DownPlaces
    <2> QED
      BY <1>33, <2>1, <2>2 DEF UnregisterProvider
  <1>34. CASE RaiseStop
    <2>1. control' \in Controls
      BY <1>34 DEF RaiseStop, Controls, DownPlaces
    <2> QED
      BY <1>34, <2>1 DEF RaiseStop
  <1>35. CASE NotifyStop
    <2>1. pace' \in Paces
      BY <1>35 DEF NotifyStop, Goto, Paces, PacePlaces
    <2>2. control' \in Controls
      BY <1>35 DEF NotifyStop, ShutdownGoes, Controls, DownPlaces
    <2> QED
      BY <1>35, <2>1, <2>2 DEF NotifyStop
  <1>36. CASE JoinPacingThread
    <2>1. pace' \in Paces
      BY <1>36 DEF JoinPacingThread, Goto, Paces, PacePlaces
    <2>2. control' \in Controls
      BY <1>36 DEF JoinPacingThread, ShutdownGoes, Controls, DownPlaces
    <2> QED
      BY <1>36, <2>1, <2>2 DEF JoinPacingThread
  <1>37. CASE Terminated
    BY <1>37 DEF Terminated, vars, xrVars
  <1> QED
    BY <1>1, <1>2, <1>3, <1>4, <1>5, <1>6, <1>7, <1>8, <1>9, <1>10, <1>11, <1>12, <1>13,
       <1>14, <1>15, <1>16, <1>17, <1>18, <1>19, <1>20, <1>21, <1>22, <1>23, <1>24,
       <1>25, <1>26, <1>27, <1>28, <1>29, <1>30, <1>31, <1>32, <1>33, <1>34, <1>35,
       <1>36, <1>37 DEF Next, FrameWorkerStep, PacingStep, ShutdownStep

\* The worker does its stereo work in the cycle's own places.
LEMMA StereoStep == XrInv /\ FWInv /\ FWInv' /\ TypeOK' /\ Next => StereoPlaced'
  <1> SUFFICES ASSUME XrInv, FWInv, FWInv', TypeOK', Next PROVE StereoPlaced'
    OBVIOUS
  <1> USE NoneAssumption DEF XrInv, TypeOK, StereoPlaced, Stereos, StereoPlaces, Bridges,
                             TargetExpected
  <1>0. CASE PollEvents \/ DeadlinePasses \/ ServicePending("service", "begin") \/
           ServicePending("harvest", "submit") \/ TryCancelPendingFrame \/
           RecheckSubmission \/ BeginDisplayFrame \/ SubmitOrRepeat \/ PublishFrame \/
           FinishDisplayFrame \/ AwaitSubmission \/ FinishFrame \/ LeaveLoop \/
           AskForTeardown \/ CheckStop \/ FallAsleep \/ UnhookSink \/ DrainBridge \/
           UnregisterProvider \/ RaiseStop \/ NotifyStop \/ JoinPacingThread \/
           Terminated
    <2>1. UNCHANGED <<stereo, fwVars>>
      BY <1>0 DEF PollEvents, DeadlinePasses, ServicePending, TryCancelPendingFrame,
         RecheckSubmission, BeginDisplayFrame, SubmitOrRepeat, PublishFrame,
         FinishDisplayFrame, AwaitSubmission, FinishFrame, LeaveLoop, AskForTeardown,
         CheckStop, FallAsleep, UnhookSink, DrainBridge, UnregisterProvider, RaiseStop,
         NotifyStop, JoinPacingThread, Terminated, vars, xrVars, DeadlinePassed
    <2> QED
      BY <2>1 DEF fwVars
  <1>1. CASE WorkerTakesJob
    BY <1>1 DEF WorkerTakesJob, TakeJob
  <1>2. CASE LookUpProvider
    BY <1>2 DEF LookUpProvider, fwVars
  <1>3. CASE ClaimPacket
    BY <1>3 DEF ClaimPacket, Accepted, Fits, fwVars
  <1>4. CASE WorkerSeals
    BY <1>4 DEF WorkerSeals, xrVars, SealFrame
  <1>5. CASE LookUpSink
    BY <1>5 DEF LookUpSink, StereoOver, fwVars
  <1>6. CASE Encode
    BY <1>6 DEF Encode, Cleared, StereoOver, Publish, fwVars
  <1>7. CASE Submitted
    BY <1>7 DEF Submitted, Cleared, StereoOver, Publish, fwVars
  <1>8. CASE WorkerEncoded
    BY <1>8 DEF WorkerEncoded, EncodedInline, EncodedOverlapped, CycleOver
  <1>9. CASE WorkerHandshake
    BY <1>9 DEF WorkerHandshake, xrVars, TakePermit, PrepareNext, WorkerExits, CycleOver
  <1>10. CASE Frames
    BY <1>10 DEF Frames, xrVars, EndFrameCalled, EndFrame, BeginFrameEarly,
       BeginFrameJoined, BeginFrameLate
  <1>11. CASE ExitRequested
    BY <1>11 DEF ExitRequested, xrVars, LeaveMainLoop
  <1>12. CASE StopAurora
    BY <1>12 DEF StopAurora, xrVars, StopFrameWorker, JoinFrameWorker
  <1>13. CASE ShutdownBegins
    BY <1>13 DEF ShutdownBegins, Quiesce, fwVars
  <1>14. CASE FrameWorkerQuiet
    BY <1>14 DEF FrameWorkerQuiet, ShutdownGoes, QuiesceReturns
  <1> QED
    BY <1>0, <1>1, <1>2, <1>3, <1>4, <1>5, <1>6, <1>7, <1>8, <1>9, <1>10, <1>11, <1>12,
       <1>13, <1>14 DEF Next, FrameWorkerStep, PacingStep, ShutdownStep

\* The teardown keeps its order.
LEMMA TeardownStep == XrInv /\ FWInv /\ FWInv' /\ TypeOK' /\ Next => TeardownOrdered'
  <1> SUFFICES ASSUME XrInv, FWInv, FWInv', TypeOK', Next PROVE TeardownOrdered'
    OBVIOUS
  <1> USE NoneAssumption DEF XrInv, TypeOK, TeardownOrdered, Paces, Bridges, Controls
  <1>0. CASE LookUpProvider \/ ClaimPacket \/ LookUpSink \/ Terminated
    <2>1. UNCHANGED <<control, pace, bridge, fwVars>>
      BY <1>0 DEF LookUpProvider, ClaimPacket, LookUpSink, Terminated, vars, xrVars
    <2> QED
      BY <2>1 DEF fwVars
  <1>1. CASE WorkerTakesJob
    BY <1>1 DEF WorkerTakesJob, TakeJob
  <1>2. CASE WorkerSeals
    BY <1>2 DEF WorkerSeals, xrVars, SealFrame
  <1>3. CASE Encode
    BY <1>3, EncodeEffect DEF fwVars
  <1>4. CASE Submitted
    BY <1>4, SubmittedEffect DEF fwVars
  <1>5. CASE WorkerEncoded
    BY <1>5, DoneKept DEF WorkerEncoded, WorkerStep
  <1>6. CASE WorkerHandshake
    BY <1>6, DoneKept DEF WorkerHandshake, WorkerStep, xrVars
  <1>7. CASE PollEvents
    BY <1>7 DEF PollEvents, Breaks, Goto, NoImages, Outdated, fwVars
  <1>8. CASE DeadlinePasses
    BY <1>8, DeadlineEffect DEF fwVars
  <1>9. CASE ServicePending("service", "begin")
    BY <1>9 DEF ServicePending, Withdrawn, Commits, Idle, Breaks, Released, NoImages,
       Goto, fwVars
  <1>10. CASE ServicePending("harvest", "submit")
    BY <1>10 DEF ServicePending, Withdrawn, Commits, Idle, Breaks, Released, NoImages,
       Goto, fwVars
  <1>11. CASE TryCancelPendingFrame
    <2>1. pace.at = "cancel" /\ UNCHANGED <<fw, control>>
      BY <1>11 DEF TryCancelPendingFrame, fwVars
    <2>2. pace'.at \notin {"unhook", "drain", "ended", "joined"}
      BY <1>11 DEF TryCancelPendingFrame, Breaks, Goto, Again
    <2>3. bridge'.at = bridge.at
      BY <1>11 DEF TryCancelPendingFrame, Cleared
    <2> QED
      BY <2>1, <2>2, <2>3
  <1>12. CASE RecheckSubmission
    BY <1>12 DEF RecheckSubmission, Commits, Idle, Breaks, Released, NoImages, Goto,
       fwVars
  <1>13. CASE BeginDisplayFrame
    <2>1. pace.at = "begin" /\ UNCHANGED <<fw, control>>
      BY <1>13 DEF BeginDisplayFrame, fwVars
    <2>2. pace'.at \notin {"unhook", "drain", "ended", "joined"}
      BY <1>13, BeginMoves
    <2>3. bridge'.at = bridge.at
      BY <1>13 DEF BeginDisplayFrame
    <2> QED
      BY <2>1, <2>2, <2>3
  <1>14. CASE SubmitOrRepeat
    <2>1. pace.at = "submit" /\ UNCHANGED <<fw, control>>
      BY <1>14 DEF SubmitOrRepeat, fwVars
    <2>2. pace'.at \notin {"unhook", "drain", "ended", "joined"}
      BY <1>14, SubmitMoves
    <2>3. bridge'.at = bridge.at
      BY <1>14 DEF SubmitOrRepeat, BeginSubmission, Breaks
    <2> QED
      BY <2>1, <2>2, <2>3
  <1>15. CASE PublishFrame
    BY <1>15 DEF PublishFrame, Goto, fwVars
  <1>16. CASE FinishDisplayFrame
    BY <1>16 DEF FinishDisplayFrame, Breaks, NoImages, Again, fwVars
  <1>17. CASE AwaitSubmission
    BY <1>17 DEF AwaitSubmission, Withdrawn, Breaks, NoImages, Goto, fwVars
  <1>18. CASE FinishFrame
    BY <1>18 DEF FinishFrame, Idle, Breaks, Abandoned, Released, NoImages, Again, fwVars
  <1>19. CASE LeaveLoop
    BY <1>19 DEF LeaveLoop, Withdrawn, Goto, fwVars
  <1>20. CASE AskForTeardown
    BY <1>20 DEF AskForTeardown, Goto, fwVars
  <1>21. CASE CheckStop
    BY <1>21 DEF CheckStop, Goto, fwVars
  <1>22. CASE FallAsleep
    BY <1>22 DEF FallAsleep, Goto, fwVars
  <1>23. CASE UnhookSink
    BY <1>23 DEF UnhookSink, Goto, fwVars
  <1>24. CASE DrainBridge
    BY <1>24, DrainEffect DEF fwVars
  <1>25. CASE Frames
    BY <1>25 DEF Frames, xrVars, EndFrameCalled, EndFrame, BeginFrameEarly,
       BeginFrameJoined, BeginFrameLate
  <1>26. CASE ExitRequested
    BY <1>26 DEF ExitRequested, xrVars, LeaveMainLoop
  <1>27. CASE StopAurora
    BY <1>27 DEF StopAurora, xrVars, StopFrameWorker, JoinFrameWorker
  <1>28. CASE ShutdownBegins
    <2>1. UNCHANGED <<pace, bridge>> /\ control.down = "none"
      BY <1>28 DEF ShutdownBegins
    <2>2. CASE control' = [control EXCEPT !.teardown = FALSE]
      <3>1. control'.down = control.down /\ control'.stop = control.stop
        BY <2>2
      <3> QED
        BY <2>1, <3>1
    <2>3. CASE fw.ready /\ UNCHANGED fwVars /\ control' = [control EXCEPT !.teardown = FALSE, !.down = "idle"]
      <3>1. fw'.ready /\ control'.stop = control.stop
        BY <2>3 DEF fwVars
      <3> QED
        BY <2>1, <3>1
    <2>4. CASE control' = [control EXCEPT !.teardown = FALSE, !.down = "quiesce"]
      <3>1. control'.down = "quiesce" /\ control'.stop = control.stop
        BY <2>4
      <3> QED
        BY <2>1, <3>1
    <2> QED
      BY <1>28, <2>2, <2>3, <2>4 DEF ShutdownBegins
  <1>29. CASE FrameWorkerQuiet
    BY <1>29 DEF FrameWorkerQuiet, ShutdownGoes, QuiesceReturns
  <1>30. CASE UnregisterProvider
    BY <1>30 DEF UnregisterProvider, ShutdownGoes, fwVars
  <1>31. CASE RaiseStop
    BY <1>31 DEF RaiseStop, fwVars
  <1>32. CASE NotifyStop
    BY <1>32 DEF NotifyStop, Goto, ShutdownGoes, fwVars
  <1>33. CASE JoinPacingThread
    BY <1>33 DEF JoinPacingThread, Goto, ShutdownGoes, fwVars
  <1> QED
    BY <1>0, <1>1, <1>2, <1>3, <1>4, <1>5, <1>6, <1>7, <1>8, <1>9, <1>10, <1>11, <1>12,
       <1>13, <1>14, <1>15, <1>16, <1>17, <1>18, <1>19, <1>20, <1>21, <1>22, <1>23,
       <1>24, <1>25, <1>26, <1>27, <1>28, <1>29, <1>30, <1>31, <1>32, <1>33 DEF Next,
       FrameWorkerStep, PacingStep, ShutdownStep

\* The worker is out of what the teardown takes down.
LEMMA UseStep == XrInv /\ FWInv /\ FWInv' /\ TypeOK' /\ Next => NothingUsedAfterTeardown'
  <1> SUFFICES ASSUME XrInv, FWInv, FWInv', TypeOK', Next PROVE NothingUsedAfterTeardown'
    OBVIOUS
  <1> USE NoneAssumption DEF XrInv, TypeOK, TeardownOrdered, StereoPlaced, NothingUsedAfterTeardown,
                             Stereos, StereoPlaces, Bridges, Offers
  <1>0. CASE WorkerSeals \/ WorkerHandshake \/ PollEvents \/ RecheckSubmission \/
           BeginDisplayFrame \/ FinishDisplayFrame \/ FinishFrame \/ AskForTeardown \/
           CheckStop \/ FallAsleep \/ Frames \/ ExitRequested \/ StopAurora \/
           ShutdownBegins \/ FrameWorkerQuiet \/ RaiseStop \/ NotifyStop \/
           JoinPacingThread \/ Terminated
    <2>1. UNCHANGED <<offer, stereo, bridge>>
      BY <1>0 DEF WorkerSeals, WorkerHandshake, PollEvents, RecheckSubmission,
         BeginDisplayFrame, FinishDisplayFrame, FinishFrame, AskForTeardown, CheckStop,
         FallAsleep, Frames, ExitRequested, StopAurora, ShutdownBegins,
         FrameWorkerQuiet, RaiseStop, NotifyStop, JoinPacingThread, Terminated, vars,
         xrVars
    <2> QED
      BY <2>1
  <1>1. CASE WorkerTakesJob
    BY <1>1 DEF WorkerTakesJob, TakeJob
  <1>2. CASE LookUpProvider
    BY <1>2 DEF LookUpProvider, fwVars
  <1>3. CASE ClaimPacket
    BY <1>3 DEF ClaimPacket, Accepted, Fits, fwVars
  <1>4. CASE LookUpSink
    BY <1>4 DEF LookUpSink, StereoOver, fwVars
  <1>5. CASE Encode
    BY <1>5 DEF Encode, Cleared, StereoOver, Publish, fwVars
  <1>6. CASE Submitted
    BY <1>6 DEF Submitted, Cleared, StereoOver, Publish, fwVars
  <1>7. CASE WorkerEncoded
    BY <1>7 DEF WorkerEncoded, EncodedInline, EncodedOverlapped, CycleOver
  <1>8. CASE DeadlinePasses
    BY <1>8 DEF DeadlinePasses, DeadlinePassed, Withdrawn, fwVars
  <1>9. CASE ServicePending("service", "begin")
    BY <1>9 DEF ServicePending, Withdrawn, Commits, Idle, Breaks, Released, NoImages,
       Goto, fwVars
  <1>10. CASE ServicePending("harvest", "submit")
    BY <1>10 DEF ServicePending, Withdrawn, Commits, Idle, Breaks, Released, NoImages,
       Goto, fwVars
  <1>11. CASE TryCancelPendingFrame
    BY <1>11 DEF TryCancelPendingFrame, Cleared, Idle, Released, Breaks, NoImages, Goto,
       Again, fwVars
  <1>12. CASE SubmitOrRepeat
    BY <1>12 DEF SubmitOrRepeat, BeginSubmission, Breaks, Idle, NoImages, Again, fwVars
  <1>13. CASE PublishFrame
    BY <1>13 DEF PublishFrame, Goto, fwVars
  <1>14. CASE AwaitSubmission
    BY <1>14 DEF AwaitSubmission, Withdrawn, Breaks, NoImages, Goto, fwVars
  <1>15. CASE LeaveLoop
    BY <1>15 DEF LeaveLoop, Withdrawn, Goto, fwVars
  <1>16. CASE UnhookSink
    BY <1>16 DEF UnhookSink, Goto, fwVars
  <1>17. CASE DrainBridge
    BY <1>17 DEF DrainBridge, Cleared, Goto, FWInv, HandshakeHonest, PhasesHonest
  <1>18. CASE UnregisterProvider
    BY <1>18 DEF UnregisterProvider, FWInv, HandshakeHonest, PhasesHonest
  <1> QED
    BY <1>0, <1>1, <1>2, <1>3, <1>4, <1>5, <1>6, <1>7, <1>8, <1>9, <1>10, <1>11, <1>12,
       <1>13, <1>14, <1>15, <1>16, <1>17, <1>18 DEF Next, FrameWorkerStep, PacingStep,
       ShutdownStep

\* The bridge and the backend answer for the same job.
LEMMA TargetStep == XrInv /\ FWInv /\ FWInv' /\ TypeOK' /\ Next => TargetExpected'
  <1> SUFFICES ASSUME XrInv, FWInv, FWInv', TypeOK', Next PROVE TargetExpected'
    OBVIOUS
  <1> USE NoneAssumption DEF XrInv, TypeOK, TargetExpected, Bridges, Submissions
  <1>0. CASE WorkerTakesJob \/ LookUpProvider \/ ClaimPacket \/ WorkerSeals \/
           LookUpSink \/ WorkerEncoded \/ WorkerHandshake \/ PollEvents \/
           DeadlinePasses \/ BeginDisplayFrame \/ PublishFrame \/ FinishDisplayFrame \/
           AwaitSubmission \/ LeaveLoop \/ AskForTeardown \/ CheckStop \/ FallAsleep \/
           Frames \/ ExitRequested \/ StopAurora \/ ShutdownBegins \/ FrameWorkerQuiet
           \/ UnregisterProvider \/ RaiseStop \/ NotifyStop \/ JoinPacingThread \/
           Terminated
    <2>1. UNCHANGED <<bridge, sub>>
      BY <1>0 DEF WorkerTakesJob, LookUpProvider, ClaimPacket, WorkerSeals, LookUpSink,
         WorkerEncoded, WorkerHandshake, PollEvents, DeadlinePasses, BeginDisplayFrame,
         PublishFrame, FinishDisplayFrame, AwaitSubmission, LeaveLoop, AskForTeardown,
         CheckStop, FallAsleep, Frames, ExitRequested, StopAurora, ShutdownBegins,
         FrameWorkerQuiet, UnregisterProvider, RaiseStop, NotifyStop, JoinPacingThread,
         Terminated, vars, xrVars, DeadlinePassed
    <2> QED
      BY <2>1
  <1>1. CASE Encode
    <2>1. CASE bridge' = [bridge EXCEPT !.encoded = TRUE] /\ UNCHANGED sub
      BY <1>1, <2>1 DEF Encode, StereoPlaced
    <2>2. CASE bridge.token = stereo.token /\ Publish(bridge.token, FALSE) /\ bridge' = Cleared
      <3>1. bridge.token = sub.awaiting /\ bridge.token # None
        BY <1>1, <2>2 DEF Encode, StereoPlaced
      <3>2. sub' = [sub EXCEPT !.arrived = TRUE, !.success = FALSE]
        BY <2>2, <3>1 DEF Publish
      <3> QED
        BY <2>2, <3>1, <3>2 DEF Cleared
    <2>3. CASE UNCHANGED <<bridge, sub>>
      BY <2>3
    <2> QED
      BY <1>1, <2>1, <2>2, <2>3 DEF Encode
  <1>2. CASE Submitted
    <2>1. CASE UNCHANGED <<bridge, sub>>
      BY <2>1
    <2>2. CASE ~UNCHANGED <<bridge, sub>>
      <3>1. /\ bridge.token # None /\ bridge.token = sub.awaiting
            /\ ~bridge'.encoded /\ bridge'.token = None
        BY <1>2, <2>2, SubmittedEffect
      <3>2. sub'.arrived /\ sub'.awaiting = sub.awaiting
        BY <1>2, <2>2, <3>1, SubmittedEffect, PublishEffect
      <3> QED
        BY <3>1, <3>2
    <2> QED
      BY <2>1, <2>2
  <1>3. CASE ServicePending("service", "begin")
    BY <1>3 DEF ServicePending, Withdrawn, Commits, Idle, Breaks, Released, NoImages,
       Goto, fwVars
  <1>4. CASE ServicePending("harvest", "submit")
    BY <1>4 DEF ServicePending, Withdrawn, Commits, Idle, Breaks, Released, NoImages,
       Goto, fwVars
  <1>5. CASE TryCancelPendingFrame
    <2>1. CASE bridge' = Cleared /\ sub' = Idle
      BY <2>1 DEF Cleared, Idle
    <2>2. CASE UNCHANGED <<bridge, sub>>
      BY <2>2
    <2> QED
      BY <1>5, <2>1, <2>2, CancelEffect
  <1>6. CASE RecheckSubmission
    BY <1>6 DEF RecheckSubmission, Commits, Idle, Breaks, Released, NoImages, Goto,
       fwVars
  <1>7. CASE SubmitOrRepeat
    <2>1. \/ /\ UNCHANGED <<bridge, sub, image, delivery>>
             /\ pace'.at = "poll" \/ (pace'.at = "finish" /\ delivery.pending # None)
          \/ UNCHANGED <<bridge, sub, image>> /\ delivery' = NoImages /\ pace'.at = "leave"
          \/ SubmitsJob
      BY <1>7, SubmitEffect
    <2>2. CASE SubmitsJob
      BY <1>7, <2>2 DEF SubmitsJob, SubmitOrRepeat, Idle
    <2>3. CASE ~SubmitsJob
      BY <1>7, <2>1, <2>3 DEF SubmitOrRepeat, NoImages
    <2> QED
      BY <2>2, <2>3
  <1>8. CASE FinishFrame
    <2>1. CASE UNCHANGED sub
      BY <1>8, <2>1 DEF FinishFrame
    <2>2. CASE sub' = Idle
      BY <1>8, <2>2 DEF FinishFrame, SynchronousLoop, Idle
    <2> QED
      BY <1>8, <2>1, <2>2 DEF FinishFrame
  <1>9. CASE UnhookSink
    BY <1>9 DEF UnhookSink, Goto, fwVars
  <1>10. CASE DrainBridge
    <2>1. /\ bridge'.token = None /\ ~bridge'.encoded
          /\ IF bridge.token # None THEN Publish(bridge.token, FALSE) ELSE sub' = sub
      BY <1>10, DrainEffect
    <2>2. CASE bridge.token = None
      BY <2>1, <2>2
    <2>3. CASE bridge.token # None
      <3>1. bridge.token = sub.awaiting /\ Publish(bridge.token, FALSE)
        BY <2>1, <2>3
      <3>2. sub'.arrived /\ ~sub'.success /\ sub'.awaiting = sub.awaiting
        BY <3>1, PublishEffect
      <3> QED
        BY <2>1, <2>3, <3>1, <3>2
    <2> QED
      BY <2>2, <2>3
  <1> QED
    BY <1>0, <1>1, <1>2, <1>3, <1>4, <1>5, <1>6, <1>7, <1>8, <1>9, <1>10 DEF Next,
       FrameWorkerStep, PacingStep, ShutdownStep

\* FrameDelivery and the backend agree on the job.
LEMMA AgreeStep == XrInv /\ FWInv /\ FWInv' /\ TypeOK' /\ Next => JobAgreed'
  <1> SUFFICES ASSUME XrInv, FWInv, FWInv', TypeOK', Next PROVE JobAgreed'
    OBVIOUS
  <1> USE NoneAssumption DEF XrInv, TypeOK, TargetExpected, JobAgreed, InLoop, LeavePlaces, Paces,
                             Bridges, Submissions, Images, Deliveries
  <1>0. CASE WorkerTakesJob \/ LookUpProvider \/ ClaimPacket \/ WorkerSeals \/
           LookUpSink \/ WorkerEncoded \/ WorkerHandshake \/ Frames \/ ExitRequested \/
           StopAurora \/ ShutdownBegins \/ FrameWorkerQuiet \/ UnregisterProvider \/
           RaiseStop \/ Terminated
    <2>1. UNCHANGED <<sub, delivery, image, pace>>
      BY <1>0 DEF WorkerTakesJob, LookUpProvider, ClaimPacket, WorkerSeals, LookUpSink,
         WorkerEncoded, WorkerHandshake, Frames, ExitRequested, StopAurora,
         ShutdownBegins, FrameWorkerQuiet, UnregisterProvider, RaiseStop, Terminated,
         vars, xrVars
    <2> QED
      BY <2>1
  <1>1. CASE Encode
    <2>1. UNCHANGED <<image, delivery, pace>> /\ sub'.awaiting = sub.awaiting
      BY <1>1, EncodeEffect, PublishEffect
    <2> QED
      BY <2>1
  <1>2. CASE Submitted
    <2>1. UNCHANGED <<pace, delivery>> /\ sub'.awaiting = sub.awaiting
      BY <1>2, SubmittedEffect, PublishEffect
    <2>2. image'.held = image.held /\ image'.forbidden = image.forbidden
      BY <1>2, SubmittedEffect
    <2> QED
      BY <2>1, <2>2
  <1>3. CASE PollEvents
    BY <1>3, PollEffect DEF NoImages, PollEvents
  <1>4. CASE DeadlinePasses
    BY <1>4, DeadlineEffect
  <1>5. CASE ServicePending("service", "begin")
    BY <1>5 DEF ServicePending, Withdrawn, Commits, Idle, Breaks, Released, NoImages,
       Goto, fwVars
  <1>6. CASE ServicePending("harvest", "submit")
    BY <1>6 DEF ServicePending, Withdrawn, Commits, Idle, Breaks, Released, NoImages,
       Goto, fwVars
  <1>7. CASE TryCancelPendingFrame
    BY <1>7, CancelEffect DEF Cleared, Idle, NoImages, Released
  <1>8. CASE RecheckSubmission
    BY <1>8 DEF RecheckSubmission, Commits, Idle, Breaks, Released, NoImages, Goto,
       fwVars
  <1>9. CASE BeginDisplayFrame
    <2>1. pace.at = "begin"
      BY <1>9 DEF BeginDisplayFrame
    <2>2. CASE delivery' = NoImages /\ pace'.at = "leave"
      BY <2>2
    <2>3. CASE delivery'.pending = delivery.pending /\ pace'.at \in {"poll", "harvest", "submit"}
      <3>1. UNCHANGED sub /\ image'.held = image.held /\ image'.forbidden = image.forbidden
        BY <1>9, BeginEffect
      <3> QED
        BY <2>1, <2>3, <3>1
    <2> QED
      BY <1>9, <2>2, <2>3, BeginEffect
  <1>10. CASE SubmitOrRepeat
    <2>1. \/ /\ UNCHANGED <<bridge, sub, image, delivery>>
             /\ pace'.at = "poll" \/ (pace'.at = "finish" /\ delivery.pending # None)
          \/ UNCHANGED <<bridge, sub, image>> /\ delivery' = NoImages /\ pace'.at = "leave"
          \/ SubmitsJob
      BY <1>10, SubmitEffect
    <2>2. CASE SubmitsJob
      BY <1>10, <2>2, SubmitsEffect DEF SubmitOrRepeat
    <2>3. CASE ~SubmitsJob
      BY <1>10, <2>1, <2>3 DEF SubmitOrRepeat, NoImages
    <2> QED
      BY <2>2, <2>3
  <1>11. CASE PublishFrame
    BY <1>11 DEF PublishFrame, Goto, fwVars
  <1>12. CASE FinishDisplayFrame
    BY <1>12 DEF FinishDisplayFrame, Breaks, NoImages, Again, fwVars
  <1>13. CASE AwaitSubmission
    BY <1>13 DEF AwaitSubmission, Withdrawn, Breaks, NoImages, Goto, fwVars
  <1>14. CASE FinishFrame
    BY <1>14 DEF FinishFrame, Idle, Breaks, Abandoned, Released, NoImages, Again, fwVars
  <1>15. CASE LeaveLoop
    BY <1>15 DEF LeaveLoop, Withdrawn, Goto, fwVars
  <1>16. CASE AskForTeardown
    BY <1>16 DEF AskForTeardown, Goto, fwVars
  <1>17. CASE CheckStop
    BY <1>17 DEF CheckStop, Goto, fwVars
  <1>18. CASE FallAsleep
    BY <1>18 DEF FallAsleep, Goto, fwVars
  <1>19. CASE UnhookSink
    BY <1>19 DEF UnhookSink, Goto, fwVars
  <1>20. CASE DrainBridge
    BY <1>20 DEF DrainBridge, Cleared, Publish, Abandoned, Goto, fwVars
  <1>21. CASE NotifyStop
    BY <1>21 DEF NotifyStop, Goto, ShutdownGoes, fwVars
  <1>22. CASE JoinPacingThread
    BY <1>22 DEF JoinPacingThread, Goto, ShutdownGoes, fwVars
  <1> QED
    BY <1>0, <1>1, <1>2, <1>3, <1>4, <1>5, <1>6, <1>7, <1>8, <1>9, <1>10, <1>11, <1>12,
       <1>13, <1>14, <1>15, <1>16, <1>17, <1>18, <1>19, <1>20, <1>21, <1>22 DEF Next,
       FrameWorkerStep, PacingStep, ShutdownStep

\* An unfenced copy is an answered failure until the loop ends.
LEMMA UnfencedStep == XrInv /\ FWInv /\ FWInv' /\ TypeOK' /\ Next => UnfencedEndsLoop'
  <1> SUFFICES ASSUME XrInv, FWInv, FWInv', TypeOK', Next PROVE UnfencedEndsLoop'
    OBVIOUS
  <1> USE NoneAssumption DEF XrInv, TypeOK, TargetExpected, UnfencedEndsLoop, JobAgreed, InLoop,
                             LeavePlaces, Paces, Bridges, Submissions
  <1>0. CASE WorkerTakesJob \/ LookUpProvider \/ ClaimPacket \/ WorkerSeals \/
           LookUpSink \/ WorkerEncoded \/ WorkerHandshake \/ Frames \/ ExitRequested \/
           StopAurora \/ ShutdownBegins \/ FrameWorkerQuiet \/ UnregisterProvider \/
           RaiseStop \/ Terminated
    <2>1. UNCHANGED <<bridge, sub, pace>>
      BY <1>0 DEF WorkerTakesJob, LookUpProvider, ClaimPacket, WorkerSeals, LookUpSink,
         WorkerEncoded, WorkerHandshake, Frames, ExitRequested, StopAurora,
         ShutdownBegins, FrameWorkerQuiet, UnregisterProvider, RaiseStop, Terminated,
         vars, xrVars
    <2> QED
      BY <2>1
  <1>1. CASE Encode
    <2>1. UNCHANGED pace /\ bridge'.unfenced = bridge.unfenced
      BY <1>1, EncodeEffect
    <2>2. CASE UNCHANGED sub
      BY <2>1, <2>2
    <2>3. CASE Publish(bridge.token, FALSE)
      <3>1. sub' = sub \/ (sub'.arrived /\ ~sub'.success)
        BY <2>3, PublishEffect
      <3> QED
        BY <2>1, <3>1
    <2> QED
      BY <1>1, <2>2, <2>3, EncodeEffect
  <1>2. CASE Submitted
    <2>1. UNCHANGED pace
      BY <1>2, SubmittedEffect
    <2>2. CASE UNCHANGED <<bridge, sub, image>>
      BY <2>1, <2>2
    <2>3. ASSUME bridge.encoded, NEW fenced \in BOOLEAN, Publish(bridge.token, fenced),
                 bridge'.unfenced => bridge.unfenced \/ ~fenced
          PROVE  UnfencedEndsLoop'
      <3>1. bridge.token # None /\ bridge.token = sub.awaiting /\ ~sub.arrived
        BY <2>3
      <3>2. sub'.arrived /\ sub'.success = fenced
        BY <2>3, <3>1, PublishEffect
      <3>3. InLoop => ~bridge.unfenced
        BY <3>1
      <3> QED
        BY <2>1, <2>3, <3>2, <3>3
    <2> QED
      BY <1>2, <2>2, <2>3, SubmittedEffect
  <1>3. CASE PollEvents
    BY <1>3, PollEffect DEF NoImages, PollEvents
  <1>4. CASE DeadlinePasses
    BY <1>4 DEF DeadlinePasses, DeadlinePassed, Withdrawn, fwVars
  <1>5. CASE ServicePending("service", "begin")
    BY <1>5 DEF ServicePending, Withdrawn, Commits, Idle, Breaks, Released, NoImages,
       Goto, fwVars
  <1>6. CASE ServicePending("harvest", "submit")
    BY <1>6 DEF ServicePending, Withdrawn, Commits, Idle, Breaks, Released, NoImages,
       Goto, fwVars
  <1>7. CASE TryCancelPendingFrame
    BY <1>7, CancelEffect DEF Cleared, Idle, NoImages, Released
  <1>8. CASE RecheckSubmission
    BY <1>8 DEF RecheckSubmission, Commits, Idle, Breaks, Released, NoImages, Goto,
       fwVars
  <1>9. CASE BeginDisplayFrame
    BY <1>9, BeginEffect DEF NoImages, BeginDisplayFrame
  <1>10. CASE SubmitOrRepeat
    <2>1. \/ /\ UNCHANGED <<bridge, sub, image, delivery>>
             /\ pace'.at = "poll" \/ (pace'.at = "finish" /\ delivery.pending # None)
          \/ UNCHANGED <<bridge, sub, image>> /\ delivery' = NoImages /\ pace'.at = "leave"
          \/ SubmitsJob
      BY <1>10, SubmitEffect
    <2>2. CASE SubmitsJob
      BY <1>10, <2>2 DEF SubmitsJob, SubmitOrRepeat, Idle
    <2>3. CASE ~SubmitsJob
      BY <1>10, <2>1, <2>3 DEF SubmitOrRepeat, NoImages
    <2> QED
      BY <2>2, <2>3
  <1>11. CASE PublishFrame
    BY <1>11 DEF PublishFrame, Goto, fwVars
  <1>12. CASE FinishDisplayFrame
    BY <1>12 DEF FinishDisplayFrame, Breaks, NoImages, Again, fwVars
  <1>13. CASE AwaitSubmission
    BY <1>13 DEF AwaitSubmission, Withdrawn, Breaks, NoImages, Goto, fwVars
  <1>14. CASE FinishFrame
    BY <1>14 DEF FinishFrame, Idle, Breaks, Abandoned, Released, NoImages, Again, fwVars
  <1>15. CASE LeaveLoop
    BY <1>15 DEF LeaveLoop, Withdrawn, Goto, fwVars
  <1>16. CASE AskForTeardown
    BY <1>16 DEF AskForTeardown, Goto, fwVars
  <1>17. CASE CheckStop
    BY <1>17 DEF CheckStop, Goto, fwVars
  <1>18. CASE FallAsleep
    BY <1>18 DEF FallAsleep, Goto, fwVars
  <1>19. CASE UnhookSink
    BY <1>19 DEF UnhookSink, Goto, fwVars
  <1>20. CASE DrainBridge
    BY <1>20 DEF DrainBridge, Cleared, Publish, Abandoned, Goto, fwVars
  <1>21. CASE NotifyStop
    BY <1>21 DEF NotifyStop, Goto, ShutdownGoes, fwVars
  <1>22. CASE JoinPacingThread
    BY <1>22 DEF JoinPacingThread, Goto, ShutdownGoes, fwVars
  <1> QED
    BY <1>0, <1>1, <1>2, <1>3, <1>4, <1>5, <1>6, <1>7, <1>8, <1>9, <1>10, <1>11, <1>12,
       <1>13, <1>14, <1>15, <1>16, <1>17, <1>18, <1>19, <1>20, <1>21, <1>22 DEF Next,
       FrameWorkerStep, PacingStep, ShutdownStep

\* An image that may be written stays acquired.
LEMMA HeldStep == XrInv /\ FWInv /\ FWInv' /\ TypeOK' /\ Next => ImageHeldWhileWritable'
  <1> SUFFICES ASSUME XrInv, FWInv, FWInv', TypeOK', Next PROVE ImageHeldWhileWritable'
    OBVIOUS
  <1> USE NoneAssumption DEF XrInv, TypeOK, TargetExpected, UnfencedEndsLoop, JobAgreed,
                             ImageHeldWhileWritable, InLoop, LeavePlaces, Bridges, Submissions,
                             Images
  <1>0. CASE WorkerTakesJob \/ LookUpProvider \/ ClaimPacket \/ WorkerSeals \/
           LookUpSink \/ WorkerEncoded \/ WorkerHandshake \/ DeadlinePasses \/
           PublishFrame \/ FinishDisplayFrame \/ AwaitSubmission \/ LeaveLoop \/
           AskForTeardown \/ CheckStop \/ FallAsleep \/ Frames \/ ExitRequested \/
           StopAurora \/ ShutdownBegins \/ FrameWorkerQuiet \/ UnregisterProvider \/
           RaiseStop \/ NotifyStop \/ JoinPacingThread \/ Terminated
    <2>1. UNCHANGED <<bridge, image>>
      BY <1>0 DEF WorkerTakesJob, LookUpProvider, ClaimPacket, WorkerSeals, LookUpSink,
         WorkerEncoded, WorkerHandshake, DeadlinePasses, PublishFrame,
         FinishDisplayFrame, AwaitSubmission, LeaveLoop, AskForTeardown, CheckStop,
         FallAsleep, Frames, ExitRequested, StopAurora, ShutdownBegins,
         FrameWorkerQuiet, UnregisterProvider, RaiseStop, NotifyStop, JoinPacingThread,
         Terminated, vars, xrVars, DeadlinePassed
    <2> QED
      BY <2>1
  <1>1. CASE Encode
    BY <1>1 DEF Encode, Cleared, StereoOver, Publish, fwVars
  <1>2. CASE Submitted
    <2>1. image'.held = image.held
      BY <1>2, SubmittedEffect
    <2>2. bridge'.token # None \/ bridge'.unfenced => bridge.token # None \/ bridge.unfenced
      BY <1>2, SubmittedEffect
    <2> QED
      BY <2>1, <2>2
  <1>3. CASE PollEvents
    BY <1>3, PollEffect DEF NoImages, PollEvents
  <1>4. CASE ServicePending("service", "begin")
    BY <1>4 DEF ServicePending, Withdrawn, Commits, Idle, Breaks, Released, NoImages,
       Goto, fwVars
  <1>5. CASE ServicePending("harvest", "submit")
    BY <1>5 DEF ServicePending, Withdrawn, Commits, Idle, Breaks, Released, NoImages,
       Goto, fwVars
  <1>6. CASE TryCancelPendingFrame
    BY <1>6, CancelEffect DEF Cleared, Idle, NoImages, Released
  <1>7. CASE RecheckSubmission
    BY <1>7 DEF RecheckSubmission, Commits, Idle, Breaks, Released, NoImages, Goto,
       fwVars
  <1>8. CASE BeginDisplayFrame
    BY <1>8, BeginEffect DEF NoImages, BeginDisplayFrame
  <1>9. CASE SubmitOrRepeat
    <2>1. \/ /\ UNCHANGED <<bridge, sub, image, delivery>>
             /\ pace'.at = "poll" \/ (pace'.at = "finish" /\ delivery.pending # None)
          \/ UNCHANGED <<bridge, sub, image>> /\ delivery' = NoImages /\ pace'.at = "leave"
          \/ SubmitsJob
      BY <1>9, SubmitEffect
    <2>2. CASE SubmitsJob
      BY <1>9, <2>2 DEF SubmitsJob, SubmitOrRepeat, Idle
    <2>3. CASE ~SubmitsJob
      BY <1>9, <2>1, <2>3 DEF SubmitOrRepeat, NoImages
    <2> QED
      BY <2>2, <2>3
  <1>10. CASE FinishFrame
    BY <1>10 DEF FinishFrame, Idle, Breaks, Abandoned, Released, NoImages, Again, fwVars
  <1>11. CASE UnhookSink
    BY <1>11 DEF UnhookSink, Goto, fwVars
  <1>12. CASE DrainBridge
    BY <1>12, DrainEffect
  <1> QED
    BY <1>0, <1>1, <1>2, <1>3, <1>4, <1>5, <1>6, <1>7, <1>8, <1>9, <1>10, <1>11, <1>12
       DEF Next, FrameWorkerStep, PacingStep, ShutdownStep

\* The synchronous loop waits for its answer.
LEMMA SyncStep == XrInv /\ FWInv /\ FWInv' /\ TypeOK' /\ Next => SynchronousLoop'
  <1> SUFFICES ASSUME XrInv, FWInv, FWInv', TypeOK', Next PROVE SynchronousLoop'
    OBVIOUS
  <1> USE NoneAssumption DEF XrInv, TypeOK, SynchronousLoop, TargetExpected, XrStates, Paces,
                             Deliveries, Submissions
  <1>0. CASE WorkerTakesJob \/ LookUpProvider \/ ClaimPacket \/ WorkerSeals \/
           LookUpSink \/ WorkerEncoded \/ WorkerHandshake \/ Frames \/ ExitRequested \/
           StopAurora \/ ShutdownBegins \/ FrameWorkerQuiet \/ UnregisterProvider \/
           RaiseStop \/ Terminated
    <2>1. UNCHANGED <<xr, pace, delivery, sub>>
      BY <1>0 DEF WorkerTakesJob, LookUpProvider, ClaimPacket, WorkerSeals, LookUpSink,
         WorkerEncoded, WorkerHandshake, Frames, ExitRequested, StopAurora,
         ShutdownBegins, FrameWorkerQuiet, UnregisterProvider, RaiseStop, Terminated,
         vars, xrVars
    <2> QED
      BY <2>1
  <1>1. CASE Encode
    BY <1>1 DEF Encode, Cleared, StereoOver, Publish, fwVars
  <1>2. CASE Submitted
    BY <1>2 DEF Submitted, Cleared, StereoOver, Publish, fwVars
  <1>3. CASE PollEvents
    BY <1>3, PollEffect DEF NoImages, PollEvents
  <1>4. CASE DeadlinePasses
    BY <1>4 DEF DeadlinePasses, DeadlinePassed, Withdrawn, fwVars
  <1>5. CASE ServicePending("service", "begin")
    BY <1>5 DEF ServicePending, Withdrawn, Commits, Idle, Breaks, Released, NoImages,
       Goto, fwVars
  <1>6. CASE ServicePending("harvest", "submit")
    BY <1>6 DEF ServicePending, Withdrawn, Commits, Idle, Breaks, Released, NoImages,
       Goto, fwVars
  <1>7. CASE TryCancelPendingFrame
    BY <1>7, CancelEffect DEF Cleared, Idle, NoImages, Released
  <1>8. CASE RecheckSubmission
    BY <1>8 DEF RecheckSubmission, Commits, Idle, Breaks, Released, NoImages, Goto,
       fwVars
  <1>9. CASE BeginDisplayFrame
    BY <1>9, BeginEffect DEF NoImages, BeginDisplayFrame
  <1>10. CASE SubmitOrRepeat
    <2>1. \/ /\ UNCHANGED <<bridge, sub, image, delivery>>
             /\ pace'.at = "poll" \/ (pace'.at = "finish" /\ delivery.pending # None)
          \/ UNCHANGED <<bridge, sub, image>> /\ delivery' = NoImages /\ pace'.at = "leave"
          \/ SubmitsJob
      BY <1>10, SubmitEffect
    <2>2. CASE SubmitsJob
      BY <1>10, <2>2 DEF SubmitsJob, SubmitOrRepeat, Idle
    <2>3. CASE ~SubmitsJob
      BY <1>10, <2>1, <2>3 DEF SubmitOrRepeat, NoImages
    <2> QED
      BY <2>2, <2>3
  <1>11. CASE PublishFrame
    BY <1>11 DEF PublishFrame, Goto, fwVars
  <1>12. CASE FinishDisplayFrame
    BY <1>12 DEF FinishDisplayFrame, Breaks, NoImages, Again, fwVars
  <1>13. CASE AwaitSubmission
    BY <1>13 DEF AwaitSubmission, Withdrawn, Breaks, NoImages, Goto, fwVars
  <1>14. CASE FinishFrame
    BY <1>14 DEF FinishFrame, Idle, Breaks, Abandoned, Released, NoImages, Again, fwVars
  <1>15. CASE LeaveLoop
    BY <1>15 DEF LeaveLoop, Withdrawn, Goto, fwVars
  <1>16. CASE AskForTeardown
    BY <1>16 DEF AskForTeardown, Goto, fwVars
  <1>17. CASE CheckStop
    BY <1>17 DEF CheckStop, Goto, fwVars
  <1>18. CASE FallAsleep
    BY <1>18 DEF FallAsleep, Goto, fwVars
  <1>19. CASE UnhookSink
    BY <1>19 DEF UnhookSink, Goto, fwVars
  <1>20. CASE DrainBridge
    BY <1>20 DEF DrainBridge, Cleared, Publish, Abandoned, Goto, fwVars
  <1>21. CASE NotifyStop
    BY <1>21 DEF NotifyStop, Goto, ShutdownGoes, fwVars
  <1>22. CASE JoinPacingThread
    BY <1>22 DEF JoinPacingThread, Goto, ShutdownGoes, fwVars
  <1> QED
    BY <1>0, <1>1, <1>2, <1>3, <1>4, <1>5, <1>6, <1>7, <1>8, <1>9, <1>10, <1>11, <1>12,
       <1>13, <1>14, <1>15, <1>16, <1>17, <1>18, <1>19, <1>20, <1>21, <1>22 DEF Next,
       FrameWorkerStep, PacingStep, ShutdownStep

\* A successful job's image was drawn for it.
LEMMA DrawnStep == XrInv /\ FWInv /\ FWInv' /\ TypeOK' /\ Next => DrawnForJob'
  <1> SUFFICES ASSUME XrInv, FWInv, FWInv', TypeOK', Next PROVE DrawnForJob'
    OBVIOUS
  <1> USE NoneAssumption DEF XrInv, TypeOK, TargetExpected, JobAgreed, DrawnForJob, InLoop,
                             LeavePlaces, Paces, Bridges, Submissions, Images, Deliveries, Stereos
  <1>0. CASE WorkerSeals \/ WorkerHandshake \/ Frames \/ ExitRequested \/ StopAurora \/
           ShutdownBegins \/ FrameWorkerQuiet \/ UnregisterProvider \/ RaiseStop \/
           Terminated
    <2>1. UNCHANGED <<stereo, pace, delivery, sub, image>>
      BY <1>0 DEF WorkerSeals, WorkerHandshake, Frames, ExitRequested, StopAurora,
         ShutdownBegins, FrameWorkerQuiet, UnregisterProvider, RaiseStop, Terminated,
         vars, xrVars
    <2> QED
      BY <2>1
  <1>1. CASE WorkerTakesJob
    BY <1>1 DEF WorkerTakesJob, TakeJob
  <1>2. CASE LookUpProvider
    BY <1>2 DEF LookUpProvider, fwVars
  <1>3. CASE ClaimPacket
    BY <1>3 DEF ClaimPacket, Accepted, Fits, fwVars
  <1>4. CASE LookUpSink
    BY <1>4 DEF LookUpSink, StereoOver, fwVars
  <1>5. CASE Encode
    <2>1. UNCHANGED <<pace, delivery, image>>
      BY <1>5, EncodeEffect
    <2>2. sub' = sub \/ sub'.success = FALSE
      BY <1>5, EncodeEffect, PublishEffect
    <2>3. stereo' = StereoOver \/ stereo' = [stereo EXCEPT !.at = "submit"]
      BY <1>5 DEF Encode
    <2>4. stereo'.token # None => stereo'.fits
      BY <2>3 DEF StereoOver
    <2> QED
      BY <2>1, <2>2, <2>4
  <1>6. CASE Submitted
    <2>1. stereo'.token = None
      BY <1>6 DEF Submitted, StereoOver
    <2>2. UNCHANGED <<pace, delivery>> /\ image'.latestOwn = image.latestOwn
      BY <1>6 DEF Submitted
    <2>3. sub'.success => image'.drawn = [token |-> sub'.awaiting, fits |-> TRUE] \/ ~InLoop
      <3>1. CASE ~bridge.encoded \/ bridge.token # stereo.token
        BY <1>6, <3>1 DEF Submitted
      <3>2. CASE bridge.encoded /\ bridge.token = stereo.token
        <4>1. stereo.token = sub.awaiting /\ stereo.token # None /\ stereo.fits = TRUE
          BY <3>2
        <4>2. PICK queued, fenced \in BOOLEAN :
                 /\ fenced => queued
                 /\ Publish(bridge.token, fenced)
                 /\ image' = IF queued
                             THEN [image EXCEPT !.drawn = [token |-> stereo.token,
                                                           fits |-> stereo.fits]]
                             ELSE image
          BY <1>6, <3>2 DEF Submitted
        <4>3. sub' = [sub EXCEPT !.arrived = TRUE, !.success = fenced]
          BY <3>2, <4>1, <4>2 DEF Publish
        <4> QED
          BY <4>1, <4>2, <4>3
      <3> QED
        BY <3>1, <3>2
    <2> QED
      BY <2>1, <2>2, <2>3
  <1>7. CASE WorkerEncoded
    BY <1>7 DEF WorkerEncoded, EncodedInline, EncodedOverlapped, CycleOver
  <1>8. CASE PollEvents
    BY <1>8, PollEffect DEF NoImages, PollEvents
  <1>9. CASE DeadlinePasses
    BY <1>9 DEF DeadlinePasses, DeadlinePassed, Withdrawn, fwVars
  <1>10. CASE ServicePending("service", "begin")
    <2>1. UNCHANGED stereo
      BY <1>10 DEF ServicePending
    <2>2. CASE UNCHANGED <<sub, image, delivery>>
      <3>1. pace.at \in {"service", "harvest", "recheck"} /\ pace'.at # "publish"
        BY <1>10, <2>2 DEF ServicePending, Commits, Breaks, Goto
      <3> QED
        BY <2>1, <2>2, <3>1
    <2>3. CASE Breaks /\ UNCHANGED image
      BY <2>1, <2>3 DEF Breaks, NoImages
    <2>4. CASE sub.success /\ Commits("begin")
      <3>1. Released.latestOwn
        BY <1>10, <2>4, ReleasedOwn DEF ServicePending
      <3>2. pace.at # "publish"
        BY <1>10 DEF ServicePending
      <3> QED
        BY <2>1, <2>4, <3>1, <3>2 DEF Commits, Breaks, Goto, NoImages, Idle
    <2> QED
      BY <1>10, <2>2, <2>3, <2>4 DEF ServicePending, Commits
  <1>11. CASE ServicePending("harvest", "submit")
    <2>1. UNCHANGED stereo
      BY <1>11 DEF ServicePending
    <2>2. CASE UNCHANGED <<sub, image, delivery>>
      <3>1. pace.at \in {"service", "harvest", "recheck"} /\ pace'.at # "publish"
        BY <1>11, <2>2 DEF ServicePending, Commits, Breaks, Goto
      <3> QED
        BY <2>1, <2>2, <3>1
    <2>3. CASE Breaks /\ UNCHANGED image
      BY <2>1, <2>3 DEF Breaks, NoImages
    <2>4. CASE sub.success /\ Commits("submit")
      <3>1. Released.latestOwn
        BY <1>11, <2>4, ReleasedOwn DEF ServicePending
      <3>2. pace.at # "publish"
        BY <1>11 DEF ServicePending
      <3> QED
        BY <2>1, <2>4, <3>1, <3>2 DEF Commits, Breaks, Goto, NoImages, Idle
    <2> QED
      BY <1>11, <2>2, <2>3, <2>4 DEF ServicePending, Commits
  <1>12. CASE TryCancelPendingFrame
    BY <1>12, CancelEffect DEF Cleared, Idle, NoImages, Released
  <1>13. CASE RecheckSubmission
    <2>1. UNCHANGED stereo
      BY <1>13 DEF RecheckSubmission
    <2>2. CASE UNCHANGED <<sub, image, delivery>>
      <3>1. pace.at \in {"service", "harvest", "recheck"} /\ pace'.at # "publish"
        BY <1>13, <2>2 DEF RecheckSubmission, Commits, Breaks, Goto
      <3> QED
        BY <2>1, <2>2, <3>1
    <2>3. CASE Breaks /\ UNCHANGED image
      BY <2>1, <2>3 DEF Breaks, NoImages
    <2>4. CASE sub.success /\ Commits(pace.back)
      <3>1. Released.latestOwn
        BY <1>13, <2>4, ReleasedOwn DEF RecheckSubmission
      <3>2. pace.at # "publish"
        BY <1>13 DEF RecheckSubmission
      <3> QED
        BY <2>1, <2>4, <3>1, <3>2 DEF Commits, Breaks, Goto, NoImages, Idle
    <2> QED
      BY <1>13, <2>2, <2>3, <2>4 DEF RecheckSubmission, Commits
  <1>14. CASE BeginDisplayFrame
    <2>1. pace.at = "begin"
      BY <1>14 DEF BeginDisplayFrame
    <2>2. CASE delivery' = NoImages /\ pace'.at = "leave"
      BY <1>14, <2>2, BeginEffect DEF NoImages
    <2>3. CASE ~(delivery' = NoImages /\ pace'.at = "leave")
      BY <1>14, <2>1, <2>3, BeginEffect
    <2> QED
      BY <2>2, <2>3
  <1>15. CASE SubmitOrRepeat
    <2>1. \/ /\ UNCHANGED <<bridge, sub, image, delivery>>
             /\ pace'.at = "poll" \/ (pace'.at = "finish" /\ delivery.pending # None)
          \/ UNCHANGED <<bridge, sub, image>> /\ delivery' = NoImages /\ pace'.at = "leave"
          \/ SubmitsJob
      BY <1>15, SubmitEffect
    <2>2. CASE SubmitsJob
      BY <1>15, <2>2, SubmitsEffect DEF SubmitOrRepeat
    <2>3. CASE ~SubmitsJob
      BY <1>15, <2>1, <2>3 DEF SubmitOrRepeat, NoImages
    <2> QED
      BY <2>2, <2>3
  <1>16. CASE PublishFrame
    BY <1>16 DEF PublishFrame, Goto, fwVars
  <1>17. CASE FinishDisplayFrame
    BY <1>17 DEF FinishDisplayFrame, Breaks, NoImages, Again, fwVars
  <1>18. CASE AwaitSubmission
    BY <1>18 DEF AwaitSubmission, Withdrawn, Breaks, NoImages, Goto, fwVars
  <1>19. CASE FinishFrame
    BY <1>19 DEF FinishFrame, Idle, Breaks, Abandoned, Released, NoImages, Again, fwVars
  <1>20. CASE LeaveLoop
    BY <1>20 DEF LeaveLoop, Withdrawn, Goto, fwVars
  <1>21. CASE AskForTeardown
    BY <1>21 DEF AskForTeardown, Goto, fwVars
  <1>22. CASE CheckStop
    BY <1>22 DEF CheckStop, Goto, fwVars
  <1>23. CASE FallAsleep
    BY <1>23 DEF FallAsleep, Goto, fwVars
  <1>24. CASE UnhookSink
    BY <1>24 DEF UnhookSink, Goto, fwVars
  <1>25. CASE DrainBridge
    BY <1>25 DEF DrainBridge, Publish, Abandoned, Goto, NoImages
  <1>26. CASE NotifyStop
    BY <1>26 DEF NotifyStop, Goto, ShutdownGoes, fwVars
  <1>27. CASE JoinPacingThread
    BY <1>27 DEF JoinPacingThread, Goto, ShutdownGoes, fwVars
  <1> QED
    BY <1>0, <1>1, <1>2, <1>3, <1>4, <1>5, <1>6, <1>7, <1>8, <1>9, <1>10, <1>11, <1>12,
       <1>13, <1>14, <1>15, <1>16, <1>17, <1>18, <1>19, <1>20, <1>21, <1>22, <1>23,
       <1>24, <1>25, <1>26, <1>27 DEF Next, FrameWorkerStep, PacingStep, ShutdownStep

\* Every step of the presentation is a step of the frame worker, or none.
LEMMA NextIsFWNext == Next => [FWNext]_fwVars
  <1> SUFFICES ASSUME Next PROVE [FWNext]_fwVars
    OBVIOUS
  <1> USE DEF FWNext, WorkerStep, ProducerStep
  <1>1. CASE WorkerTakesJob
    BY <1>1 DEF WorkerTakesJob
  <1>2. CASE WorkerSeals
    BY <1>2 DEF WorkerSeals
  <1>3. CASE WorkerEncoded
    BY <1>3 DEF WorkerEncoded
  <1>4. CASE WorkerHandshake
    BY <1>4 DEF WorkerHandshake
  <1>5. CASE Frames
    BY <1>5 DEF Frames
  <1>6. CASE ExitRequested
    BY <1>6 DEF ExitRequested
  <1>7. CASE StopAurora
    BY <1>7 DEF StopAurora
  <1>8. CASE ShutdownBegins
    BY <1>8 DEF ShutdownBegins
  <1>9. CASE FrameWorkerQuiet
    BY <1>9 DEF FrameWorkerQuiet
  <1> QED
    BY <1>1, <1>2, <1>3, <1>4, <1>5, <1>6, <1>7, <1>8, <1>9 DEF Next, FrameWorkerStep,
       PacingStep, ShutdownStep, Terminated, vars, DeadlinePassed, LookUpProvider,
       ClaimPacket, LookUpSink, Encode, Submitted, PollEvents, DeadlinePasses,
       ServicePending, TryCancelPendingFrame, RecheckSubmission, BeginDisplayFrame,
       SubmitOrRepeat, PublishFrame, FinishDisplayFrame, AwaitSubmission, FinishFrame,
       LeaveLoop, AskForTeardown, CheckStop, FallAsleep, UnhookSink, DrainBridge,
       UnregisterProvider, RaiseStop, NotifyStop, JoinPacingThread

\* The presentation starts in the invariant.
LEMMA InitInv == Init => XrInv
  <1> SUFFICES ASSUME Init PROVE XrInv
    OBVIOUS
  <1>1. FWTypeOK /\ wpc = "idle" /\ fw.ready
    BY FWInitInv DEF Init, FWInv, FWInit
  <1>2. PICK async \in BOOLEAN : xr = [async |-> async, running |-> FALSE, seen |-> TRUE]
    BY DEF Init
  <1>3. xr \in XrStates
    BY <1>2 DEF XrStates
  <1>4. offer \in Offers /\ bridge \in Bridges /\ sub \in Submissions
    BY DEF Init, Offers, Bridges, Submissions, Idle
  <1>5. image \in Images /\ delivery \in Deliveries
    BY DEF Init, Images, Deliveries, NoImages
  <1>6. pace \in Paces /\ stereo \in Stereos /\ control \in Controls
    BY NoTagInTags DEF Init, Paces, PacePlaces, Stereos, StereoPlaces, Controls, DownPlaces
  <1>7. TypeOK
    BY <1>1, <1>3, <1>4, <1>5, <1>6 DEF TypeOK
  <1>8. StereoPlaced /\ TeardownOrdered /\ NothingUsedAfterTeardown
    BY <1>1 DEF Init, StereoPlaced, TeardownOrdered, NothingUsedAfterTeardown
  <1>9. TargetExpected /\ JobAgreed /\ UnfencedEndsLoop /\ ImageHeldWhileWritable
    BY DEF Init, Idle, NoImages, TargetExpected, JobAgreed, InLoop, LeavePlaces,
       UnfencedEndsLoop, ImageHeldWhileWritable
  <1>10. SynchronousLoop /\ DrawnForJob
    BY DEF Init, Idle, NoImages, SynchronousLoop, DrawnForJob
  <1> QED
    BY <1>7, <1>8, <1>9, <1>10 DEF XrInv

-----------------------------------------------------------------------------
(* The theorems.                                                           *)

\* Every step keeps the invariant.
LEMMA StepInv == XrInv /\ FWInv /\ [Next]_vars => XrInv'
  <1> SUFFICES ASSUME XrInv, FWInv, [Next]_vars PROVE XrInv'
    OBVIOUS
  <1>1. CASE UNCHANGED vars
    BY <1>1 DEF vars, xrVars, fwVars, XrInv, TypeOK, FWTypeOK, StereoPlaced, TeardownOrdered,
       NothingUsedAfterTeardown, TargetExpected, JobAgreed, InLoop, UnfencedEndsLoop,
       ImageHeldWhileWritable, SynchronousLoop, DrawnForJob
  <1>2. CASE Next
    <2>1. FWInv'
      BY <1>2, NextIsFWNext, FWStepInv
    <2>2. TypeOK'
      BY <1>2, <2>1, TypeStep DEF FWInv
    <2> QED
      BY <1>2, <2>1, <2>2, StereoStep, TeardownStep, UseStep, TargetStep, AgreeStep,
         UnfencedStep, HeldStep, SyncStep, DrawnStep DEF XrInv
  <1> QED
    BY <1>1, <1>2

\* The presentation leaves the frame worker's protocol alone: whatever the
\* pacing thread and Shutdown() do, what they do to Aurora's flags are steps of
\* FrameWorker (openxr_integration.cpp Shutdown calls aurora_quiesce_frame_worker
\* and nothing else of it).
THEOREM XrImplementsFrameWorker == Spec => FWSpec
  <1>1. Init => FWInit
    BY DEF Init
  <1>2. [Next]_vars => [FWNext]_fwVars
    BY NextIsFWNext DEF vars
  <1> QED
    BY <1>1, <1>2, PTL DEF Spec, FWSpec

\* Producer and worker never own the shared renderer state at the same time,
\* with the headset attached (aurora.cpp run_frame_worker_cycle, end_frame).
THEOREM XrHandshake == Spec => []HandshakeHonest
  BY XrImplementsFrameWorker, FWHandshake, PTL

\* The invariant holds throughout.
LEMMA XrInvariant == Spec => []XrInv
  <1>1. Spec => []FWInv
    BY XrImplementsFrameWorker, FWInitInv, FWStepInv, PTL DEF FWSpec
  <1> QED
    BY <1>1, InitInv, StepInv, PTL DEF Spec

\* The frame worker is out of the provider before Shutdown unregisters it, and
\* out of the bridge before the pacing thread destroys it.
THEOREM XrTeardown == Spec => []NothingUsedAfterTeardown
  <1>1. XrInv => NothingUsedAfterTeardown
    BY DEF XrInv
  <1> QED
    BY <1>1, XrInvariant, PTL

\* No submission, late, cancelled or failed, releases an image the bridge or
\* the GPU may still write (openxr_d3d12.cpp ReleaseAcquiredSwapchains).
THEOREM XrImageHeld == Spec => []ImageHeldWhileWritable
  <1>1. XrInv => ImageHeldWhileWritable
    BY DEF XrInv
  <1> QED
    BY <1>1, XrInvariant, PTL

\* A job the pacing thread waits for has been answered or is still with the
\* bridge (d3d12_interop.cpp PublishAndClearFrameLocked).
THEOREM XrNoOrphan == Spec => []NoOrphanedJob
  <1>1. XrInv => NoOrphanedJob
    BY DEF XrInv, TargetExpected, NoOrphanedJob
  <1> QED
    BY <1>1, XrInvariant, PTL

\* A displayed layer shows the image drawn for it, in this session run
\* (frame_delivery.h CanDisplay).
THEOREM XrShowsOwn == Spec => []ShowsOwnImage
  <1>1. ASSUME XrInv, pace.at = "finish", xr.async, CanDisplay
        PROVE  image.latestOwn /\ delivery.cached.current
    BY <1>1 DEF XrInv, DrawnForJob, CanDisplay
  <1>2. ASSUME XrInv, pace.at = "finish", sub.success
        PROVE  Released.latestOwn
    BY <1>2, ReleasedOwn DEF InLoop, LeavePlaces
  <1>3. XrInv => ShowsOwnImage
    BY <1>1, <1>2 DEF ShowsOwnImage
  <1> QED
    BY <1>3, XrInvariant, PTL
=============================================================================
