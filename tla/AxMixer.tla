------------------------------ MODULE AxMixer ------------------------------
(***************************************************************************)
(* Audio: the AX/DSP mailbox and its mix worker (runtime/src/hle/audio/     *)
(* ax_mix.cpp) under the AI DMA tick of audio.cpp, which delivers blocks,   *)
(* runs the guest's DMA callback and then the deferred resume callbacks.    *)
(*                                                                         *)
(* Two threads: the guest's, which sends command lists and joins the worker *)
(* before it touches anything a mix owns, and the worker, which runs a mix  *)
(* between m_mixPending and m_mixIdle.  Sample data are reduced to which     *)
(* mix a buffer holds; the mails the DSP sends back, volumes, voices and    *)
(* the DMA registers are left out.                                          *)
(***************************************************************************)
EXTENDS Naturals

CONSTANTS
    Bufs,               \* aux buffers in guest memory
    None,
    MaxMixes,           \* bound on the command lists of a behaviour
    MaxResume,          \* bound on queued resume callbacks
    MaxBacklog,         \* bound on completed, undelivered DMA blocks
    MaxBlocksPerTick    \* kMaxBlocksPerTick, 4 in the code

ASSUME BlocksAssumption == MaxBlocksPerTick \in Nat \ {0}
ASSUME BoundsAssumption == MaxMixes \in Nat /\ MaxResume \in Nat /\ MaxBacklog \in Nat
ASSUME BufsAssumption == Bufs # {}

VARIABLES
    guest,      \* where the guest's host thread is, and in which callback
    mail,       \* m_mailState
    enabled,    \* m_mixWorkerEnabled
    resume,     \* m_deferredResumeCallbacks
    ai,         \* AIDmaState
    worker,     \* the thread, and the handshake under m_mixMutex
    mix,        \* the mix last dispatched, and how far it is
    auxOut,     \* m_auxOut: the block a deferred mix wrote, not yet published
    aux,        \* the aux buffers in guest memory
    pcm         \* the AI frame in guest memory: whole, or being written

guestVars == <<guest, mail, enabled, resume, ai>>
mixVars == <<worker, mix, auxOut, aux, pcm>>
vars == <<guestVars, mixVars>>

\* A buffer holds the output of a mix, and the guest may have processed it.
Contents == [mix : 0..MaxMixes, processed : BOOLEAN]
\* A mix with one MIX_AUX command: it uploads to `to' and reads back `from'.
\* `input' is what it must read: the guest's memory when the mail arrived.
Mixes == [n : 0..MaxMixes, to : Bufs, from : Bufs, deferred : BOOLEAN,
          auxIn : Contents, input : Contents, read : Contents \cup {None},
          at : {"none", "aux", "output", "writing", "done"}]

Joiners == {"dispatch", "initialize", "stop", "configure", "push"}
Places == {"run", "join", "claim", "call", "service", "next", "end",
           "shutdown", "gone"} \cup Joiners

Guests == [at : Places, then : Joiners, level : {"main", "ai", "resume"},
           blocks : 0..MaxBlocksPerTick]
AIDmaStates == [enabled : BOOLEAN, callback : BOOLEAN, backlog : 0..MaxBacklog,
                active : BOOLEAN, depth : 0..2]
Workers == [alive : BOOLEAN, stop : BOOLEAN, pending : BOOLEAN, busy : BOOLEAN]
AuxBlocks == [addr : Bufs, mix : 0..MaxMixes]

TypeOK ==
    /\ guest \in Guests
    /\ mail \in {"size", "address", "next"}
    /\ enabled \in BOOLEAN
    /\ resume \in 0..MaxResume
    /\ ai \in AIDmaStates
    /\ worker \in Workers
    /\ mix \in Mixes
    /\ auxOut \in AuxBlocks \cup {None}
    /\ aux \in [Bufs -> Contents]
    /\ pcm \in {"whole", "torn"}

Raw(n) == [mix |-> n, processed |-> FALSE]
NoMix == [n |-> 0, to |-> CHOOSE b \in Bufs : TRUE, from |-> CHOOSE b \in Bufs : TRUE,
          deferred |-> FALSE, auxIn |-> Raw(0), input |-> Raw(0), read |-> None,
          at |-> "none"]
\* Nobody looks at the fields of a mix that is over, but for its number.
Over(m) == [NoMix EXCEPT !.n = m.n]

Init ==
    /\ guest = [at |-> "run", then |-> "push", level |-> "main", blocks |-> 0]
    /\ mail = "size"
    /\ enabled \in BOOLEAN
    /\ resume = 0
    /\ ai = [enabled |-> FALSE, callback |-> FALSE, backlog |-> 0,
             active |-> FALSE, depth |-> 0]
    /\ worker = [alive |-> FALSE, stop |-> FALSE, pending |-> FALSE, busy |-> FALSE]
    /\ mix = NoMix
    /\ auxOut = None
    /\ aux = [b \in Bufs |-> Raw(0)]
    /\ pcm = "whole"

----------------------------------------------------------------------------
\* The mix.  ExecuteCommandList runs on the worker, or inline.

\* WriteAuxOutBuffer: a deferred mix keeps off the guest's aux buffers.
WriteAuxOut(m) ==
    IF m.deferred
    THEN auxOut' = [addr |-> m.to, mix |-> m.n] /\ UNCHANGED aux
    ELSE aux' = [aux EXCEPT ![m.to] = Raw(m.n)] /\ UNCHANGED auxOut

\* ReadAuxInBuffer, after the write: this frame's own block first, then the
\* snapshot of a deferred mix, or else guest memory.
ReadAuxIn(m) ==
    IF m.from = m.to THEN Raw(m.n)
    ELSE IF m.deferred THEN m.auxIn ELSE aux[m.from]

\* MixAUXSamples on the worker, the command after which a list may be aborted.
MixAuxSamples ==
    /\ worker.busy /\ mix.at = "aux"
    /\ WriteAuxOut(mix)
    /\ mix' = [mix EXCEPT !.read = ReadAuxIn(mix), !.at = "output"]
    /\ UNCHANGED <<guestVars, worker, pcm>>

\* OutputSamples writes the AI frame in place, sample by sample.
OutputSamples ==
    /\ worker.busy /\ mix.at = "output"
    /\ pcm' = "torn"
    /\ mix' = [mix EXCEPT !.at = "writing"]
    /\ UNCHANGED <<guestVars, worker, auxOut, aux>>

OutputDone ==
    /\ worker.busy /\ mix.at = "writing"
    /\ pcm' = "whole"
    /\ mix' = [mix EXCEPT !.at = "done"]
    /\ UNCHANGED <<guestVars, worker, auxOut, aux>>

\* Mutant: the list stays pending once it is taken.
TakesForever ==
    /\ worker.alive /\ worker.pending /\ ~worker.busy
    /\ worker' = [worker EXCEPT !.busy = TRUE]
    /\ auxOut' = None
    /\ UNCHANGED <<guestVars, mix, aux, pcm>>

\* MixWorkerMain.  A stop request is honoured once nothing is pending.
TakeMix ==
    /\ worker.alive /\ worker.pending /\ ~worker.busy
    /\ worker' = [worker EXCEPT !.pending = FALSE, !.busy = TRUE]
    /\ auxOut' = None
    /\ UNCHANGED <<guestVars, mix, aux, pcm>>

FinishMix ==
    /\ worker.busy /\ mix.at \in {"aux", "output", "done"}   \* or aborted
    /\ worker' = [worker EXCEPT !.busy = FALSE]
    /\ mix' = Over(mix)
    /\ UNCHANGED <<guestVars, auxOut, aux, pcm>>

WorkerExits ==
    /\ worker.alive /\ worker.stop /\ ~worker.pending /\ ~worker.busy
    /\ worker' = [worker EXCEPT !.alive = FALSE]
    /\ UNCHANGED <<guestVars, mix, auxOut, aux, pcm>>

WorkerStep ==
    TakeMix \/ MixAuxSamples \/ OutputSamples \/ OutputDone \/ FinishMix \/ WorkerExits

----------------------------------------------------------------------------
\* The guest's host thread: what joins the worker, and what follows.

Quiet == ~worker.pending /\ ~worker.busy
Goto(place) == guest' = [guest EXCEPT !.at = place]
JoinThen(place) == guest' = [guest EXCEPT !.at = "join", !.then = place]

\* Mutant: the published block is not forgotten.
PublishAgain ==
    IF auxOut = None THEN UNCHANGED <<aux, auxOut>>
    ELSE aux' = [aux EXCEPT ![auxOut.addr] = Raw(auxOut.mix)] /\ UNCHANGED auxOut

PublishAuxOutputs ==
    /\ aux' = IF auxOut = None THEN aux
              ELSE [aux EXCEPT ![auxOut.addr] = Raw(auxOut.mix)]
    /\ auxOut' = None

\* Mutant: a list taken by the worker no longer counts.
JoinsPending ==
    /\ guest.at = "join"
    /\ worker.alive => ~worker.pending
    /\ PublishAuxOutputs
    /\ guest' = [guest EXCEPT !.at = guest.then, !.then = "push"]
    /\ UNCHANGED <<mail, enabled, resume, ai, worker, mix, pcm>>

JoinMix ==
    /\ guest.at = "join"
    /\ worker.alive => Quiet
    /\ PublishAuxOutputs
    /\ guest' = [guest EXCEPT !.at = guest.then, !.then = "push"]
    /\ UNCHANGED <<mail, enabled, resume, ai, worker, mix, pcm>>

\* EnsureMixWorker starts the thread at most once; it may fail to.
Deferred(d) == d => enabled
Started == [alive |-> TRUE, stop |-> FALSE, pending |-> TRUE, busy |-> FALSE]

\* Mutant: the snapshot of the aux input is left to the worker's defaults.
NoSnapshot(from) == Raw(0)

Snapshot(from) == aux[from]

\* HandleMail's command list address, once joined: CopyCmdList,
\* DispatchCommandList, and the deferred resume callback.
DispatchCommandList ==
    /\ guest.at = "dispatch"
    /\ \E to, from \in Bufs, deferred \in BOOLEAN :
          /\ Deferred(deferred)
          /\ worker.alive /\ enabled => deferred
          /\ LET m == [n |-> mix.n + 1, to |-> to, from |-> from,
                       deferred |-> deferred, auxIn |-> Snapshot(from),
                       input |-> IF from = to THEN Raw(mix.n + 1) ELSE aux[from],
                       read |-> None, at |-> "aux"]
             IN IF deferred
                THEN /\ mix' = m
                     /\ worker' = Started
                     /\ UNCHANGED <<aux, auxOut, pcm>>
                ELSE /\ WriteAuxOut(m)
                     /\ mix' = Over(m)
                     /\ pcm' = "whole"
                     /\ UNCHANGED worker
    /\ mail' = "next"
    /\ resume' = resume + 1
    /\ Goto("run")
    /\ UNCHANGED <<enabled, ai>>

\* AXWii::Initialize, Stop and ConfigureFromTask, after their joins.
Initialize ==
    /\ guest.at = "initialize"
    /\ enabled' \in BOOLEAN             \* the configuration's value
    /\ mail' = "size" /\ resume' = 0
    /\ auxOut' = None
    /\ Goto("run")
    /\ UNCHANGED <<ai, worker, mix, aux, pcm>>

Stop ==
    /\ guest.at = "stop"
    /\ mail' = "size" /\ resume' = 0
    /\ Goto("run")
    /\ UNCHANGED <<enabled, ai, mixVars>>

\* ConfigureFromTaskLocked sets the layouts; AddTask asserts the first task.
Configure ==
    /\ guest.at = "configure"
    /\ resume' \in {resume, resume + 1}
    /\ Goto("run")
    /\ UNCHANGED <<mail, enabled, ai, mixVars>>

----------------------------------------------------------------------------
\* Guest code, in the main program or inside a callback.

\* SendMail.  A list's size, a task mail, or a list's address, for which the
\* previous mix must be over.
SendMail ==
    /\ guest.at = "run"
    /\ \/ mail = "address" /\ mix.n < MaxMixes /\ resume < MaxResume
          /\ JoinThen("dispatch") /\ UNCHANGED mail
       \/ mail # "address" /\ mail' \in {"address", "size"} /\ UNCHANGED guest
    /\ UNCHANGED <<enabled, resume, ai, mixVars>>

\* DSPInit, DSPAddTask (the main program's, not a callback's), and
\* OSStopAudioSystem with its DMA reset.
ConfigureDsp ==
    /\ guest.at = "run"
    /\ \/ JoinThen("initialize") /\ UNCHANGED ai
       \/ resume < MaxResume /\ guest.level = "main"
          /\ JoinThen("configure") /\ UNCHANGED ai
       \/ JoinThen("stop") /\ ai' = [ai EXCEPT !.enabled = FALSE, !.backlog = 0]
    /\ UNCHANGED <<mail, enabled, resume, mixVars>>

\* AIRegisterDMACallback, AIInitDMA and AIStartDMA.
StartDma ==
    /\ guest.at = "run"
    /\ ai' = [ai EXCEPT !.enabled = TRUE, !.callback = TRUE]
    /\ UNCHANGED <<guest, mail, enabled, resume, mixVars>>

\* __AXProcessAux, within the DMA callback, works on a buffer in place.
ProcessAux ==
    /\ guest.at = "run" /\ guest.level = "ai"
    /\ \E b \in Bufs : aux' = [aux EXCEPT ![b].processed = TRUE]
    /\ UNCHANGED <<guestVars, worker, mix, auxOut, pcm>>

\* The settings overlay; SendMail holds m_mutex across its join and dispatch.
SetMixWorkerEnabled ==
    /\ guest.at # "gone"
    /\ guest.at # "dispatch" /\ guest.then # "dispatch"
    /\ enabled' = ~enabled
    /\ UNCHANGED <<guest, mail, resume, ai, mixVars>>

\* OSResetSystem: ShutdownMixWorker, then Memory::Reset.
OSResetSystem ==
    /\ guest.at = "run"
    /\ worker' = [worker EXCEPT !.stop = worker.alive]
    /\ Goto("shutdown")
    /\ UNCHANGED <<mail, enabled, resume, ai, mix, auxOut, aux, pcm>>

\* Mutant: the worker is told, and not waited for.
ResetsAtOnce ==
    /\ guest.at = "shutdown"
    /\ Goto("gone")
    /\ UNCHANGED <<mail, enabled, resume, ai, mixVars>>

MemoryReset ==
    /\ guest.at = "shutdown" /\ ~worker.alive
    /\ Goto("gone")
    /\ UNCHANGED <<mail, enabled, resume, ai, mixVars>>

GuestCode ==
    \/ SendMail \/ ConfigureDsp \/ StartDma \/ ProcessAux \/ OSResetSystem

----------------------------------------------------------------------------
\* Audio_HLE_Tick.  Guest code polls it wherever it may block, so that it can
\* be entered from within its own callbacks.

\* Mutant: a tick inside a tick delivers too.
Reenters == TRUE

MayDeliver == ~ai.active

TickEnter ==
    /\ guest.at = "run" /\ ai.enabled /\ ai.depth < 2
    /\ \E done \in 0..1 :
          LET backlog == IF ai.backlog + done <= MaxBacklog THEN ai.backlog + done
                         ELSE MaxBacklog
          IN IF MayDeliver
             THEN /\ ai' = [ai EXCEPT !.backlog = backlog, !.active = TRUE,
                                      !.depth = @ + 1]
                  /\ guest' = [guest EXCEPT !.at = "claim", !.blocks = 0]
             ELSE ai' = [ai EXCEPT !.backlog = backlog] /\ UNCHANGED guest
    /\ UNCHANGED <<mail, enabled, resume, mixVars>>

ClaimBlock ==
    /\ guest.at = "claim"
    /\ IF ai.backlog = 0 THEN Goto("end") /\ UNCHANGED ai
       ELSE ai' = [ai EXCEPT !.backlog = @ - 1] /\ JoinThen("push")
    /\ UNCHANGED <<mail, enabled, resume, mixVars>>

TickOver == ai' = [ai EXCEPT !.active = FALSE, !.depth = @ - 1]

\* Mutant: the early return leaves tickActive set.
PushKeepsActive ==
    /\ guest.at = "push"
    /\ \/ Goto(IF ai.callback THEN "call" ELSE "next") /\ UNCHANGED ai
       \/ /\ guest' = [guest EXCEPT !.at = "run", !.blocks = 0]
          /\ ai' = [ai EXCEPT !.enabled = FALSE]
    /\ UNCHANGED <<mail, enabled, resume, mixVars>>

\* PushAudioBlock.  A frame that cannot be read turns the DMA off.
PushAudioBlock ==
    /\ guest.at = "push"
    /\ \/ Goto(IF ai.callback THEN "call" ELSE "next") /\ UNCHANGED ai
       \/ /\ guest' = [guest EXCEPT !.at = "run", !.blocks = 0]
          /\ ai' = [ai EXCEPT !.enabled = FALSE, !.active = FALSE, !.depth = @ - 1]
    /\ UNCHANGED <<mail, enabled, resume, mixVars>>

CallDmaCallback ==
    /\ guest.at = "call"
    /\ guest' = [guest EXCEPT !.at = "run", !.level = "ai"]
    /\ UNCHANGED <<mail, enabled, resume, ai, mixVars>>

\* Either callback returns to the loop of ServiceDeferredCallbacks.
CallbackReturns ==
    /\ guest.at = "run" /\ guest.level # "main"
    /\ guest' = [guest EXCEPT !.at = "service", !.level = "main"]
    /\ UNCHANGED <<mail, enabled, resume, ai, mixVars>>

ServiceDeferredCallbacks ==
    /\ guest.at = "service"
    /\ IF resume = 0 THEN Goto("next") /\ UNCHANGED resume
       ELSE /\ resume' = resume - 1
            /\ guest' = [guest EXCEPT !.at = "run", !.level = "resume"]
    /\ UNCHANGED <<mail, enabled, ai, mixVars>>

NextBlock ==
    /\ guest.at = "next"
    /\ guest' = [guest EXCEPT !.blocks = @ + 1,
                   !.at = IF guest.blocks + 1 >= MaxBlocksPerTick THEN "end" ELSE "claim"]
    /\ UNCHANGED <<mail, enabled, resume, ai, mixVars>>

TickEnd ==
    /\ guest.at = "end"
    /\ TickOver
    /\ guest' = [guest EXCEPT !.at = "run", !.blocks = 0]
    /\ UNCHANGED <<mail, enabled, resume, mixVars>>

Tick ==
    \/ ClaimBlock \/ PushAudioBlock \/ CallDmaCallback \/ ServiceDeferredCallbacks
    \/ NextBlock \/ TickEnd

\* The steps the guest's thread owes once it has entered the runtime.
HostStep ==
    \/ JoinMix \/ DispatchCommandList \/ Initialize \/ Stop \/ Configure
    \/ MemoryReset \/ Tick

Terminated == guest.at = "gone" /\ UNCHANGED vars

Next ==
    \/ WorkerStep \/ HostStep \/ GuestCode \/ TickEnter \/ CallbackReturns
    \/ SetMixWorkerEnabled \/ Terminated

\* Both threads run; guest code returns from its callbacks.
Fairness == WF_vars(WorkerStep) /\ WF_vars(HostStep) /\ SF_vars(CallbackReturns)

Spec == Init /\ [][Next]_vars /\ Fairness

----------------------------------------------------------------------------
\* While a mix is pending or running nobody else is at the state it owns: no
\* list is copied or executed, nothing reset or reconfigured, no block pushed,
\* and the guest's memory is not torn down (ax_mix.cpp: "the mix owns those
\* members outright while it runs"; os_reset.cpp OSResetSystem).
NoneBesideMix == ~Quiet => guest.at \notin Joiners \cup {"gone"}

\* A block handed to the audio backend is a whole frame (ax_mix.cpp
\* OutputSamples: "the guest never observes a half-written frame").
PushesWholeFrames == guest.at = "push" => pcm = "whole"

\* What a mix owns is neither touched nor read out until it is over.
MixOwnsItsState == NoneBesideMix /\ PushesWholeFrames

\* A mix reads back the aux buffer as it stood when the mail arrived, wherever
\* it runs and whatever the guest's aux effects do meanwhile (ax_mix.cpp: "IN
\* snapshots at mail time to match a synchronous mix").
ReadsMailTimeAux == mix.read # None => mix.read = mix.input

\* The DMA callback is never entered from within itself or from a resume
\* callback it is followed by (audio.cpp: "rather than recursively entering
\* the singleton AI/AX device").
OneTickAtATime == ai.depth <= 1

\* Guest memory sees the aux output of each mix once, in order, and never while
\* a mix runs: a result the guest computed in place is not overwritten by the
\* block it was computed from (ax_mix.cpp PublishAuxOutputs).
ByGuest(b) == aux'[b] = [aux[b] EXCEPT !.processed = TRUE]
AuxPublishedOnce ==
    [][\A b \in Bufs : aux'[b] # aux[b] /\ ~ByGuest(b)
          => Quiet /\ aux'[b].mix > aux[b].mix]_vars

\* Whoever joins the mix worker, or waits for its end, gets on.
JoinReturns == guest.at \in {"join", "shutdown"} ~> guest.at \notin {"join", "shutdown"}

\* A tick comes to its end, however many blocks fall due meanwhile and provided
\* its callbacks stop sending lists, so that later blocks are delivered at all.
TicksEnd == ai.active ~> ~ai.active \/ guest.at = "gone"

\* The sound goes on: no join and no tick holds up the guest's thread for ever.
AudioGetsOn == JoinReturns /\ TicksEnd
=============================================================================
