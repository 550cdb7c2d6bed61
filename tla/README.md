# A TLA+ model of the runtime of the Mario Kart Wii port

The port runs the game's PowerPC code, translated to C++ ahead of time, on top
of a runtime that replaces the console's operating system.  The game was written
for a preemptive priority kernel with threads, mutexes, message queues, alarms
and sleeping; the runtime (`src/runtime`) re-implements that kernel in C++ on a
single host thread, with one host fiber per guest thread.  The fibers only
switch inside one function, `SelectThread`, but almost every kernel call reaches
it, and it in turn pumps timers and alarms that make further kernel calls.  Most
calls can therefore be suspended half way through, and others run in between.
That is the part of the program that is hardest to test, and the core of this
project.  Around it the runtime has four places where host threads, host calls
that fail, or the power switch meet the guest, and each of them is modelled too:
the deferred network calls, the save files, the audio mix worker, and the
presentation to a headset.

- [Inventory](#inventory)
- [Modules](#modules)
- [How the model corresponds to the code](#how-the-model-corresponds-to-the-code)
- [Properties](#properties)
- [Runs](#runs)
- [What the violation runs show](#what-the-violation-runs-show)
- [Known limits of the kernel](#known-limits-of-the-kernel)
- [Fairness](#fairness)
- [Proofs](#proofs)
- [Abstractions and what is left out](#abstractions-and-what-is-left-out)
- [Plan](#plan)

## Inventory

Paths are relative to `src/runtime/src`.

| component | state | operations | interacts with |
| --- | --- | --- | --- |
| scheduler, wait queues, mutexes (`hle/os/os_scheduler.cpp`, `os_internal.h`) | 32 run queues and their pending mask, running and current context, reschedule flag, disable count; owner, count and waiters of each mutex | `SelectThread` and its idle loop, `OSWakeupThread`, `OSLockMutex`, `OSUnlockMutex`, priority inheritance | everything below; pumps timers at entry, and timers and alarms when idle |
| thread life cycle (`os_thread.cpp`) | state, suspend count, base and effective priority, detach bit, owned mutexes, join queue of each thread; the global thread list | create, exit, cancel, join, detach, suspend, resume | edits queues and mutexes, creates and destroys fibers, ends sleep parks |
| sleep (`os_sleep.cpp`) | armed timers, outstanding parks, stranded threads seen | `OSSleepTicks`, `OSSleepThread`, the timer pump, the stranded-sleeper reconciler | suspends and resumes threads; called by `SelectThread`, which it calls |
| alarms (`os_alarm.cpp`) | the alarm queue, recursion depth of the pump | set, set periodic, the pump and its deferred variant | runs guest handlers with the scheduler disabled, then reschedules |
| fibers (`fiber_manager.cpp`, `host_context.cpp`) | a host fiber per thread, the thread the manager believes to be current | create, switch, terminate, return of an entry function | called by the scheduler and by termination |
| message queues (`os_message.cpp`) | ring buffer, two wait queues | send, jam, receive, blocking or not | sleep and wake threads |
| network IOS device (`hle/net`) | socket table with generations, SSL sessions, look-ups in progress, pending polls and connects, results, tokens | socket calls, deferred look-up, poll and connect, the pump's completions | wakes threads by the address of a wait queue on their stack; DNS workers on host threads; callbacks from the queue shared with the NAND calls |
| NAND storage (`hle/storage/nand_*.cpp`) | open handles, scratch files, `NANDFileInfo` flags, queue of completion callbacks | opens, writes, create, delete, closes that publish a scratch file | host file system; callbacks from the pump |
| DVD, Riivolution (`hle/storage`) | command blocks, patch tables | asynchronous reads | callbacks |
| video interface (`hle/vi.cpp`) | retrace count, re-entry guards | retrace, present, wait | idle loop, wait queues |
| audio (`hle/audio`) | mailbox, mix worker, aux blocks, AI DMA state | command lists, tick, DMA and resume callbacks, worker hand-over | a host thread; guest callbacks |
| OpenXR (`vr`) | session, published packet, submission result, swapchain image, cached frame | pacing thread, frame hand-over, teardown | the pacing thread, Aurora's frame worker, the producer |
| Aurora frame worker and stereo bridge (`src/aurora-main/lib/aurora.cpp`, `webgpu/d3d12_interop.cpp`) | phases and permit of a cycle, the job of the bridge | begin and end frame, seal, encode, quiesce, stop, cancel | the producer's host thread, the pacing thread |
| EGG task thread (`hle/task_thread.cpp`) | job slots | job loop over a message queue | message queues |
| input, GX, memory and ABI bridge, IOS/ES/SC, shell | conversions and plumbing | | |
| translator (C#), launcher | separate programs | | |
| the rest of Aurora (GX, shaders, textures) | command decoding and rendering | | |

What is hard: calls suspended in the middle of a retry loop (mutex, message
queue, join); a batch of due timers whose first entry runs other threads before
the rest is served; termination, which is a sequence of calls made by a thread
that can never be scheduled again once it is switched away; structures that are
freed and created again while timers and park records still name them; guest
code run by the pump in a context that is no thread's; the fiber manager's
notion of the current thread against the kernel's; answers that arrive after the
caller was cancelled and its stack reused, and descriptors that were recycled; a
save cut short between copy, flush, rename and directory sync; a GPU job that is
cancelled, answered and torn down by three threads at once; a mix that runs beside
the guest code it takes its input from.  `PROJECT.json` lists each of
these under "hazards", at the line where it bites.

What makes the modelled parts correct: every thread is on the queue its state
says and on no other; the pending mask is exact; the most urgent runnable thread
runs, as itself; a mutex has a live owner who lists it, and inherits the
priorities of its waiters; nobody waits for a wakeup that has already happened or
that nobody will give; suspensions asked for by the game are only undone by the
game; kernel calls return and sleepers wake.  A network answer reaches the call it
belongs to, and only while its caller waits; a descriptor is used by its owner
only.  A save file is one whole save at every instant.  An image is composited
with its own poses and is not released while it can still be written.  What a mix
owns is touched by nobody else.  Nobody waits for ever.

## Modules

| module | what it is |
| --- | --- |
| `GuestQueues` | the intrusive lists: run queues with the pending mask, wait, mutex and join queues, as operators on one record |
| `GuestKernel` | scheduler, mutexes, threads, sleep, alarms and fibers as one state machine, with the properties |
| `MessageDeque` | abstract specification: a bounded deque of messages |
| `GuestMessages` | the message queue on top of `GuestKernel`; shown to implement `MessageDeque` |
| `GuestKernel_proof` | the theorems about `GuestKernel` that hold of every guest |
| `GuestScheduler_proof` | those about threads, queues, mutexes, terminations and the alarm pump, for guests that keep a contract |
| `NetworkSockets` | the socket table, SSL sessions and the host sockets behind them |
| `NetworkDeferred` | look-ups, polls and connects that outlast their call, the pump that completes them, and the callback queue; extends `NetworkSockets` |
| `NandStorage` | save files, scratch copies and their publication, with failures, process deaths and power failures |
| `FrameWorker` | Aurora's producer/worker cycle |
| `OpenXrPresent` | pacing thread, stereo bridge and teardown, composed with `FrameWorker` |
| `AxMixer` | mailbox, mix worker and the AI DMA tick |
| `GuestMessages_proof`, `FrameWorker_proof`, `OpenXrPresent_proof`, `AxMixer_proof`, `NetworkDeferred_proof`, `NandStorage_proof` | the theorems about those modules; each proof module builds on those of the modules its subject extends |
| `MCGuestKernel`, `MCGuestMessages`, `MCNetwork`, `MCNand`, `MCOpenXr`, `MCAudio` | instances for TLC |

The kernel is one module because its parts are one mutually recursive nest of
calls on shared memory: `SelectThread` calls the timer pump, which calls
`OSResumeThread`, which calls `SelectThread`.  The other components meet the
kernel at few points (parking on a queue, being woken, running a callback from the
pump), and each has a module of its own in which those points are reduced to the
thread states they depend on.  `OpenXrPresent` does not copy the frame worker: its
actions are those of `FrameWorker` with what the same step does to the bridge
and the provider conjoined.

## How the model corresponds to the code

### Kernel

**Control.**  All guest code runs on one host thread, so the model has no
interleaving of instructions.  What it has is a *stack of frames per fiber*
(`stack`), and the fiber that is on the CPU (`host`).  A frame is a kernel
function and the point reached in it (`pc`), with the few locals that survive a
call.  One step executes the code between two calls that may switch, which
nothing can interrupt; `Call` pushes frames, `Return` pops one, `Continue`
replaces the top one.  When a thread is switched away its frames stay, and when
its fiber is entered again the code after the call runs with the locals it had.
An empty stack (`AtGuest`) means the game's own code is running, and a `handler`
frame that an alarm handler is; both may make any call the instance allows them
(`ThreadCalls`, `HandlerCalls`).

| actions | code |
| --- | --- |
| `SelectEnter` | `SelectThread`, entry: process the sleep timers |
| `ScheduleReturn`, `ScheduleSwitch` | its early returns; requeue of the running thread; going idle |
| `IdlePump`, `IdleAlarms`, `IdleExit` | the idle loop |
| `PickThread`, `Switched` | the pick loop, `SwitchToThread`, and what that does after it returns |
| `WakeupThread`, `WakeDone` | `OSWakeupThread`: drain loop, then reschedule |
| `SleepThread`, `Slept` | `OSSleepThread` up to and after `SelectThread` |
| `PromoteThreadPriority`, `PropagateMutexOwnerPriority` | the two inheritance loops, one owner per step |
| `OSLockMutex`, `LockMutex`, `RelockMutex`, `OSUnlockMutex` | the mutex calls; `LockMutex` is one round of the retry loop |
| `OSSuspendThread`, `SuspendThread`, `OSResumeThread`, `ResumeThread`, `Reschedule` | suspend, resume and their common tail |
| `OSSleepTicks`, `Ticked` | arm the timer and park; back from the park |
| `FireTimer`, `FireDone`, `Reconcile`, `HealStrandedSleeper` | `ProcessSleepTimers`: one due timer, the strand scan, healing |
| `OSCreateThread`, `OSExitThread`, `Exited`, `OSCancelThread`, `UnlockAllMutex`, `OSJoinThread`, `Joined`, `OSDetachThread` | the life cycle |
| `ThreadReturn`, `WakeNoSwitch`, `WakeNoSwitchDone`, `Returned` | `FiberProc` when an entry function returns |
| `OSSetAlarm`, `OSSetPeriodicAlarm`, `OSProcessAlarms`, `OSProcessAlarmsDeferred`, `Undefer`, `ProcessAlarmQueue`, `FireAlarm`, `HandlerReturn`, `AlarmTail`, `AlarmsDone` | the alarm pump |
| `SendMessage`, `JamMessage`, `ReceiveMessage` | one round of `MsgQueueOp`'s loop |

**Data.**  `links` holds all the thread queues: `seq` the lists, `at` each
thread's queue pointer, `pending` the mask.  The pointer is kept apart from the
lists because the code unlinks by pointer, and one path (`OSWakeupThread` on a
suspended thread) leaves a pointer behind that names a queue the thread is not
on.  Thread states are the SDK's: 0 dead, 1 ready, 2 running, 4 waiting,
8 moribund.  Of a fiber only none, live or terminated is kept; `fiberThread` is
`s_currentGuestThread`.  `held` is a history variable: the suspensions the game
asked for and has not undone.

**Time** is nondeterminism.  Any subset of the armed timers may be due when the
pump looks, any queued alarm may fire, and the scan's 100 ms interval may or may
not have passed.

Code that is only called from `src/`, marked external in the map:
`__OSUnlockAllMutex` and `OSYieldThread` are translated guest code; they are
modelled from the calls made to them and from what they call back.

### Network

All device code runs on the scheduler's host thread except the look-up workers.
A step is a device call, or the service of one call by the pump: between two
served calls the wakeups and callbacks of the first may run guest code.

| actions | code |
| --- | --- |
| `AddWiiSocket`, `DeleteWiiSockets`, `SetNonblocking`, `ConnectNow` | the socket table of `network_core.cpp`, and the calls of `network_socket.cpp` that change it |
| `SslNew`, `SslConnect`, `SslReroute`, `SslShutdown`, `ClearSslSessionsForSocket` | the sessions of `network_ssl.cpp`; `ReconnectWiiSocket` |
| `StartDns`, `StartPoll`, `StartConnect`, `Park` | `StartDeferred` for the three kinds, synchronous (park on a queue in the caller's frame) or asynchronous |
| `TakeSyncResult` | the woken caller redeems its token |
| `CloseSockets`, `ShutdownSocket`, `AbortPendingDeferredConnects` | close and shutdown with what they abort |
| `ResolveDeferredDns` | a look-up worker publishes |
| `PumpStarts`, `ServeDns`, `ServePoll`, `ServeConnect` | `Network_HLE_ProcessCompletions` |
| `DispatchCallback`, `CallbackReturns` | `NandProcessPendingCallbacks` |
| `CancelThread`, `RecreateThread` | what the kernel does to a caller: `OSCancelThread`, `OSCreateThread` on the same structure and stack |
| `DeadlinePasses`, `HostSettles`, `FreeNatives` | external: the clock and the host's sockets |

A descriptor is a slot, a host descriptor and a generation, and each of the three is
recycled separately.  The cookie that a caller leaves in its stack frame stays
there when the thread is cancelled, as the bytes do.

### NAND

A NAND call runs to its end on one thread, so the interleaving is that of calls
on several handles, of host calls that fail, and of crashes.  The close is the
one call whose inner steps matter for a crash: `CloseBegins`, `Flush`, `Rename`,
`SyncDirectory`, each with its failure, is `CommitAndCloseFd`.

| actions | code |
| --- | --- |
| `OpenRead`, `OpenShadow`, `OpenInPlace`, `OpenCreates` | `NANDOpen` by mode and by what the host allows |
| `OpenShadow`, `SafeOpenFails` | `NANDSafeOpen` |
| `IosOpenWrite`, `IosClose` | the ISFS path |
| `WriteShadow`, `WriteInPlace` | writes, a block at a time |
| `CloseBegins`, `Flush`, `Rename`, `SyncDirectory`, `PlainCloseEnds`, `FlushFails`, `RenameFails`, `CloseAgain` | `NANDClose`, `NANDSafeClose` |
| `NANDCreate`, `NANDDelete` | create; delete and the destination of a move |
| `ProcessDies`, `PowerFails` | external: cached contents survive the first and not the second |

Every open writes its own descriptor number, so that an image says whose writes
it is made of.  After a power failure an entry is what was on disk, a
mixture of disk and cache if it was not flushed, and the directory may hold any entry
it held since its last sync.

### Frame worker and OpenXR

Three host threads.  A step is what one thread does under one lock, or a
handshake on the atomics of `FrameWorkerState`.

| actions | code |
| --- | --- |
| `EndFrame`, `BeginFrameEarly`, `BeginFrameJoined`, `BeginFrameLate`, `Quiesce`, `StopFrameWorker`, `JoinFrameWorker` | the producer in `aurora.cpp` |
| `TakeJob`, `SealFrame`, `EncodedInline`, `TakePermit`, `PrepareNext`, `EncodedOverlapped`, `WorkerExits` | `frame_worker_main`, `run_frame_worker_cycle` |
| `LookUpProvider`, `ClaimPacket`, `LookUpSink`, `Encode`, `Submitted` | `request_stereo_frame`, the stereo bridge of `d3d12_interop.cpp` |
| `PollEvents`, `ServicePending`, `DeadlinePassed`, `TryCancelPendingFrame`, `RecheckSubmission`, `BeginDisplayFrame`, `SubmitOrRepeat`, `PublishFrame`, `FinishDisplayFrame`, `AwaitSubmission`, `FinishFrame` | the pacing loop of `openxr_integration.cpp` with its D3D12 backend |
| `LeaveLoop`, `AskForTeardown`, `CheckStop`, `FallAsleep`, `UnhookSink`, `DrainBridge` | the end of the pacing thread |
| `ShutdownBegins`, `FrameWorkerQuiet`, `UnregisterProvider`, `RaiseStop`, `NotifyStop`, `JoinPacingThread` | `OpenXRIntegration::Shutdown` |

### Audio

Two host threads.  The guest's is at one of the places of `guest.at`; the level
says whether guest code runs as the main program, in the DMA callback or in a
resume callback.  The worker's mix is four steps (take, aux upload and read-back,
begin and end of the output), so that the guest can be found in between.

| actions | code |
| --- | --- |
| `SendMail`, `DispatchCommandList`, `Initialize`, `Stop`, `Configure` | the mailbox and the entry points of `ax_mix.cpp`, each behind `JoinMix` |
| `TakeMix`, `MixAuxSamples`, `OutputSamples`, `OutputDone`, `FinishMix`, `WorkerExits` | the worker |
| `JoinMix`, `PublishAuxOutputs` | the join and the publication after it |
| `TickEnter`, `ClaimBlock`, `PushAudioBlock`, `CallDmaCallback`, `CallbackReturns`, `ServiceDeferredCallbacks`, `NextBlock`, `TickEnd` | the tick of `audio.cpp` |
| `ProcessAux` | external: the guest's effect rewrites an aux buffer in place |
| `SetMixWorkerEnabled`, `OSResetSystem`, `MemoryReset` | the settings overlay; reset, which stops the worker before memory goes |

## Properties

| property | what it says |
| --- | --- |
| `TypeOK` | types, the arguments of every frame included |
| `PendingExact` | the pending mask shows exactly the run queues that hold a thread |
| `QueuesSound`, of which `LinkedOnce` | a thread is on at most one queue, once, and its pointer names it |
| and `StalePointerHarmless` | a queue pointer that is out of date belongs to a suspended or terminated thread, on which the code never unlinks by it |
| and `QueuesOrdered` | wait queues are in priority order and run queues hold their own priority |
| and `RunnableHasRunQueue` | the suspended-wait priority, 32, never reaches a thread that can run |
| `QueuedByState` | run queue iff ready and not suspended; wait queue iff waiting |
| `GuestRunsAsItself` | fiber, running context, current context and fiber manager agree on who runs |
| `MostUrgentRuns` | no runnable thread is more urgent than the one running guest code |
| `MutexesConsistent` | owner, count and owned lists agree |
| `NoWaiterOnFreeMutex` | nobody sleeps on a free mutex, except while its waiters are being woken |
| `InheritsPriority` | an owner is at least as urgent as those it blocks, along chains |
| `OwnershipSound`: `OwnedListed`, `OwnerAlive` | the owner of a mutex lists it, and is alive or still going to release it |
| `LifeCycleSound`: `ThreadListExact`, `JoinersWoken` | the thread list holds the live threads; a terminated thread has no joiner, unless its termination is still going to wake it |
| `GuestSuspensionsKept` | timers, the reconciler and undo paths never take a suspension of the game's |
| `AlarmPumpFree` | guest code never runs with the alarm pump locked (violated) |
| `PumpGuarded`, of which `OneAlarmPump` | one pump is in progress at a time, over all fibers, and the guard is up while it is |
| and `GuardAccounted` | the guard is up only for a pump that will go on and take it down |
| and `PumpLeftDirectly` | a fiber switched away in a pump was pumping directly, not deferred nor in the idle loop |
| `KernelReturns` | (liveness) control always comes back to the game or the idle loop |
| `IdleSleepersWake` | (liveness) as long as the system keeps going idle, every parked sleeper is woken |
| `NoLostWakeup` | nobody waits for a message while there is one, nor for room while there is room, except while they are being woken |
| `ImplementsDeque` | the message queue implements `MessageDeque` |
| `DescriptorsOwned`, of which `NativesOwned` | a host descriptor is behind at most one slot, and open |
| and `SslOwnDescriptor` | a session uses the descriptor of the socket it is bound to, never a recycled one |
| `PeerMeansConnected` | a recorded peer belongs to an established connection of this very socket |
| `WokenWithOwnResult` | a woken caller finds the result of its own call |
| `NoLostCall` | a call somebody waits for is in a store until it is answered |
| `AnsweredWhileWaiting` | (action) a result is committed only for a call its thread still waits for |
| `OneCallbackAtATime` | completion callbacks do not nest |
| `CallsComplete`: `BlockedCallsReturn`, `CallbacksDispatched` | (liveness) blocked calls are answered; queued callbacks run |
| `OldOrNew` | a path written only through scratch copies always holds one whole save: the last acknowledged one or the one being closed |
| `PublishedOwnImage` | what a rename publishes is the opened file with the handle's own writes |
| `SafeCloseHonest`, `CloseHonest` | a close never reports success for data an earlier attempt threw away (the second, for all opens, is violated) |
| `HandshakeHonest`, of which `PhasesHonest` | SEALED and DONE mean what their waiters rely on |
| and `PermitFresh` | the worker prepares no frame between `end_frame` and `begin_frame` |
| `ImageHeldWhileWritable` | an image that can still be written is not released |
| `NoOrphanedJob` | a job the pacing thread waits for is answered or still in the bridge |
| `ShowsOwnImage` | what is composited was drawn for these poses, this session run and this scene |
| `NothingUsedAfterTeardown` | the worker is out of provider and bridge before they go |
| `NobodyStuck`: `ProducerReturns`, `FailureTornDown`, `JobSettled` | (liveness) Aurora and `Shutdown` return; a failed pacing thread is joined; jobs settle |
| `MixOwnsItsState`: `NoneBesideMix`, `PushesWholeFrames` | while a mix is under way nobody is at the state it owns, and the backend gets whole frames |
| `ReadsMailTimeAux` | a mix reads the aux input as it was when its mail arrived |
| `OneTickAtATime` | the DMA callback is never entered from within a tick |
| `AuxPublishedOnce` | (action) guest memory sees each mix's aux output once, in order, with no mix running |
| `AudioGetsOn`: `JoinReturns`, `TicksEnd` | (liveness) joins and ticks end |

A property that is a conjunction of named parts has a mutant for each part.
The other modules' `TypeOK` say what their variables range over; they are proved
as parts of the inductive invariants below, and the runs spend their time on the properties above.

## Runs

All passing runs search the whole state space of their instance.  The kernel's use
the default thread `Main` and two more threads (`nap` one more).

| run | instance | checks | distinct states |
| --- | --- | --- | --- |
| `mutex` | two mutexes; Main creates, resumes and cancels; all lock and unlock, A joins, B suspends and resumes | `TypeOK`, `PendingExact`, `QueuesSound`, `MutexesConsistent`, `OwnershipSound`, `NoWaiterOnFreeMutex`, `InheritsPriority` | 251139 |
| `lifecycle` | everybody makes every life-cycle call, suspends, resumes, yields, sleeps on a queue and wakes it | `QueuedByState`, `GuestRunsAsItself`, `LifeCycleSound`, `MostUrgentRuns` | 504595 |
| `alarms` | two alarms, one-shot and periodic, pumped deferred, by the idle loop, and directly by all three threads; A naps, B suspends and resumes it; all sleep on a queue | `GuestSuspensionsKept`, `PumpGuarded` | 342144 |
| `alarm_pump` | the same | `AlarmPumpFree`, violated | |
| `nap` | two threads nap, resume each other, and one sleeps on a queue and may return from its entry function, with fairness | `KernelReturns`, `IdleSleepersWake` | 4802 |
| `messages` | capacity 2, two messages, Main the most urgent of three threads; A pumps an alarm whose handler sends and tries to sleep; A's entry function returns, B joins it | `NoLostWakeup`, `QueuedByState`, `LifeCycleSound`, `ImplementsDeque` | 3123046 |
| `network` | one slot and one host descriptor, both reused, one blocking thread, two deferred calls | `WokenWithOwnResult`, `NoLostCall`, `OneCallbackAtATime`, `AnsweredWhileWaiting`, `CallsComplete` | 275695 |
| `ssl` | two slots, two host descriptors, one session, one deferred call | `DescriptorsOwned`, `PeerMeansConnected` | 2978816 |
| `nand` | one file of two blocks, two `NANDFileInfo`s, four opens | `OldOrNew`, `PublishedOwnImage`, `SafeCloseHonest` | 1107740 |
| `nand_retry` | one `NANDFileInfo`, two opens | `CloseHonest`, violated | |
| `openxr` | two tokens, an immersive and a flat scene | `HandshakeHonest`, `ImageHeldWhileWritable`, `NoOrphanedJob`, `ShowsOwnImage`, `NothingUsedAfterTeardown`, `NobodyStuck` | 320711 |
| `audio` | two aux buffers, two command lists, two blocks per tick | `MixOwnsItsState`, `ReadsMailTimeAux`, `OneTickAtATime`, `AuxPublishedOnce`, `AudioGetsOn` | 422700 |

**Bounds.**

- Three threads of three different priorities give a chain of two blocked
  threads behind an owner, a queue of two waiters, a batch of two due timers, and
  a third party that acts while two calls are suspended.  `MaxPrio = 2` stands for 31;
  the code compares priorities and indexes by them, and nothing depends on
  their number.
- `MaxSuspend` bounds the suspensions the game has outstanding on a thread: with the
  park's own, a count of 2 occurs, and the code only tells 0, 1 and more
  apart.
- `MaxLocks = 2` bounds recursion of a mutex: first lock, recursive lock.
- `MaxScanDepth` bounds the stack depth at which the reconciler scans.  Each scan
  may heal, each heal resume, each resume reschedule, and each reschedule scan again; in
  the program the 100 ms interval ends this nest.
- Two mutexes are the least for a chain, and two alarms for one to be set by the
  other's handler.
- A ring of two slots wraps at both ends, is full, partly full and empty.

- Network: `MaxGen` is the number of sockets ever opened, `MaxOps` of deferred calls.
  Two calls let a late answer to the first meet the second, by the same thread on the
  same stack or by its successor; three generations on one slot and one
  host descriptor let both be reused while a connect captured with the
  first is pending.
- NAND: `MaxFd` opens.  Four let a save fail, be repeated, be overlapped by an in-place
  handle and follow a crash.  Two blocks are the least for a torn image.
- OpenXR: a token is a serial that is never reused in the code; the model reuses one when
  nothing refers to it, and two are enough for the worker to hold an old one while the
  pacing thread submits a new one.
- Audio: two lists (`MaxMixes`) let one be in the worker while the next is dispatched;
  `MaxBlocksPerTick` is 4 in the code and 2 here, the least at which the block loop goes round;
  `MaxBacklog` and `MaxResume` bound counters the code tests against zero.

Deadlock is checked in every run.  In the kernel the idle loop always has a next
round; the behaviours of `openxr` and `audio` end in a terminated program, which
stutters explicitly.

## What the violation runs show

`alarm_pump`.  `ProcessAlarmQueue` refuses to pump while `g_alarmProcessDepth` is up, and the
comment at `os_alarm.cpp:164-167` wants that guard kept to the dispatch of alarms: carried across a
switch of fibers it "would make the resumed fiber skip all alarm/network/callback pumping until this
host frame ran again".  For that reason the network completions come after the scope.  The reschedule after each
handler (`os_alarm.cpp:225`) is still inside.  When the idle loop or
`OS_HLE_ProcessAlarmsDeferred` pumps it does not switch, but guest code also pumps directly, through `RFLiIsWorking`
(`os_alarm.cpp:457`) and, from `PPCMtdec` (`os_init.cpp:269`), `OS_HLE_ProcessAlarms`.  In the trace the default thread pumps
so, the handler resumes a more urgent thread, the reschedule switches to it, and it runs its own code with the guard up.
What the code still guarantees then is `PumpGuarded`, checked by `alarms` on the same instance: the queue is
never dispatched from two places, the guard comes down when the interrupted pump goes on, and nothing but a direct pump
is left in this way.  The second of these ends when the thread is cancelled before it goes on (known limits).

`nand_retry`.  `NANDClose` hands its handle to `CommitAndCloseFd`, which takes it
out of the table before it flushes and renames.  When either fails, the scratch
file is dropped and the error is returned, and the `NANDFileInfo` stays marked
open.  A guest that repeats the call finds no handle and is answered
`NAND_RESULT_OK`, since `NANDClose` does not take a missing handle for an error:
the "silent success" the comment at `nand_api.cpp:191-193` rules out, one call
later.  `NANDSafeClose` asks for the error and is honest for ever
(`SafeCloseHonest`); the retry its comment mentions (`nand_async.cpp:512`) can
therefore never succeed.

## Known limits of the kernel

Seven sequences of calls lead the kernel model into states that contradict a
comment of the code.  The passing runs leave them out of the call sets of their
guests (`MCGuestKernel`, `MCGuestMessages`); a reader can reproduce each by adding the calls.

- *A less urgent default thread when an entry function returns*
  (`fiber_manager.cpp:663`, `LinkedOnce`).  `FiberProc` switches to the scheduler's fiber,
  which is the default thread's.  That thread may be asleep, in the middle of its own
  `SelectThread`; the call then returns although nobody woke it or while it is on a run
  queue, and its next sleep links it twice (`os_sleep.cpp:448-450`).
- *A detached thread returns* (`fiber_manager.cpp:637`, `ThreadListExact`): it stays on the
  global list, where `OSExitThread` would have taken it off.
- *A thread exits owning two mutexes* (`os_thread.cpp:242`, `OwnerAlive`).  The thread is marked
  terminated before its mutexes are released; the first release may switch to a more
  urgent waiter, after which the terminated thread is never selected again and the
  rest stays locked.  With one mutex and a joiner, the joiner is not woken.
- *A cancelled sleeper's structure is created again* (`os_sleep.cpp:47`,
  `GuestSuspensionsKept`).  Its timer and park record survive; the reconciler takes the new
  thread, which starts suspended, for a stranded sleeper and starts it.
- *A thread is cancelled in a direct pump* that a more urgent thread interrupted (`os_alarm.cpp:225`, `fiber_manager.cpp:321-327`,
  `GuardAccounted`).  The host fiber is deleted without unwinding it, `~AlarmProcessScope` never runs, and the guard
  stays up for good: no alarm is dispatched again.
- *A handler sleeps in the idle loop* (`os_sleep.cpp:395`, `GuestRunsAsItself`).  Nobody is running there, and `OSSleepThread` takes
  the default thread for its caller, which may be asleep on another queue.
- *A structure is created again while its old thread has joiners* (`os_thread.cpp:298`, `QueuedByState`): its join queue is emptied and
  the joiners stay waiting on no queue.

Related: `GuestSuspensionsKept` holds in `alarms`, where one thread naps.
With two napping threads in one batch of due timers it does not: serving the
first may run a thread that resumes and suspends the second, whose
timer, recognised as live by the thread's shape only, then undoes the new suspension.

## Fairness

Kernel (`FairSpec`, used by `nap`):

- `WF_vars(KernelStep)`: the host thread goes on executing the kernel call it is
  in.  Guest code is not assumed to make any call.
- `SF_vars(TimerFound(t))`: a timer the pump looks at again and again is found due
  at some time.  Deadlines are fixed points of the clock, so after it has passed every look finds it.
- `SF_vars(StrandNoted(t))`, `SF_vars(StrandHealed(t))`: the same for the
  reconciler's interval and its two sightings.  They are conditions on time
  passing, and each is an action that exists in `Next`; strong fairness is
  needed because other steps disable them between two looks.

`IdleSleepersWake` is conditional on `[]<>At("idle")`, since a thread that never
goes idle or calls the kernel can starve the others on this scheduler, as on the console.

Network: weak fairness of `ResolveDeferredDns` (a host thread), of `PumpStarts(None)` (the
idle loop pumps) and of `Pumping` (the host thread goes on); strong fairness of
`DeadlinePasses` (time), of `CallbackReturns` (guest callbacks return) and of `TakeSyncResult(t)` (a
woken thread runs at some time).  An endless poll on a live socket is
exempt from `BlockedCallsReturn`: it may wait for ever.

OpenXR: weak fairness of `FrameWorkerStep` and `PacingStep` (host threads), of
`Frames` and `StopAurora` (the producer goes on); strong fairness of `ShutdownStep`, because the
producer looks at the teardown request at every retrace, between
frames, and of `DeadlinePasses`, because the 250 ms are counted while other steps come and go.  No
fairness makes the guest render the scene that was asked for.

Audio: weak fairness of `WorkerStep` and `HostStep`; strong fairness of `CallbackReturns`.
`TicksEnd` also rests on `MaxMixes`: callbacks send finitely many lists.

## Proofs

### Kernel

`GuestKernel_proof` proves, for every set of threads, mutexes, queues and
alarms, every number of priorities, every choice of the calls the game makes and
every bound:

- `TypeCorrect`: `Spec => []TypeOK`;
- `PendingMaskExact`: `Spec => []PendingExact`;
- `MutexesSound`: `Spec => []MutexesConsistent`.

The assumptions are those of the modules: `QueueConstants` (finitely many
threads, a null pointer that is neither thread nor mutex), `NoneIsNoQueue`
and `KernelConstants` (the default thread is a thread, the idle context is not,
initial priorities are priorities).

The inductive invariant is `KInv == TypeOK /\ MutexesConsistent /\ PendingExact`.
`TypeOK` alone is not inductive:

- `PickThread` takes the head of the most urgent run queue marked pending, and
  of a mask without `PendingExact` nothing says that this queue exists or has a head;
- `OSUnlockMutex` decrements a lock count, which stays a natural number because
  the mutex has an owner and therefore a positive count (`MutexesConsistent`).

And in the other direction `MutexesConsistent` needs the types of the
frames on every stack: a `lock` frame is always about a thread and a mutex.

That every run queue index is in range is the delicate part of `TypeOK`.  A
suspended waiter has priority 32; that no *runnable* thread has it is
`RunnableHasRunQueue`, which rests on queues and states agreeing, and this the
return of an entry function breaks (see [known limits](#known-limits-of-the-kernel)).  The model therefore has one run
queue more than the code, standing for the memory after the array; `TypeOK` is
then provable without assumptions on the guest, and `RunnableHasRunQueue` is the
separate property that the extra queue is never needed (`SoundQueues` below).

The proof is laid out bottom up: what unlinking and inserting do to a list's
type and elements; that each of the list operators keeps `Links` and
`PendingMatches` (`RemoveLinks`, `InsertLinks`, `LinkRunQueue`, `PopBlockQueue`,
`PopRunQueueLinks`); that frames built by the constructors are well formed and that
`Return`, `Continue` and `Call` keep the stacks well typed; a lemma for each
action or group of similar actions; `InitInv`, `NextInv` and `Invariance`.  For
the mutexes the two facts that carry the argument are `UnlinkElements` (unlinking
a mutex from an owned list without duplicates removes it and nothing else) and `Released`
(a mutex taken off its owner's list and given up leaves the others consistent).

### Scheduler

`GuestScheduler_proof` proves what does not hold of every guest, because the [known limits](#known-limits-of-the-kernel)
break it.  Each hypothesis excludes one of them and nothing else; none bounds the number of threads, mutexes, queues,
alarms or priorities, or the order of calls.

- `GuestContract`: threads end by `OSExitThread` or are cancelled, no entry function returns; an alarm handler
  makes no call that blocks or ends a thread.  The handler borrows whatever fiber was interrupted, the
  idle loop's included, where `OSSleepThread` would take the default thread for its caller.
- `CreatesFresh`: no structure is created again while somebody still waits to join the thread it
  held, since `OSCreateThread` empties the join queue it finds.
- `EndsUncontended`: no thread exits or is cancelled while somebody waits for a mutex it owns.  `EndsKeepCreatesFresh` shows
  that `CreatesFresh` follows from it.
- `PumpsUncut`: no thread is cancelled, or its structure created again, while it is in the middle of a pump.

| theorem | hypotheses beside `GuestContract` | property |
| --- | --- | --- |
| `GuestIdentity` | `CreatesFresh` | `GuestRunsAsItself` |
| `SoundQueues` | `CreatesFresh` | `QueuesSound` |
| `NoThreadLost` | `CreatesFresh` | `QueuedByState` |
| `FreeMutexHasNoWaiter` | `CreatesFresh` | `NoWaiterOnFreeMutex` |
| `NoLockLeftBehind` | `EndsUncontended` | `OwnershipSound` |
| `LifeCycle` | `EndsUncontended` | `LifeCycleSound` |
| `OwnersInherit` | `EndsUncontended` | `InheritsPriority` |
| `GuardOfOnePump` | `CreatesFresh`, `PumpsUncut` | `PumpGuarded` |

`OnePump` says the first part of `PumpGuarded`, `OneAlarmPump`, without any of these hypotheses: `Spec => []OneAlarmPump`.

The instances of `mutex`, `lifecycle` and `alarms` keep `GuestContract` and `CreatesFresh`; `lifecycle` and `alarms` have no
mutexes and so keep `EndsUncontended`, which `mutex` goes beyond (a less urgent thread cancels contended owners);
`alarms`, where nobody is cancelled, keeps `PumpsUncut`.  `nap` and `messages`, where entry functions return, are about guests outside the contract.

The argument rests on `SchedInv == ControlOK /\ ThreadsOK`.

- `ThreadsOK` ties a thread's links to its state, suspend count and priority.  It is what the properties say, for all
  threads at once, but a step keeps it only if the kernel is about to do what its stack says.
- `ControlOK` is about that stack.  The fiber on the CPU is in one of three modes (`Mode`): its thread is running; or it can no
  longer run, switches are not held back, and there is a frame that leads to a switch with nothing above it but frames that run
  to their end without a switch; or nobody runs and the fiber executes the idle loop, above which lie wakeups, resumes
  and handlers only.  The disable count is the number of frames that hold switches back, and all other fibers are
  suspended in calls that may be resumed in any state (`OtherOK`).

Without `ControlOK` nothing is inductive: that a thread that put itself on a queue really leaves the CPU before guest code
continues is a fact about frames several calls deep, below timers, reconciler and wakeups that may be pushed at `SelectThread`'s entry.
The lemmas `PushOK`, `PopOK`, `KeyOK`, `DeferOK` and `UndeferOK` say how the modes
survive calls and returns, and each action has a lemma (`SleepControl`, `PickThreadControl`, `ResumeControl`, ...).

Four more invariants are proved with it.

- `SleepInv`: a call about to sleep is on top of the stack, or under the promotion it waits for, and what it sleeps for can still
  happen (the mutex has an owner, the thread to join lives).  What `OSLockMutex` saw is therefore still so when the thread is linked.
- `EndInv`: either no termination is under way and who is gone owns nothing (`Settled`), or one is, alone, and next
  releases a mutex nobody waits for (`Releasing`).  Contended, the first release may switch away for good; hence `EndsUncontended`.
- `LendInv`: an owner less urgent than a thread blocked on its mutex is the one the kernel has turned to, the argument of the
  `PromoteThreadPriority` or `PropagateMutexOwnerPriority` on top of the stack, and a promotion brings it far enough
  (`Lending`).  The kernel finds the next owner because a waiting thread records its mutex (`WaitsRecorded`), and a
  thread is linked on the queue only after it has lent its priority (`LendsFirst`).  A change of one thread's priority disturbs
  one owner at most (`LentOthers`); the rest is what `ComputeThreadEffectivePriority` is worth when queues are
  sorted and owners list their mutexes (`EffectiveBound`).  From `EndInv` comes that who has ended owns nothing: such a thread keeps its priority.
- `AlarmInv`: at most one fiber pumps, with one loop, and the guard is 1 while it does.  A pump is the first call of its
  fiber, or lies above a frame that keeps the fiber on the CPU, the idle loop or the end of a deferral, or above the loop
  whose handler called it (`Fits`).  Together with `OtherOK`, which says that a suspended fiber has no such frame, this leaves only
  direct pumps on the stacks of fibers that are not on the CPU.  `AlarmInv` itself needs no hypothesis on the guest:
  `ProcessAlarmQueue` enters the loop only with the guard down, and then nobody pumps; when a stack is given up, the guard is at
  worst up for nobody.  That it is not is `GuardAccounted`, which a step loses only by cutting a pump (`NextAlarm`).

### Message queue

`GuestMessages_proof` proves `MsgImplementsDeque`: `MsgSpec => ImplementsDeque`, for every capacity, zero included (where the
code drops what is sent, and the deque stutters), every set of messages and threads, and every guest.  The
initial states map to the empty deque, and every step of `MsgNext` to `Send`, `Jam`, `Receive` or a stutter.
`MsgKernelSound` repeats the kernel's three theorems for `MsgSpec`, whose guests make message calls as well.

The invariant `MsgInv` is `KInv`, `RingOK` (first and used stay within the array) and `FramesCarry`: a `send` or `jam` frame
on any stack holds one of the messages.  The last is the point of the proof.  A sender that finds the queue full sleeps
with its message in its frame, while every other kernel call may run; `KernelCarries` and `GuestCarries` show, action by
action, that none of them makes or alters such a frame.  The rest is arithmetic:
`SlotFacts` says that `(first + i - 1) % MsgCount` enumerates distinct slots, from which `EnqueueSends`, `JamJams` and `DequeueReceives`
compare `Contents` before and after.  Assumption: `MessageConstants`.

`NoWakeupLost`: `MsgSpec => []NoLostWakeup`, for every capacity and every guest that keeps `GuestContract` and `CreatesFresh`, whose handlers use the
`Try` calls (`MsgContract`), and which leaves the two thread queues to the message queue
(`QueuesOwned`: nobody calls `OSSleepThread` on them).  The invariant `WakeInv` says that a blocking call lies at the bottom of
its stack (`Bottoms`), so its thread is running when it decides to sleep, and that the only fiber about to sleep
on one of the two queues is the one on the CPU, where the queue is still as the call found it (`MsgSleeps`).  `NextMoves`
shows that no kernel step touches these frames.  Message calls keep `SchedInv`, so the scheduler's theorems about identity,
queues and states hold of `MsgSpec` as well (`MsgSchedulerSound`).

### Frame worker

`FWHandshake`: `FWSpec => []HandshakeHonest`, for every set of tags, any sequence of frames and
any surface reconfiguration.  The inductive invariant `FWInv` adds three facts to the types:

- `QueuedForIdle`: a queued frame waits for a worker between two cycles, or gone;
- `DoneIsSealed`: SEALED is up before DONE, so `end_frame` may wait for DONE alone;
- `NoPermitInGap`: between `end_frame` and `begin_frame` a cycle under way has no permit.

`PhasesHonest` says that the worker is out of what it shares with the producer once SEALED is
set.  It is not inductive: a job queued for a worker in the middle of a cycle would be
taken up with SEALED still set for the old one.  `NoPermitInGap` is the same for `PermitFresh`.

### OpenXR

For every set of tags and tokens:

- `XrImplementsFrameWorker`: `Spec => FWSpec`.  The composition restricts the frame worker and
  adds nothing to it; each of its steps is a step of `FrameWorker` or leaves it alone;
- `XrHandshake`: `Spec => []HandshakeHonest`, from that and `FWHandshake`;
- `XrTeardown`: `Spec => []NothingUsedAfterTeardown`;
- `XrImageHeld`: `Spec => []ImageHeldWhileWritable`;
- `XrNoOrphan`: `Spec => []NoOrphanedJob`;
- `XrShowsOwn`: `Spec => []ShowsOwnImage`.

The assumptions: there is a tag, `None` is no token, packet, job or image, and a token can always be
found that differs from a given one (serials are not reused in the code).

`XrInv` holds these together:

- `StereoPlaced` says in which parts of a cycle the worker is inside a provider or sink call, and `TeardownOrdered` that no
  cycle is under way from the end of the quiesce to the join, and that `stop_` is up before the pacing
  thread takes anything down; `NothingUsedAfterTeardown` rests on the two;
- `TargetExpected`: the bridge holds a target exactly while the backend expects an answer;
- `JobAgreed`: in the pacing loop `FrameDelivery` and the backend agree on the job, whose image is acquired and may be
  released; outside it nothing is left to deliver.  `NoOrphanedJob` follows from the two;
- `UnfencedEndsLoop`: a copy no fence answers for ends the loop; without it the next round could
  release an image the GPU may still write;
- `SynchronousLoop`: without asynchronous presentation a frame is finished after its answer only, and begun with nothing pending;
- `DrawnForJob`: what was drawn for whom, and what the cached layer describes, which carries poses, session run and scene of a packet to
  the image that answers it (`ShowsOwnImage`).

The parts are proved one lemma each.  What an action of many alternatives amounts to is said once, by the
lemmas named `...Effect` and `...Moves`; `FWInv` holds in every state along the way by the refinement.

### Audio

For every set of aux buffers and every bound: `AxMixOwns`, `AxReadsMailTime` and `AxOneTick` are `Spec => []` of
`MixOwnsItsState`, `ReadsMailTimeAux` and `OneTickAtATime`; `AxAuxOnce` is the action property
`Spec => AuxPublishedOnce`.  `AxInv` needs, beside `NoneBesideMix` and `ReadsMailTimeAux`:

- `WorkerKnown`: a list is pending, then taken, never both, and only a live worker has one;
- `TornWhileWriting`: the output is torn only while a mix writes it, so no push can meet a torn one;
- `MixOfMail`: a mix on the worker is a deferred one, with the aux input of its mail;
- `TickKnown`: the tick's flag and its depth agree, and callbacks run within a tick, from which it follows
  that the DMA callback cannot enter a second one;
- `AuxBehind`: guest memory is behind the mix under way and behind the block it left, and nobody who has joined
  finds a block left to publish.  This makes "once and in order" of `AuxPublishedOnce` a consequence of one state
  rather than of the history;
- `BoundsKept`: what `SendMail` and `DSPAddTask` checked still holds when it is used after the join.

The assumptions are that the bounds are natural numbers and that there is an aux buffer.

### Network

For any number of slots, host descriptors, threads, generations and deferred calls:
`NetDescriptors`, `NetPeers`, `NetWoken`, `NetNoLostCall` and `NetOneCallback` are `Spec => []` of
`DescriptorsOwned`, `PeerMeansConnected`, `WokenWithOwnResult`, `NoLostCall` and `OneCallbackAtATime`, and
`NetAnswers` is the action property `Spec => AnsweredWhileWaiting`.

`SockInv` is the part of the socket table and is kept by every action of `NetworkSockets`.  Beside the two
properties and the types it has `GensOld` (generations are below the counter) and `SslKnown`.  The actions of the table also satisfy
`OldSocketsKept`: a slot whose generation is not new holds the host socket it held before, and a connection that is up stays up.
That is what a deferred connect relies on when it records a peer by slot and generation, long after the call:
`ConnectsHonest` says that a connect that has succeeded is up for as long as its socket is there.

`NetInv` adds who can be where: `OpsKnown` (a call is older than the next token, and a thread that
wants its result is the one that made it), `CallersKnown` (a sleeper's frame holds the token it will redeem, and no two
threads hold one), `LookupsKnown`, and `PumpKnown` (the pump serves while calls are left, and drains only where no callback runs).
`WokenWithOwnResult` and `NoLostCall` are part of it: neither the result a thread finds nor the call it
waits for can be told apart from another's without tokens that are handed out once.

The assumptions are that the bounds are natural numbers, `MaxGen` not zero, and that `None` is neither thread nor
descriptor.

### NAND

For any number of paths, blocks, `NANDFileInfo`s and opens, with host calls that fail, process deaths and power failures
anywhere: `NandOldOrNew`, `NandPublished` and `NandSafeClose` are `Spec => []` of `OldOrNew`,
`PublishedOwnImage` and `SafeCloseHonest`.

The argument, `NandInv`, is about who owns a scratch file.  `HandlesKnown`: one open handle, alone, and the file holds what that handle
expects, the opened image with its own writes.  `JobKnown`: from `CloseBegins` on, the close under way, and what is
renamed is on the disk.  `GuardedWhole`: whatever entry of a guarded path survives, in the cache or in the durable directory, is a
whole save and on the disk, so that a power failure has nothing to tear.  `DroppedKnown`: an info whose close failed has
no handle and no close under way, and one of `NANDSafeOpen` stays marked so, which is how `NANDSafeClose` knows.
Assumptions: `MaxFd` is a natural number and `None` is no directory entry.

### What the proofs changed in the models

`PumpAt` and `ProbeDeferredConnect` of the network model had `CASE` arms whose guards overlapped; TLC takes the
first arm, and the semantics of TLA+ any.  The arms are now disjoint.  The pump's erasure from a store removes
one element, as `std::vector::erase` does, not all equal ones.  The assumptions named
above were implicit in the instances.

### Only model-checked

- The liveness properties `KernelReturns`, `IdleSleepersWake`, `CallsComplete`, `NobodyStuck` and `AudioGetsOn`: the
  prover has no rules for fairness and `ENABLED`.
- `MostUrgentRuns` and `GuestSuspensionsKept`.  They hold in the instances checked and not of
  every guest under the contract: the deferred pump gives switches free without rescheduling, so a thread a handler
  woke may wait until the next kernel call; and two nappers in one batch, or a structure created again, lose a
  suspension (known limits).
- The scheduler's properties for guests outside the contract, as far as `mutex` and `messages` show them.
- `CloseHonest` and `AlarmPumpFree` are violated.

## Abstractions and what is left out

- The thread switch callback, `OSSaveContext` and register contents; host
  stacks.  Interrupts are never raised asynchronously; the interrupt mask is left out.
- Video and audio polling in the idle loop of the kernel model.  What the alarm pump serves after
  its scope is `NetworkDeferred`.
- The default thread neither exits nor is cancelled: the game never does
  so, and the scheduler's fiber is its own.
- Alarms are a set: fire times are open, so the order of the queue is too.
  `OSSetAlarm` is called on idle alarms only, as the SDK requires;
  `OSCancelAlarm` is translated guest code.
- Unlinking a thread that is not on the list its pointer names leaves the lists
  alone in the model, where the code would patch neighbours' links;
  `StalePointerHarmless` shows that it does not come to this.
- Error paths for null and unmapped guest addresses.
- Threads call join on other threads only, suspend and resume on threads that
  exist, and create on structures that are free: the SDK's contract.
- Conditions and `OSTryLockMutex`, `OSSetThreadPriority`: translated guest code
  that calls the functions modelled here.
- Network: payloads, addresses, socket options, errors beyond success and failure, the TLS
  handshake.  The guest is assumed not to cancel a thread while a completion callback runs
  on it (`g_nandCallbackDrainDepth` would stay raised), not to poll endlessly inside a
  callback, and to bind one session per descriptor.  A result whose woken
  caller is cancelled stays in `syncResults`; the code leaks it too.
- NAND: `NANDSafeOpen` is called on paths without a live handle and a `NANDFileInfo` is not
  reopened while it is live, as the game's wrappers do; `fsync` of a directory succeeds.  Paths
  also changed in place are dropped from `guarded`: the code promises nothing for
  them, and the second of two writers of one path can lose its data to the first's
  commit.
- OpenXR: encode and submit under the bridge's mutex are one step, as is each piece of pacing
  code under one lock.  An untagged frame is one of foreign content.  Surface
  reconfiguration is reduced to whether `begin_frame` waits and whether a frame could be prepared.
- Audio: a mix without the worker is one step; `DSPAddTask` comes from the main program only; with
  no backend a push has no effect.
- Most of the repository's lines translate GX commands, shaders, textures, floating-point
  poses and PowerPC instructions to their host counterparts, or parse and emit code offline.
  They keep no protocol state, their input spaces are out of TLC's reach, and a
  model of them would restate them.  The mapped lines are a small share of
  the repository for that reason; what is modelled are the parts in which
  several actors meet.
- The components listed as not modelled in `PROJECT.json`, each with its reason.

## Plan

1. *Done*: queues, kernel, message queues and the theorems above; network, save files, frame
   worker and OpenXR, audio.
2. The retrace and present guards of the video interface; the EGG task thread as a client of
   `GuestMessages`; the asynchronous DVD command blocks.
3. *Done*: the theorems about the message queue, frame worker, presentation, audio, network and save files.
4. *Done*: the theorems about the scheduler under a contract of the guest, priority inheritance, and `NoLostWakeup`.
