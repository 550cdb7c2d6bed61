--------------------------- MODULE AxMixer_proof ---------------------------
(***************************************************************************)
(* The mix worker owns what it mixes, reads what the mail found, and hands  *)
(* its aux block over once; the AI tick is not re-entered.                  *)
(*                                                                         *)
(* AxInv is the inductive invariant: beside the properties it says who      *)
(* joined what.  A joiner stands at a quiet worker with nothing left to     *)
(* publish, and no buffer is as young as a block that waits to be published.*)
(***************************************************************************)
EXTENDS AxMixer, TLAPS

\* A list is pending, then taken, and only a live worker has one.
WorkerKnown ==
    /\ worker.pending \/ worker.busy => worker.alive
    /\ ~(worker.pending /\ worker.busy)

\* The AI frame is torn only while a mix writes it.
TornWhileWriting == pcm = "torn" => worker.busy /\ mix.at = "writing"

\* A mix on the worker is a deferred one, with the aux input of its mail.
MixOfMail ==
    ~Quiet => /\ mix.deferred
              /\ mix.input = IF mix.from = mix.to THEN Raw(mix.n) ELSE mix.auxIn

\* Where the guest's thread is within a tick's own code.
InTick ==
    \/ guest.at \in {"claim", "push", "call", "service", "next", "end"}
    \/ guest.at = "join" /\ guest.then = "push"

\* The tick's flag and its depth agree; callbacks run within a tick.
TickKnown ==
    /\ ai.depth = IF ai.active THEN 1 ELSE 0
    /\ InTick => ai.active /\ guest.level = "main"
    /\ guest.level # "main" => ai.active

\* What SendMail and DSPAddTask checked still holds when it is used, and a tick
\* has blocks left until its end.
BoundsKept ==
    /\ guest.at = "dispatch" \/ (guest.at = "join" /\ guest.then = "dispatch") =>
          mix.n < MaxMixes /\ resume < MaxResume
    /\ guest.at = "configure" \/ (guest.at = "join" /\ guest.then = "configure") =>
          resume < MaxResume
    /\ guest.at # "end" => guest.blocks < MaxBlocksPerTick

\* Guest memory is behind the mix under way, and behind the block it left.
AuxBehind ==
    /\ \A b \in Bufs : aux[b].mix <= mix.n
    /\ ~Quiet \/ auxOut # None => \A b \in Bufs : aux[b].mix < mix.n
    /\ auxOut # None => auxOut.mix = mix.n
    /\ guest.at \in Joiners => auxOut = None

\* The inductive invariant.
AxInv ==
    /\ TypeOK
    /\ WorkerKnown /\ NoneBesideMix /\ TornWhileWriting /\ MixOfMail /\ ReadsMailTimeAux
    /\ TickKnown /\ BoundsKept /\ AuxBehind

\* Before the first list there is a mix numbered 0.
LEMMA NoMixType == NoMix \in Mixes /\ NoMix.n = 0 /\ NoMix.read = None
  <1>1. (CHOOSE b \in Bufs : TRUE) \in Bufs
    BY BufsAssumption
  <1> QED
    BY <1>1, BoundsAssumption DEF NoMix, Mixes, Contents, Raw

\* What a field update leaves a value of its type.
LEMMA GuestValues ==
    ASSUME NEW g \in Guests, NEW p \in Places, NEW k \in 0..MaxBlocksPerTick
    PROVE  [g EXCEPT !.at = p, !.blocks = k] \in Guests
  BY DEF Guests

\* The AI DMA state after a change of its counters.
LEMMA AiValues ==
    ASSUME NEW a \in AIDmaStates, NEW b \in 0..MaxBacklog, NEW c \in BOOLEAN, NEW d \in 0..2
    PROVE  [a EXCEPT !.backlog = b, !.active = c, !.depth = d] \in AIDmaStates
  BY DEF AIDmaStates

\* The auxiliary buffers after a block is written or processed.
LEMMA AuxValues ==
    ASSUME NEW x \in [Bufs -> Contents], NEW b \in Bufs, NEW n \in 0..MaxMixes
    PROVE  /\ [x EXCEPT ![b] = Raw(n)] \in [Bufs -> Contents]
           /\ [x EXCEPT ![b].processed = TRUE] \in [Bufs -> Contents]
  BY DEF Contents, Raw

\* A number of a mix, one on while there is room for it.
LEMMA NextMix == AxInv /\ guest.at = "dispatch" => mix.n + 1 \in 0..MaxMixes
  <1> SUFFICES ASSUME AxInv, guest.at = "dispatch" PROVE mix.n + 1 \in 0..MaxMixes
    OBVIOUS
  <1>1. mix.n \in 0..MaxMixes /\ mix.n < MaxMixes
    BY DEF AxInv, TypeOK, Mixes, BoundsKept
  <1> QED
    BY <1>1, BoundsAssumption

\* A mix that is over keeps its number.
LEMMA OverValues ==
    ASSUME NEW m, m.n \in 0..MaxMixes
    PROVE  /\ Over(m) \in Mixes /\ Over(m).n = m.n /\ Over(m).read = None
           /\ Over(m).at = "none"
  <1>1. NoMix \in Mixes /\ NoMix.read = None /\ NoMix.at = "none"
    BY NoMixType DEF NoMix
  <1> QED
    BY <1>1 DEF Over, Mixes

\* What a mail, a configuration call and a claimed block do to the guest's thread:
\* each leaves the worker and what it owns alone, and stands short of its join.
LEMMA JoinThenEffect ==
    ASSUME TypeOK, NEW place, JoinThen(place)
    PROVE  /\ guest'.at = "join" /\ guest'.then = place
           /\ guest'.level = guest.level /\ guest'.blocks = guest.blocks
  BY DEF TypeOK, JoinThen, Guests

\* A mail: the address of a list is dispatched after a join.
LEMMA SendMailEffect ==
    ASSUME TypeOK, SendMail
    PROVE  /\ guest.at = "run" /\ UNCHANGED <<resume, ai, mixVars>>
           /\ guest'.at \notin Joiners /\ guest'.at \in {"run", "join"}
           /\ guest'.level = guest.level /\ guest'.blocks = guest.blocks
           /\ guest'.at = "join" =>
                 guest'.then = "dispatch" /\ mix.n < MaxMixes /\ resume < MaxResume
  <1>1. guest.at = "run" /\ UNCHANGED <<resume, ai, mixVars>>
    BY DEF SendMail
  <1>2. CASE mix.n < MaxMixes /\ resume < MaxResume /\ JoinThen("dispatch")
    <2>1. /\ guest'.at = "join" /\ guest'.then = "dispatch"
          /\ guest'.level = guest.level /\ guest'.blocks = guest.blocks
      BY <1>2, JoinThenEffect
    <2> QED
      BY <1>1, <1>2, <2>1 DEF Joiners
  <1>3. CASE UNCHANGED guest
    BY <1>1, <1>3 DEF Joiners
  <1> QED
    BY <1>2, <1>3 DEF SendMail

\* A configuration call of the DSP or of the audio system, before its join.
LEMMA ConfigureDspEffect ==
    ASSUME TypeOK, ConfigureDsp
    PROVE  /\ guest.at = "run" /\ UNCHANGED <<resume, mixVars>>
           /\ guest'.at = "join" /\ guest'.at \notin Joiners
           /\ guest'.then \in {"initialize", "configure", "stop"}
           /\ guest'.then = "configure" => resume < MaxResume
           /\ guest'.level = guest.level /\ guest'.blocks = guest.blocks
           /\ ai'.active = ai.active /\ ai'.depth = ai.depth
  <1>1. guest.at = "run" /\ UNCHANGED <<resume, mixVars>>
    BY DEF ConfigureDsp
  <1>2. ai'.active = ai.active /\ ai'.depth = ai.depth
    <2>1. ai \in AIDmaStates
      BY DEF TypeOK
    <2> QED
      BY <2>1 DEF ConfigureDsp, AIDmaStates
  <1>3. \E place \in {"initialize", "configure", "stop"} :
           JoinThen(place) /\ (place = "configure" => resume < MaxResume)
    <2>1. CASE JoinThen("initialize")
      BY <2>1
    <2>2. CASE resume < MaxResume /\ JoinThen("configure")
      BY <2>2
    <2>3. CASE JoinThen("stop")
      BY <2>3
    <2> QED
      BY <2>1, <2>2, <2>3 DEF ConfigureDsp
  <1>4. PICK place \in {"initialize", "configure", "stop"} :
           JoinThen(place) /\ (place = "configure" => resume < MaxResume)
    BY <1>3
  <1>5. /\ guest'.at = "join" /\ guest'.then = place
        /\ guest'.level = guest.level /\ guest'.blocks = guest.blocks
    BY <1>4, JoinThenEffect
  <1> QED
    BY <1>1, <1>2, <1>4, <1>5 DEF Joiners

\* The tick's next block, or its end.
LEMMA ClaimBlockEffect ==
    ASSUME TypeOK, ClaimBlock
    PROVE  /\ guest.at = "claim" /\ UNCHANGED <<resume, mixVars>>
           /\ guest'.at = "end" \/ (guest'.at = "join" /\ guest'.then = "push")
           /\ guest'.at \notin Joiners
           /\ guest'.level = guest.level /\ guest'.blocks = guest.blocks
           /\ ai'.active = ai.active /\ ai'.depth = ai.depth
  <1>1. guest.at = "claim" /\ UNCHANGED <<resume, mixVars>>
    BY DEF ClaimBlock
  <1>2. ai'.active = ai.active /\ ai'.depth = ai.depth
    <2>1. ai \in AIDmaStates
      BY DEF TypeOK
    <2> QED
      BY <2>1 DEF ClaimBlock, AIDmaStates
  <1>3. CASE Goto("end")
    <2>1. guest'.at = "end" /\ guest'.level = guest.level /\ guest'.blocks = guest.blocks
      BY <1>3 DEF TypeOK, Goto, Guests
    <2>2. guest'.at \notin Joiners
      BY <2>1 DEF Joiners
    <2> QED
      BY <1>1, <1>2, <2>1, <2>2
  <1>4. CASE JoinThen("push")
    <2>1. /\ guest'.at = "join" /\ guest'.then = "push"
          /\ guest'.level = guest.level /\ guest'.blocks = guest.blocks
      BY <1>4, JoinThenEffect
    <2>2. guest'.at \notin Joiners
      BY <2>1 DEF Joiners
    <2> QED
      BY <1>1, <1>2, <2>1, <2>2
  <1> QED
    BY <1>3, <1>4 DEF ClaimBlock

\* The next deferred resume callback, or the end of their loop.
LEMMA ServiceEffect ==
    ASSUME TypeOK, ServiceDeferredCallbacks
    PROVE  /\ guest.at = "service" /\ UNCHANGED <<ai, mixVars>>
           /\ \/ guest'.at = "next" /\ guest'.level = guest.level
              \/ guest'.at = "run" /\ guest'.level = "resume"
           /\ guest'.at \notin Joiners
  <1>1. guest.at = "service" /\ UNCHANGED <<ai, mixVars>>
    BY DEF ServiceDeferredCallbacks
  <1>2. CASE Goto("next")
    <2>1. guest'.at = "next" /\ guest'.level = guest.level
      BY <1>2 DEF TypeOK, Goto, Guests
    <2>2. guest'.at \notin Joiners
      BY <2>1 DEF Joiners
    <2> QED
      BY <1>1, <2>1, <2>2
  <1>3. CASE guest' = [guest EXCEPT !.at = "run", !.level = "resume"]
    <2>1. guest'.at = "run" /\ guest'.level = "resume"
      BY <1>3 DEF TypeOK, Guests
    <2>2. guest'.at \notin Joiners
      BY <2>1 DEF Joiners
    <2> QED
      BY <1>1, <2>1, <2>2
  <1> QED
    BY <1>2, <1>3 DEF ServiceDeferredCallbacks

\* What the dispatch of a list leaves: a deferred mix that the worker is to take,
\* or one that is over, with its upload in guest memory.
Posted ==
    /\ mix'.deferred
    /\ mix'.input = IF mix'.from = mix'.to THEN Raw(mix'.n) ELSE mix'.auxIn
    /\ worker' = Started
    /\ UNCHANGED <<aux, auxOut, pcm>>
Inline ==
    /\ \E b \in Bufs : aux' = [aux EXCEPT ![b] = Raw(mix.n + 1)]
    /\ UNCHANGED <<worker, auxOut>>
    /\ pcm' = "whole"

\* A dispatched command list begins one mix, on the worker or inline.
LEMMA Dispatched ==
    AxInv /\ DispatchCommandList =>
        /\ mix' \in Mixes /\ mix'.n = mix.n + 1 /\ mix'.read = None
        /\ guest.at = "dispatch" /\ guest' = [guest EXCEPT !.at = "run"]
        /\ Posted \/ Inline
  <1> SUFFICES ASSUME AxInv, DispatchCommandList
               PROVE  /\ mix' \in Mixes /\ mix'.n = mix.n + 1 /\ mix'.read = None
                      /\ Posted \/ Inline
    BY DEF DispatchCommandList, Goto
  <1>n. mix.n + 1 \in 0..MaxMixes
    BY NextMix DEF DispatchCommandList
  <1>a. aux \in [Bufs -> Contents]
    BY DEF AxInv, TypeOK
  <1> DEFINE M(to, from, deferred) ==
               [n |-> mix.n + 1, to |-> to, from |-> from,
                deferred |-> deferred, auxIn |-> aux[from],
                input |-> IF from = to THEN Raw(mix.n + 1) ELSE aux[from],
                read |-> None, at |-> "aux"]
  <1>1. PICK to \in Bufs, from \in Bufs, deferred \in BOOLEAN :
            IF deferred
            THEN /\ mix' = M(to, from, deferred)
                 /\ worker' = Started
                 /\ UNCHANGED <<aux, auxOut, pcm>>
            ELSE /\ WriteAuxOut(M(to, from, deferred))
                 /\ mix' = Over(M(to, from, deferred))
                 /\ pcm' = "whole"
                 /\ UNCHANGED worker
    BY DEF DispatchCommandList, Snapshot
  <1>2. CASE deferred
    <2>1. mix' = M(to, from, TRUE) /\ worker' = Started /\ UNCHANGED <<aux, auxOut, pcm>>
      BY <1>1, <1>2
    <2>2. aux[from] \in Contents /\ Raw(mix.n + 1) \in Contents
      BY <1>n, <1>a DEF Contents, Raw
    <2>3. mix' \in Mixes
      BY <2>1, <2>2, <1>n DEF Mixes
    <2>4. mix'.n = mix.n + 1 /\ mix'.read = None /\ mix'.deferred
          /\ mix'.from = from /\ mix'.to = to /\ mix'.auxIn = aux[from]
          /\ mix'.input = IF from = to THEN Raw(mix.n + 1) ELSE aux[from]
      BY <2>1
    <2> QED
      BY <2>1, <2>3, <2>4 DEF Posted
  <1>3. CASE ~deferred
    <2>1. WriteAuxOut(M(to, from, FALSE)) /\ mix' = Over(M(to, from, FALSE))
          /\ pcm' = "whole" /\ UNCHANGED worker
      BY <1>1, <1>3
    <2>2. M(to, from, FALSE).n = mix.n + 1 /\ M(to, from, FALSE).to = to
          /\ M(to, from, FALSE).deferred = FALSE
      OBVIOUS
    <2> HIDE DEF M
    <2>3. aux' = [aux EXCEPT ![to] = Raw(mix.n + 1)] /\ UNCHANGED auxOut
      BY <2>1, <2>2 DEF WriteAuxOut
    <2>4. mix' \in Mixes /\ mix'.n = mix.n + 1 /\ mix'.read = None
      BY <2>1, <2>2, <1>n, OverValues
    <2> QED
      BY <2>1, <2>3, <2>4 DEF Inline
  <1> QED
    BY <1>2, <1>3

\* Every step keeps the variables in their types.
LEMMA TypeStep == AxInv /\ Next => TypeOK'
  <1> SUFFICES ASSUME AxInv, Next PROVE TypeOK'
    OBVIOUS
  <1> USE BlocksAssumption, BoundsAssumption, NoMixType DEF AxInv, TypeOK
  <1>1. CASE TakeMix
    <2>1. worker' \in Workers
      BY <1>1 DEF TakeMix, Workers
    <2>2. auxOut' \in AuxBlocks \cup {None}
      BY <1>1 DEF TakeMix, AuxBlocks, Mixes
    <2> QED
      BY <1>1, <2>1, <2>2 DEF TakeMix, guestVars, mixVars
  <1>2. CASE MixAuxSamples
    <2>1. aux' \in [Bufs -> Contents]
      <3>1. CASE mix.deferred
        BY <1>2, <3>1 DEF MixAuxSamples, WriteAuxOut
      <3>2. CASE ~mix.deferred
        <4>1. aux' = [aux EXCEPT ![mix.to] = Raw(mix.n)]
          BY <1>2, <3>2 DEF MixAuxSamples, WriteAuxOut
        <4>2. mix.to \in Bufs /\ mix.n \in 0..MaxMixes
          BY DEF Mixes
        <4> QED
          BY <4>1, <4>2, AuxValues
      <3> QED
        BY <3>1, <3>2
    <2>2. auxOut' \in AuxBlocks \cup {None}
      BY <1>2 DEF MixAuxSamples, WriteAuxOut, AuxBlocks, Mixes
    <2>3. mix' \in Mixes
      <3>1. mix \in Mixes /\ aux \in [Bufs -> Contents]
        BY DEF TypeOK
      <3>2. ReadAuxIn(mix) \in Contents
        <4>1. Raw(mix.n) \in Contents /\ mix.auxIn \in Contents /\ aux[mix.from] \in Contents
          BY <3>1 DEF Mixes, Contents, Raw
        <4> QED
          BY <4>1 DEF ReadAuxIn
      <3>3. mix' = [mix EXCEPT !.read = ReadAuxIn(mix), !.at = "output"]
        BY <1>2 DEF MixAuxSamples
      <3> QED
        BY <3>1, <3>2, <3>3 DEF Mixes
    <2> QED
      BY <1>2, <2>1, <2>2, <2>3 DEF MixAuxSamples, guestVars, mixVars
  <1>3. CASE OutputSamples
    <2>1. pcm' \in {"whole", "torn"}
      BY <1>3 DEF OutputSamples
    <2>2. mix' \in Mixes
      BY <1>3 DEF OutputSamples, Mixes, Contents, Raw
    <2> QED
      BY <1>3, <2>1, <2>2 DEF OutputSamples, guestVars, mixVars
  <1>4. CASE OutputDone
    <2>1. pcm' \in {"whole", "torn"}
      BY <1>4 DEF OutputDone
    <2>2. mix' \in Mixes
      BY <1>4 DEF OutputDone, Mixes, Contents, Raw
    <2> QED
      BY <1>4, <2>1, <2>2 DEF OutputDone, guestVars, mixVars
  <1>5. CASE FinishMix
    <2>1. worker' \in Workers
      BY <1>5 DEF FinishMix, Workers
    <2>2. mix' \in Mixes
      BY <1>5 DEF FinishMix, Over, NoMix, Mixes, Contents, Raw
    <2> QED
      BY <1>5, <2>1, <2>2 DEF FinishMix, guestVars, mixVars
  <1>6. CASE WorkerExits
    <2>1. worker' \in Workers
      BY <1>6 DEF WorkerExits, Workers
    <2> QED
      BY <1>6, <2>1 DEF WorkerExits, guestVars, mixVars
  <1>7. CASE JoinMix
    <2>1. guest' \in Guests
      BY <1>7 DEF JoinMix, Guests, Places, Joiners, BoundsKept
    <2>2. aux' \in [Bufs -> Contents]
      BY <1>7 DEF JoinMix, PublishAuxOutputs, Contents, AuxBlocks, Mixes, Raw
    <2>3. auxOut' \in AuxBlocks \cup {None}
      BY <1>7 DEF JoinMix, PublishAuxOutputs, AuxBlocks, Mixes
    <2> QED
      BY <1>7, <2>1, <2>2, <2>3 DEF JoinMix, guestVars, mixVars
  <1>8. CASE DispatchCommandList
    <2>1. mail' \in {"size", "address", "next"}
      BY <1>8 DEF DispatchCommandList
    <2>2. resume' \in 0..MaxResume
      BY <1>8 DEF DispatchCommandList, BoundsKept
    <2>3. guest' \in Guests
      BY <1>8 DEF DispatchCommandList, Goto, Guests, Places, Joiners, BoundsKept
    <2>4. mix' \in Mixes
      BY <1>8, Dispatched
    <2>5. worker' \in Workers
      <3>1. Started \in Workers
        BY DEF Started, Workers
      <3> QED
        BY <1>8, <3>1, Dispatched DEF Posted, Inline
    <2>6. aux' \in [Bufs -> Contents]
      <3>1. CASE Posted
        BY <3>1 DEF Posted
      <3>2. CASE Inline
        <4>1. mix.n + 1 \in 0..MaxMixes
          BY <1>8, NextMix DEF DispatchCommandList
        <4>2. PICK b \in Bufs : aux' = [aux EXCEPT ![b] = Raw(mix.n + 1)]
          BY <3>2 DEF Inline
        <4> QED
          BY <4>1, <4>2, AuxValues
      <3> QED
        BY <1>8, <3>1, <3>2, Dispatched
    <2>7. auxOut' \in AuxBlocks \cup {None}
      BY <1>8, Dispatched DEF Posted, Inline
    <2>8. pcm' \in {"whole", "torn"}
      BY <1>8, Dispatched DEF Posted, Inline
    <2> QED
      BY <1>8, <2>1, <2>2, <2>3, <2>4, <2>5, <2>6, <2>7, <2>8 DEF DispatchCommandList,
         guestVars, mixVars
  <1>9. CASE Initialize
    <2>1. enabled' \in BOOLEAN
      BY <1>9 DEF Initialize
    <2>2. mail' \in {"size", "address", "next"}
      BY <1>9 DEF Initialize
    <2>3. resume' \in 0..MaxResume
      BY <1>9 DEF Initialize, BoundsKept
    <2>4. auxOut' \in AuxBlocks \cup {None}
      BY <1>9 DEF Initialize, AuxBlocks, Mixes
    <2>5. guest' \in Guests
      BY <1>9 DEF Initialize, Goto, Guests, Places, Joiners, BoundsKept
    <2> QED
      BY <1>9, <2>1, <2>2, <2>3, <2>4, <2>5 DEF Initialize, guestVars, mixVars
  <1>10. CASE Stop
    <2>1. mail' \in {"size", "address", "next"}
      BY <1>10 DEF Stop
    <2>2. resume' \in 0..MaxResume
      BY <1>10 DEF Stop, BoundsKept
    <2>3. guest' \in Guests
      BY <1>10 DEF Stop, Goto, Guests, Places, Joiners, BoundsKept
    <2> QED
      BY <1>10, <2>1, <2>2, <2>3 DEF Stop, guestVars, mixVars
  <1>11. CASE Configure
    <2>1. resume' \in 0..MaxResume
      BY <1>11 DEF Configure, BoundsKept
    <2>2. guest' \in Guests
      BY <1>11 DEF Configure, Goto, Guests, Places, Joiners, BoundsKept
    <2> QED
      BY <1>11, <2>1, <2>2 DEF Configure, guestVars, mixVars
  <1>12. CASE MemoryReset
    <2>1. guest' \in Guests
      BY <1>12 DEF MemoryReset, Goto, Guests, Places, Joiners, BoundsKept
    <2> QED
      BY <1>12, <2>1 DEF MemoryReset, guestVars, mixVars
  <1>13. CASE ClaimBlock
    <2>1. ai' \in AIDmaStates
      BY <1>13 DEF ClaimBlock, AIDmaStates, TickKnown, InTick
    <2>2. guest' \in Guests
      BY <1>13 DEF ClaimBlock, Goto, JoinThen, Guests, Places, Joiners, BoundsKept
    <2> QED
      BY <1>13, <2>1, <2>2 DEF ClaimBlock, guestVars, mixVars
  <1>14. CASE PushAudioBlock
    <2>1. ai' \in AIDmaStates
      <3>1. ai.depth = 1
        BY <1>14 DEF PushAudioBlock, TickKnown, InTick
      <3>2. ai.depth - 1 \in 0..2
        BY <3>1
      <3>3. [ai EXCEPT !.enabled = FALSE, !.active = FALSE, !.depth = ai.depth - 1]
              \in AIDmaStates
        BY <3>2 DEF AIDmaStates
      <3> QED
        BY <1>14, <3>3 DEF PushAudioBlock, AIDmaStates
    <2>2. guest' \in Guests
      <3>0. 0 \in 0..MaxBlocksPerTick
        OBVIOUS
      <3>g. [guest EXCEPT !.at = "run", !.blocks = 0] \in Guests
        <4>1. "run" \in Places
          BY DEF Places
        <4> QED
          BY <3>0, <4>1, GuestValues
      <3>1. CASE Goto(IF ai.callback THEN "call" ELSE "next")
        BY <3>1 DEF Goto, Guests, Places
      <3>2. CASE guest' = [guest EXCEPT !.at = "run", !.blocks = 0]
        BY <3>2, <3>g
      <3> QED
        BY <1>14, <3>1, <3>2 DEF PushAudioBlock
    <2> QED
      BY <1>14, <2>1, <2>2 DEF PushAudioBlock, guestVars, mixVars
  <1>15. CASE CallDmaCallback
    <2>1. guest' \in Guests
      BY <1>15 DEF CallDmaCallback, Guests, Places, Joiners, BoundsKept
    <2> QED
      BY <1>15, <2>1 DEF CallDmaCallback, guestVars, mixVars
  <1>16. CASE ServiceDeferredCallbacks
    <2>1. resume' \in 0..MaxResume
      BY <1>16 DEF ServiceDeferredCallbacks, BoundsKept
    <2>2. guest' \in Guests
      BY <1>16 DEF ServiceDeferredCallbacks, Goto, Guests, Places, Joiners, BoundsKept
    <2> QED
      BY <1>16, <2>1, <2>2 DEF ServiceDeferredCallbacks, guestVars, mixVars
  <1>17. CASE NextBlock
    <2>1. guest' \in Guests
      <3>1. guest.blocks + 1 \in 0..MaxBlocksPerTick
        BY <1>17 DEF NextBlock, Guests, BoundsKept
      <3> DEFINE p == IF guest.blocks + 1 >= MaxBlocksPerTick THEN "end" ELSE "claim"
      <3>2. p \in Places
        BY DEF Places
      <3>3. guest' = [guest EXCEPT !.at = p, !.blocks = guest.blocks + 1]
        BY <1>17 DEF NextBlock, Guests
      <3> QED
        BY <3>1, <3>2, <3>3, GuestValues
    <2> QED
      BY <1>17, <2>1 DEF NextBlock, guestVars, mixVars
  <1>18. CASE TickEnd
    <2>1. ai' \in AIDmaStates
      <3>1. ai.depth = 1
        BY <1>18 DEF TickEnd, TickKnown, InTick
      <3>2. ai.depth - 1 \in 0..2
        BY <3>1
      <3>3. [ai EXCEPT !.active = FALSE, !.depth = ai.depth - 1]
              \in AIDmaStates
        BY <3>2 DEF AIDmaStates
      <3> QED
        BY <1>18, <3>3 DEF TickEnd, TickOver, AIDmaStates
    <2>2. guest' \in Guests
      <3>0. 0 \in 0..MaxBlocksPerTick
        OBVIOUS
      <3>g. [guest EXCEPT !.at = "run", !.blocks = 0] \in Guests
        <4>1. "run" \in Places
          BY DEF Places
        <4> QED
          BY <3>0, <4>1, GuestValues
      <3> QED
        BY <1>18, <3>g DEF TickEnd
    <2> QED
      BY <1>18, <2>1, <2>2 DEF TickEnd, guestVars, mixVars
  <1>19. CASE SendMail
    <2>1. mail' \in {"size", "address", "next"}
      BY <1>19 DEF SendMail
    <2>2. guest' \in Guests
      BY <1>19 DEF SendMail, JoinThen, Guests, Places, Joiners, BoundsKept
    <2> QED
      BY <1>19, <2>1, <2>2 DEF SendMail, guestVars, mixVars
  <1>20. CASE ConfigureDsp
    <2>1. ai' \in AIDmaStates
      <3>1. 0 \in 0..MaxBacklog
        OBVIOUS
      <3>2. [ai EXCEPT !.enabled = FALSE, !.backlog = 0] \in AIDmaStates
        BY <3>1 DEF AIDmaStates
      <3> QED
        BY <1>20, <3>2 DEF ConfigureDsp
    <2>2. guest' \in Guests
      BY <1>20 DEF ConfigureDsp, JoinThen, Guests, Places, Joiners, BoundsKept
    <2> QED
      BY <1>20, <2>1, <2>2 DEF ConfigureDsp, guestVars, mixVars
  <1>21. CASE StartDma
    <2>1. ai' \in AIDmaStates
      BY <1>21 DEF StartDma, AIDmaStates, TickKnown, InTick
    <2> QED
      BY <1>21, <2>1 DEF StartDma, guestVars, mixVars
  <1>22. CASE ProcessAux
    <2>1. aux' \in [Bufs -> Contents]
      BY <1>22, AuxValues DEF ProcessAux
    <2> QED
      BY <1>22, <2>1 DEF ProcessAux, guestVars, mixVars
  <1>23. CASE OSResetSystem
    <2>1. worker' \in Workers
      BY <1>23 DEF OSResetSystem, Workers
    <2>2. guest' \in Guests
      BY <1>23 DEF OSResetSystem, Goto, Guests, Places, Joiners, BoundsKept
    <2> QED
      BY <1>23, <2>1, <2>2 DEF OSResetSystem, guestVars, mixVars
  <1>24. CASE TickEnter
    <2>1. ai' \in AIDmaStates
      <3>1. PICK backlog \in 0..MaxBacklog :
               IF ~ai.active
               THEN ai' = [ai EXCEPT !.backlog = backlog, !.active = TRUE, !.depth = @ + 1]
               ELSE ai' = [ai EXCEPT !.backlog = backlog]
        <4>1. PICK done \in 0..1 :
                 LET backlog == IF ai.backlog + done <= MaxBacklog THEN ai.backlog + done
                                ELSE MaxBacklog
                 IN IF ~ai.active
                    THEN ai' = [ai EXCEPT !.backlog = backlog, !.active = TRUE,
                                          !.depth = @ + 1]
                    ELSE ai' = [ai EXCEPT !.backlog = backlog]
          BY <1>24 DEF TickEnter, MayDeliver
        <4> DEFINE next == IF ai.backlog + done <= MaxBacklog THEN ai.backlog + done
                           ELSE MaxBacklog
        <4>2. next \in 0..MaxBacklog
          BY DEF AIDmaStates
        <4> QED
          BY <4>1, <4>2
      <3>2. CASE ~ai.active
        <4>1. ai.depth + 1 \in 0..2
          BY <3>2 DEF TickKnown
        <4>2. [ai EXCEPT !.backlog = backlog, !.active = TRUE, !.depth = ai.depth + 1]
                \in AIDmaStates
          BY <4>1, AiValues
        <4> QED
          BY <3>1, <3>2, <4>2 DEF AIDmaStates
      <3>3. CASE ai.active
        <4>1. [ai EXCEPT !.backlog = backlog] \in AIDmaStates
          BY DEF AIDmaStates
        <4> QED
          BY <3>1, <3>3, <4>1
      <3> QED
        BY <3>2, <3>3
    <2>2. guest' \in Guests
      <3>0. 0 \in 0..MaxBlocksPerTick
        OBVIOUS
      <3>g. [guest EXCEPT !.at = "claim", !.blocks = 0] \in Guests
        <4>1. "claim" \in Places
          BY DEF Places
        <4> QED
          BY <3>0, <4>1, GuestValues
      <3>1. UNCHANGED guest \/ guest' = [guest EXCEPT !.at = "claim", !.blocks = 0]
        BY <1>24 DEF TickEnter
      <3> QED
        BY <3>1, <3>g
    <2> QED
      BY <1>24, <2>1, <2>2 DEF TickEnter, guestVars, mixVars
  <1>25. CASE CallbackReturns
    <2>1. guest' \in Guests
      BY <1>25 DEF CallbackReturns, Guests, Places, Joiners, BoundsKept
    <2> QED
      BY <1>25, <2>1 DEF CallbackReturns, guestVars, mixVars
  <1>26. CASE SetMixWorkerEnabled
    <2>1. enabled' \in BOOLEAN
      BY <1>26 DEF SetMixWorkerEnabled
    <2> QED
      BY <1>26, <2>1 DEF SetMixWorkerEnabled, guestVars, mixVars
  <1>27. CASE Terminated
    BY <1>27 DEF Terminated, vars, guestVars, mixVars
  <1> QED
    BY <1>1, <1>2, <1>3, <1>4, <1>5, <1>6, <1>7, <1>8, <1>9, <1>10, <1>11, <1>12, <1>13,
       <1>14, <1>15, <1>16, <1>17, <1>18, <1>19, <1>20, <1>21, <1>22, <1>23, <1>24,
       <1>25, <1>26, <1>27 DEF Next, WorkerStep, HostStep, GuestCode, Tick

\* Nobody is beside a mix that is pending or running.
LEMMA WorkerStepInv == AxInv /\ TypeOK' /\ Next => WorkerKnown' /\ NoneBesideMix'
  <1> SUFFICES ASSUME AxInv, TypeOK', Next PROVE WorkerKnown' /\ NoneBesideMix'
    OBVIOUS
  <1> USE DEF AxInv, TypeOK, WorkerKnown, NoneBesideMix, Quiet, Joiners, Guests, Workers
  <1>0. CASE MixAuxSamples \/ OutputSamples \/ OutputDone \/ StartDma \/ ProcessAux \/
           SetMixWorkerEnabled \/ Terminated
    <2>1. UNCHANGED <<worker, guest>>
      BY <1>0 DEF MixAuxSamples, OutputSamples, OutputDone, StartDma, ProcessAux,
         SetMixWorkerEnabled, Terminated, vars, guestVars, mixVars
    <2> QED
      BY <2>1
  <1>1. CASE TakeMix
    BY <1>1 DEF TakeMix, guestVars, mixVars
  <1>2. CASE FinishMix
    BY <1>2 DEF FinishMix, Over, NoMix, guestVars, mixVars
  <1>3. CASE WorkerExits
    BY <1>3 DEF WorkerExits, guestVars, mixVars
  <1>4. CASE JoinMix
    BY <1>4 DEF JoinMix, PublishAuxOutputs, guestVars, mixVars
  <1>5. CASE DispatchCommandList
    BY <1>5 DEF DispatchCommandList, Goto, Deferred, Snapshot, Over, NoMix, Started,
       WriteAuxOut, guestVars, mixVars
  <1>6. CASE Initialize
    BY <1>6 DEF Initialize, Goto, guestVars, mixVars
  <1>7. CASE Stop
    BY <1>7 DEF Stop, Goto, guestVars, mixVars
  <1>8. CASE Configure
    BY <1>8 DEF Configure, Goto, guestVars, mixVars
  <1>9. CASE MemoryReset
    BY <1>9 DEF MemoryReset, Goto, guestVars, mixVars
  <1>10. CASE ClaimBlock
    BY <1>10, ClaimBlockEffect DEF mixVars
  <1>11. CASE PushAudioBlock
    BY <1>11 DEF PushAudioBlock, Goto, guestVars, mixVars
  <1>12. CASE CallDmaCallback
    BY <1>12 DEF CallDmaCallback, guestVars, mixVars
  <1>13. CASE ServiceDeferredCallbacks
    BY <1>13, ServiceEffect DEF mixVars
  <1>14. CASE NextBlock
    BY <1>14 DEF NextBlock, guestVars, mixVars
  <1>15. CASE TickEnd
    BY <1>15 DEF TickEnd, TickOver, guestVars, mixVars
  <1>16. CASE SendMail
    BY <1>16, SendMailEffect DEF mixVars
  <1>17. CASE ConfigureDsp
    BY <1>17, ConfigureDspEffect DEF mixVars
  <1>18. CASE OSResetSystem
    BY <1>18 DEF OSResetSystem, Goto, guestVars, mixVars
  <1>19. CASE TickEnter
    BY <1>19 DEF TickEnter, MayDeliver, guestVars, mixVars
  <1>20. CASE CallbackReturns
    BY <1>20 DEF CallbackReturns, guestVars, mixVars
  <1> QED
    BY <1>0, <1>1, <1>2, <1>3, <1>4, <1>5, <1>6, <1>7, <1>8, <1>9, <1>10, <1>11, <1>12,
       <1>13, <1>14, <1>15, <1>16, <1>17, <1>18, <1>19, <1>20 DEF Next, WorkerStep,
       HostStep, GuestCode, Tick

\* Only the writing mix tears the AI frame.
LEMMA TornStep == AxInv /\ TypeOK' /\ Next => TornWhileWriting'
  <1> SUFFICES ASSUME AxInv, TypeOK', Next PROVE TornWhileWriting'
    OBVIOUS
  <1> USE DEF AxInv, TypeOK, TornWhileWriting, NoneBesideMix, Quiet, Joiners, Workers,
     Mixes
  <1>0. CASE JoinMix \/ Initialize \/ Stop \/ Configure \/ MemoryReset \/ ClaimBlock \/
           PushAudioBlock \/ CallDmaCallback \/ ServiceDeferredCallbacks \/ NextBlock \/
           TickEnd \/ SendMail \/ ConfigureDsp \/ StartDma \/ ProcessAux \/ TickEnter \/
           CallbackReturns \/ SetMixWorkerEnabled \/ Terminated
    <2>1. UNCHANGED <<pcm, worker, mix>>
      BY <1>0 DEF JoinMix, Initialize, Stop, Configure, MemoryReset, ClaimBlock,
         PushAudioBlock, CallDmaCallback, ServiceDeferredCallbacks, NextBlock, TickEnd,
         SendMail, ConfigureDsp, StartDma, ProcessAux, TickEnter, CallbackReturns,
         SetMixWorkerEnabled, Terminated, vars, guestVars, mixVars
    <2> QED
      BY <2>1
  <1>1. CASE TakeMix
    BY <1>1 DEF TakeMix, guestVars, mixVars
  <1>2. CASE MixAuxSamples
    BY <1>2 DEF MixAuxSamples, WriteAuxOut, ReadAuxIn, guestVars, mixVars
  <1>3. CASE OutputSamples
    BY <1>3 DEF OutputSamples, guestVars, mixVars
  <1>4. CASE OutputDone
    BY <1>4 DEF OutputDone, guestVars, mixVars
  <1>5. CASE FinishMix
    BY <1>5 DEF FinishMix, Over, NoMix, guestVars, mixVars
  <1>6. CASE WorkerExits
    BY <1>6 DEF WorkerExits, guestVars, mixVars
  <1>7. CASE DispatchCommandList
    BY <1>7 DEF DispatchCommandList, Goto, Deferred, Snapshot, Over, NoMix, Started,
       WriteAuxOut, guestVars, mixVars
  <1>8. CASE OSResetSystem
    BY <1>8 DEF OSResetSystem, Goto, guestVars, mixVars
  <1> QED
    BY <1>0, <1>1, <1>2, <1>3, <1>4, <1>5, <1>6, <1>7, <1>8 DEF Next, WorkerStep,
       HostStep, GuestCode, Tick

\* A mix reads what its mail found.
LEMMA MixStep == AxInv /\ TypeOK' /\ Next => MixOfMail' /\ ReadsMailTimeAux'
  <1> SUFFICES ASSUME AxInv, TypeOK', Next PROVE MixOfMail' /\ ReadsMailTimeAux'
    OBVIOUS
  <1> USE DEF AxInv, TypeOK, MixOfMail, ReadsMailTimeAux, WorkerKnown, NoneBesideMix,
     Quiet, Joiners, Workers, Mixes
  <1>0. CASE JoinMix \/ Initialize \/ Stop \/ Configure \/ MemoryReset \/ ClaimBlock \/
           PushAudioBlock \/ CallDmaCallback \/ ServiceDeferredCallbacks \/ NextBlock \/
           TickEnd \/ SendMail \/ ConfigureDsp \/ StartDma \/ ProcessAux \/ TickEnter \/
           CallbackReturns \/ SetMixWorkerEnabled \/ Terminated
    <2>1. UNCHANGED <<worker, mix>>
      BY <1>0 DEF JoinMix, Initialize, Stop, Configure, MemoryReset, ClaimBlock,
         PushAudioBlock, CallDmaCallback, ServiceDeferredCallbacks, NextBlock, TickEnd,
         SendMail, ConfigureDsp, StartDma, ProcessAux, TickEnter, CallbackReturns,
         SetMixWorkerEnabled, Terminated, vars, guestVars, mixVars
    <2> QED
      BY <2>1
  <1>1. CASE TakeMix
    BY <1>1 DEF TakeMix, guestVars, mixVars
  <1>2. CASE MixAuxSamples
    BY <1>2 DEF MixAuxSamples, WriteAuxOut, ReadAuxIn, guestVars, mixVars
  <1>3. CASE OutputSamples
    BY <1>3 DEF OutputSamples, guestVars, mixVars
  <1>4. CASE OutputDone
    BY <1>4 DEF OutputDone, guestVars, mixVars
  <1>5. CASE FinishMix
    BY <1>5 DEF FinishMix, Over, NoMix, guestVars, mixVars
  <1>6. CASE WorkerExits
    BY <1>6 DEF WorkerExits, guestVars, mixVars
  <1>7. CASE DispatchCommandList
    <2>1. CASE Posted
      BY <1>7, <2>1, Dispatched DEF Posted
    <2>2. CASE Inline
      <3>1. Quiet
        BY <1>7 DEF DispatchCommandList
      <3> QED
        BY <1>7, <2>2, <3>1, Dispatched DEF Inline
    <2> QED
      BY <1>7, <2>1, <2>2, Dispatched
  <1>8. CASE OSResetSystem
    BY <1>8 DEF OSResetSystem, Goto, guestVars, mixVars
  <1> QED
    BY <1>0, <1>1, <1>2, <1>3, <1>4, <1>5, <1>6, <1>7, <1>8 DEF Next, WorkerStep,
       HostStep, GuestCode, Tick

\* The tick's flag, its depth and its callbacks agree.
LEMMA TickStep == AxInv /\ TypeOK' /\ Next => TickKnown'
  <1> SUFFICES ASSUME AxInv, TypeOK', Next PROVE TickKnown'
    OBVIOUS
  <1> USE DEF AxInv, TypeOK, TickKnown, InTick, Joiners, Guests, AIDmaStates
  <1>0. CASE TakeMix \/ MixAuxSamples \/ OutputSamples \/ OutputDone \/ FinishMix \/
           WorkerExits \/ ProcessAux \/ SetMixWorkerEnabled \/ Terminated
    <2>1. UNCHANGED <<ai, guest>>
      BY <1>0 DEF TakeMix, MixAuxSamples, OutputSamples, OutputDone, FinishMix,
         WorkerExits, ProcessAux, SetMixWorkerEnabled, Terminated, vars, guestVars,
         mixVars
    <2> QED
      BY <2>1
  <1>1. CASE JoinMix
    BY <1>1 DEF JoinMix, PublishAuxOutputs, guestVars, mixVars
  <1>2. CASE DispatchCommandList
    BY <1>2 DEF DispatchCommandList, Goto, Deferred, Snapshot, Over, NoMix, Started,
       WriteAuxOut, guestVars, mixVars
  <1>3. CASE Initialize
    BY <1>3 DEF Initialize, Goto, guestVars, mixVars
  <1>4. CASE Stop
    BY <1>4 DEF Stop, Goto, guestVars, mixVars
  <1>5. CASE Configure
    BY <1>5 DEF Configure, Goto, guestVars, mixVars
  <1>6. CASE MemoryReset
    BY <1>6 DEF MemoryReset, Goto, guestVars, mixVars
  <1>7. CASE ClaimBlock
    BY <1>7, ClaimBlockEffect
  <1>8. CASE PushAudioBlock
    <2>1. ai.depth = 1 /\ guest.level = "main"
      BY <1>8 DEF PushAudioBlock
    <2>2. CASE UNCHANGED ai /\ Goto(IF ai.callback THEN "call" ELSE "next")
      BY <1>8, <2>2 DEF PushAudioBlock, Goto
    <2>3. CASE /\ guest' = [guest EXCEPT !.at = "run", !.blocks = 0]
               /\ ai' = [ai EXCEPT !.enabled = FALSE, !.active = FALSE, !.depth = @ - 1]
      <3>1. guest'.at = "run" /\ guest'.level = "main"
        BY <2>1, <2>3
      <3>2. ai'.active = FALSE /\ ai'.depth = 0
        BY <2>1, <2>3
      <3> QED
        BY <3>1, <3>2
    <2> QED
      BY <1>8, <2>2, <2>3 DEF PushAudioBlock
  <1>9. CASE CallDmaCallback
    BY <1>9 DEF CallDmaCallback, guestVars, mixVars
  <1>10. CASE ServiceDeferredCallbacks
    BY <1>10, ServiceEffect
  <1>11. CASE NextBlock
    BY <1>11 DEF NextBlock, guestVars, mixVars
  <1>12. CASE TickEnd
    BY <1>12 DEF TickEnd, TickOver, guestVars, mixVars
  <1>13. CASE SendMail
    BY <1>13, SendMailEffect
  <1>14. CASE ConfigureDsp
    BY <1>14, ConfigureDspEffect
  <1>15. CASE StartDma
    BY <1>15 DEF StartDma, guestVars, mixVars
  <1>16. CASE OSResetSystem
    BY <1>16 DEF OSResetSystem, Goto, guestVars, mixVars
  <1>17. CASE TickEnter
    <2>1. guest.at = "run" /\ ai.depth = IF ai.active THEN 1 ELSE 0
      BY <1>17 DEF TickEnter
    <2>2. CASE ai.active
      <3>1. UNCHANGED guest /\ ai'.active = ai.active /\ ai'.depth = ai.depth
        BY <1>17, <2>2 DEF TickEnter, MayDeliver
      <3> QED
        BY <2>1, <2>2, <3>1
    <2>3. CASE ~ai.active
      <3>1. guest' = [guest EXCEPT !.at = "claim", !.blocks = 0]
            /\ ai'.active = TRUE /\ ai'.depth = ai.depth + 1
        BY <1>17, <2>3 DEF TickEnter, MayDeliver
      <3>2. guest'.at = "claim" /\ guest'.level = "main"
        BY <2>3, <3>1
      <3> QED
        BY <2>1, <2>3, <3>1, <3>2
    <2> QED
      BY <2>2, <2>3
  <1>18. CASE CallbackReturns
    BY <1>18 DEF CallbackReturns, guestVars, mixVars
  <1> QED
    BY <1>0, <1>1, <1>2, <1>3, <1>4, <1>5, <1>6, <1>7, <1>8, <1>9, <1>10, <1>11, <1>12,
       <1>13, <1>14, <1>15, <1>16, <1>17, <1>18 DEF Next, WorkerStep, HostStep,
       GuestCode, Tick

\* What was checked before the join holds after it.
LEMMA BoundsStep == AxInv /\ TypeOK' /\ Next => BoundsKept'
  <1> SUFFICES ASSUME AxInv, TypeOK', Next PROVE BoundsKept'
    OBVIOUS
  <1> USE DEF AxInv, TypeOK, BoundsKept, Joiners, Guests, Mixes
  <1>0. CASE TakeMix \/ WorkerExits \/ StartDma \/ ProcessAux \/ SetMixWorkerEnabled \/
           Terminated
    <2>1. UNCHANGED <<guest, mix, resume>>
      BY <1>0 DEF TakeMix, WorkerExits, StartDma, ProcessAux, SetMixWorkerEnabled,
         Terminated, vars, guestVars, mixVars
    <2> QED
      BY <2>1
  <1>1. CASE MixAuxSamples
    BY <1>1 DEF MixAuxSamples, WriteAuxOut, ReadAuxIn, guestVars, mixVars
  <1>2. CASE OutputSamples
    BY <1>2 DEF OutputSamples, guestVars, mixVars
  <1>3. CASE OutputDone
    BY <1>3 DEF OutputDone, guestVars, mixVars
  <1>4. CASE FinishMix
    BY <1>4 DEF FinishMix, Over, NoMix, guestVars, mixVars
  <1>5. CASE JoinMix
    BY <1>5 DEF JoinMix, PublishAuxOutputs, guestVars, mixVars
  <1>6. CASE DispatchCommandList
    BY <1>6 DEF DispatchCommandList, Goto, Deferred, Snapshot, Over, NoMix, Started,
       WriteAuxOut, guestVars, mixVars
  <1>7. CASE Initialize
    BY <1>7 DEF Initialize, Goto, guestVars, mixVars
  <1>8. CASE Stop
    BY <1>8 DEF Stop, Goto, guestVars, mixVars
  <1>9. CASE Configure
    BY <1>9 DEF Configure, Goto, guestVars, mixVars
  <1>10. CASE MemoryReset
    BY <1>10 DEF MemoryReset, Goto, guestVars, mixVars
  <1>11. CASE ClaimBlock
    BY <1>11, ClaimBlockEffect DEF mixVars
  <1>12. CASE PushAudioBlock
    <2>0. UNCHANGED <<mix, resume>> /\ guest.at = "push"
      BY <1>12 DEF PushAudioBlock, mixVars
    <2>1. CASE Goto(IF ai.callback THEN "call" ELSE "next")
      <3>1. guest'.at \in {"call", "next"} /\ guest'.blocks = guest.blocks
        BY <2>1 DEF Goto
      <3> QED
        BY <2>0, <3>1
    <2>2. CASE guest' = [guest EXCEPT !.at = "run", !.blocks = 0]
      <3>1. guest'.at = "run" /\ guest'.blocks = 0
        BY <2>2
      <3> QED
        BY <2>0, <3>1, BlocksAssumption
    <2> QED
      BY <1>12, <2>1, <2>2 DEF PushAudioBlock
  <1>13. CASE CallDmaCallback
    BY <1>13 DEF CallDmaCallback, guestVars, mixVars
  <1>14. CASE ServiceDeferredCallbacks
    BY <1>14 DEF ServiceDeferredCallbacks, Goto, guestVars, mixVars
  <1>15. CASE NextBlock
    <2>1. UNCHANGED <<mix, resume>> /\ guest'.blocks = guest.blocks + 1
          /\ guest'.at = IF guest.blocks + 1 >= MaxBlocksPerTick THEN "end" ELSE "claim"
      BY <1>15 DEF NextBlock, mixVars
    <2> QED
      BY <2>1, BlocksAssumption
  <1>16. CASE TickEnd
    <2>1. UNCHANGED <<mix, resume>> /\ guest'.blocks = 0 /\ guest'.at = "run"
      BY <1>16 DEF TickEnd, mixVars
    <2> QED
      BY <2>1, BlocksAssumption
  <1>17. CASE SendMail
    BY <1>17, SendMailEffect DEF mixVars
  <1>18. CASE ConfigureDsp
    BY <1>18, ConfigureDspEffect DEF mixVars
  <1>19. CASE OSResetSystem
    BY <1>19 DEF OSResetSystem, Goto, guestVars, mixVars
  <1>20. CASE TickEnter
    <2>0. UNCHANGED <<mix, resume>> /\ guest.at = "run"
      BY <1>20 DEF TickEnter, mixVars
    <2>1. CASE UNCHANGED guest
      BY <2>0, <2>1
    <2>2. CASE guest' = [guest EXCEPT !.at = "claim", !.blocks = 0]
      <3>1. guest'.at = "claim" /\ guest'.blocks = 0
        BY <2>2
      <3> QED
        BY <2>0, <3>1, BlocksAssumption
    <2> QED
      BY <1>20, <2>1, <2>2 DEF TickEnter
  <1>21. CASE CallbackReturns
    BY <1>21 DEF CallbackReturns, guestVars, mixVars
  <1> QED
    BY <1>0, <1>1, <1>2, <1>3, <1>4, <1>5, <1>6, <1>7, <1>8, <1>9, <1>10, <1>11, <1>12,
       <1>13, <1>14, <1>15, <1>16, <1>17, <1>18, <1>19, <1>20, <1>21 DEF Next,
       WorkerStep, HostStep, GuestCode, Tick

\* Guest memory stays behind the mix.
LEMMA AuxStep == AxInv /\ TypeOK' /\ Next => AuxBehind'
  <1> SUFFICES ASSUME AxInv, TypeOK', Next PROVE AuxBehind'
    OBVIOUS
  <1> USE DEF AxInv, TypeOK, AuxBehind, WorkerKnown, NoneBesideMix, Quiet, Joiners,
     Guests, Workers, Mixes, Contents, AuxBlocks
  <1>0. CASE StartDma \/ SetMixWorkerEnabled \/ Terminated
    <2>1. UNCHANGED <<aux, auxOut, mix, worker, guest>>
      BY <1>0 DEF StartDma, SetMixWorkerEnabled, Terminated, vars, guestVars, mixVars
    <2> QED
      BY <2>1
  <1>1. CASE TakeMix
    BY <1>1 DEF TakeMix, guestVars, mixVars
  <1>2. CASE MixAuxSamples
    <2>1. mix.deferred /\ ~Quiet
      BY <1>2 DEF MixAuxSamples, MixOfMail
    <2>2. auxOut' = [addr |-> mix.to, mix |-> mix.n] /\ UNCHANGED <<aux, worker, guest>>
      BY <1>2, <2>1 DEF MixAuxSamples, WriteAuxOut, guestVars
    <2>3. mix'.n = mix.n
      BY <1>2 DEF MixAuxSamples
    <2>4. auxOut'.mix = mix.n /\ guest.at \notin Joiners
      BY <2>1, <2>2
    <2>5. \A b \in Bufs : aux[b].mix < mix.n
      BY <2>1
    <2> HIDE DEF Quiet, Joiners
    <2> QED
      BY <2>2, <2>3, <2>4, <2>5 DEF Quiet
  <1>3. CASE OutputSamples
    BY <1>3 DEF OutputSamples, guestVars, mixVars
  <1>4. CASE OutputDone
    BY <1>4 DEF OutputDone, guestVars, mixVars
  <1>5. CASE FinishMix
    BY <1>5 DEF FinishMix, Over, NoMix, guestVars, mixVars
  <1>6. CASE WorkerExits
    BY <1>6 DEF WorkerExits, guestVars, mixVars
  <1>7. CASE JoinMix
    <2>1. Quiet /\ UNCHANGED <<mix, worker>> /\ auxOut' = None
      BY <1>7 DEF JoinMix, PublishAuxOutputs
    <2>2. Quiet' BY <2>1
    <2>3. ASSUME NEW b \in Bufs PROVE aux'[b].mix <= mix.n
      <3>1. CASE auxOut = None
        BY <1>7, <3>1 DEF JoinMix, PublishAuxOutputs
      <3>2. CASE auxOut # None
        <4>1. aux' = [aux EXCEPT ![auxOut.addr] = Raw(auxOut.mix)] /\ auxOut.mix = mix.n
          BY <1>7, <3>2 DEF JoinMix, PublishAuxOutputs
        <4>2. aux'[b] = Raw(auxOut.mix) \/ aux'[b] = aux[b]
          BY <4>1
        <4>3. Raw(auxOut.mix).mix = mix.n
          BY <4>1 DEF Raw
        <4>4. mix.n \in Nat
          BY BoundsAssumption
        <4> QED
          BY <4>2, <4>3, <4>4
      <3> QED
        BY <3>1, <3>2
    <2> QED
      BY <2>1, <2>2, <2>3
  <1>8. CASE DispatchCommandList
    <2>1. mix'.n = mix.n + 1 /\ guest'.at = "run" /\ guest.at = "dispatch"
      BY <1>8, Dispatched
    <2>2. Quiet /\ auxOut = None
      BY <2>1
    <2>3. \A b \in Bufs : aux[b].mix <= mix.n /\ aux[b].mix \in Nat /\ mix.n \in Nat
      BY BoundsAssumption
    <2>4. auxOut' = None
      BY <1>8, <2>2, Dispatched DEF Posted, Inline
    <2>5. CASE Posted
      <3>1. UNCHANGED aux
        BY <2>5 DEF Posted
      <3>2. \A b \in Bufs : aux'[b].mix < mix'.n
        BY <2>1, <2>3, <3>1
      <3>3. \A b \in Bufs : aux'[b].mix <= mix'.n
        BY <2>1, <2>3, <3>1
      <3> QED
        BY <2>1, <2>4, <3>2, <3>3
    <2>6. CASE Inline
      <3>1. PICK d \in Bufs : aux' = [aux EXCEPT ![d] = Raw(mix.n + 1)]
        BY <2>6 DEF Inline
      <3>2. \A b \in Bufs : aux'[b] = aux[b] \/ aux'[b].mix = mix.n + 1
        BY <3>1 DEF Raw
      <3>3. \A b \in Bufs : aux'[b].mix <= mix'.n
        BY <2>1, <2>3, <3>2
      <3>4. Quiet'
        BY <2>2, <2>6 DEF Inline
      <3> QED
        BY <2>1, <2>4, <3>3, <3>4
    <2> QED
      BY <1>8, <2>5, <2>6, Dispatched
  <1>9. CASE Initialize
    BY <1>9 DEF Initialize, Goto, guestVars, mixVars
  <1>10. CASE Stop
    BY <1>10 DEF Stop, Goto, guestVars, mixVars
  <1>11. CASE Configure
    BY <1>11 DEF Configure, Goto, guestVars, mixVars
  <1>12. CASE MemoryReset
    BY <1>12 DEF MemoryReset, Goto, guestVars, mixVars
  <1>13. CASE ClaimBlock
    <2>1. guest'.at \notin Joiners
      BY <1>13, ClaimBlockEffect
    <2>2. UNCHANGED <<aux, auxOut, mix, worker>>
      BY <1>13, ClaimBlockEffect DEF mixVars
    <2> QED
      BY <2>1, <2>2
  <1>14. CASE PushAudioBlock
    BY <1>14 DEF PushAudioBlock, Goto, guestVars, mixVars
  <1>15. CASE CallDmaCallback
    BY <1>15 DEF CallDmaCallback, guestVars, mixVars
  <1>16. CASE ServiceDeferredCallbacks
    <2>1. guest'.at \notin Joiners
      BY <1>16, ServiceEffect
    <2>2. UNCHANGED <<aux, auxOut, mix, worker>>
      BY <1>16, ServiceEffect DEF mixVars
    <2> QED
      BY <2>1, <2>2
  <1>17. CASE NextBlock
    BY <1>17 DEF NextBlock, guestVars, mixVars
  <1>18. CASE TickEnd
    BY <1>18 DEF TickEnd, TickOver, guestVars, mixVars
  <1>19. CASE SendMail
    <2>1. guest'.at \notin Joiners
      BY <1>19, SendMailEffect
    <2>2. UNCHANGED <<aux, auxOut, mix, worker>>
      BY <1>19, SendMailEffect DEF mixVars
    <2> QED
      BY <2>1, <2>2
  <1>20. CASE ConfigureDsp
    <2>1. guest'.at \notin Joiners
      BY <1>20, ConfigureDspEffect
    <2>2. UNCHANGED <<aux, auxOut, mix, worker>>
      BY <1>20, ConfigureDspEffect DEF mixVars
    <2> QED
      BY <2>1, <2>2
  <1>21. CASE ProcessAux
    BY <1>21 DEF ProcessAux, guestVars, mixVars
  <1>22. CASE OSResetSystem
    BY <1>22 DEF OSResetSystem, Goto, guestVars, mixVars
  <1>23. CASE TickEnter
    <2>0. guest.at \notin Joiners
      BY <1>23 DEF TickEnter
    <2>1. UNCHANGED guest => guest'.at \notin Joiners
      BY <2>0
    <2>2. guest' = [guest EXCEPT !.at = "claim", !.blocks = 0] => guest'.at \notin Joiners
      BY <2>0
    <2>a. guest'.at \notin Joiners
      BY <1>23, <2>1, <2>2 DEF TickEnter
    <2>b. UNCHANGED <<aux, auxOut, mix, worker>>
      BY <1>23 DEF TickEnter, mixVars
    <2> QED
      BY <2>a, <2>b
  <1>24. CASE CallbackReturns
    BY <1>24 DEF CallbackReturns, guestVars, mixVars
  <1> QED
    BY <1>0, <1>1, <1>2, <1>3, <1>4, <1>5, <1>6, <1>7, <1>8, <1>9, <1>10, <1>11, <1>12,
       <1>13, <1>14, <1>15, <1>16, <1>17, <1>18, <1>19, <1>20, <1>21, <1>22, <1>23,
       <1>24 DEF Next, WorkerStep, HostStep, GuestCode, Tick

\* Before the first DMA interrupt nothing is queued and the worker is idle.
LEMMA InitInv == Init => AxInv
  <1> SUFFICES ASSUME Init PROVE AxInv
    OBVIOUS
  <1>1. TypeOK
    <2>1. guest \in Guests /\ guest.at = "run"
      BY BlocksAssumption DEF Init, Guests, Places, Joiners
    <2>2. ai \in AIDmaStates
      BY BoundsAssumption DEF Init, AIDmaStates
    <2>3. worker \in Workers
      BY DEF Init, Workers
    <2>4. aux \in [Bufs -> Contents]
      BY BoundsAssumption DEF Init, Contents, Raw
    <2>5. mix \in Mixes
      BY NoMixType DEF Init
    <2> QED
      BY <2>1, <2>2, <2>3, <2>4, <2>5, BoundsAssumption DEF Init, TypeOK
  <1>2. WorkerKnown /\ Quiet
    BY DEF Init, WorkerKnown, Quiet
  <1>3. TornWhileWriting /\ MixOfMail /\ NoneBesideMix
    BY <1>2 DEF Init, TornWhileWriting, MixOfMail, NoneBesideMix
  <1>4. ReadsMailTimeAux
    BY NoMixType DEF Init, ReadsMailTimeAux
  <1>5. TickKnown
    BY DEF Init, TickKnown, InTick
  <1>6. BoundsKept
    BY BlocksAssumption DEF Init, BoundsKept
  <1>7. AuxBehind
    <2>1. \A b \in Bufs : aux[b].mix = 0
      BY DEF Init, Raw
    <2>2. mix.n = 0 /\ auxOut = None
      BY NoMixType DEF Init
    <2> QED
      BY <1>2, <2>1, <2>2 DEF AuxBehind
  <1> QED
    BY <1>1, <1>2, <1>3, <1>4, <1>5, <1>6, <1>7 DEF AxInv

\* The inductive invariant is kept by every step.
LEMMA StepInv == AxInv /\ [Next]_vars => AxInv'
  <1> SUFFICES ASSUME AxInv, [Next]_vars PROVE AxInv'
    OBVIOUS
  <1>1. CASE Next
    <2>1. TypeOK'
      BY <1>1, TypeStep
    <2> QED
      BY <1>1, <2>1, WorkerStepInv, TornStep, MixStep, TickStep, BoundsStep, AuxStep
         DEF AxInv
  <1>2. CASE UNCHANGED vars
    BY <1>2 DEF vars, guestVars, mixVars, AxInv, TypeOK, WorkerKnown, NoneBesideMix,
                TornWhileWriting, MixOfMail, ReadsMailTimeAux, TickKnown, InTick,
                BoundsKept, AuxBehind, Quiet
  <1> QED
    BY <1>1, <1>2

\* AxInv holds throughout.
LEMMA AxInvariant == Spec => []AxInv
  BY InitInv, StepInv, PTL DEF Spec

\* While a mix is pending or running, nobody is at the state it owns, and a block
\* that is pushed is a whole frame: JoinMix covers SendMail, Initialize, Stop,
\* ConfigureFromTask and the tick, and OSResetSystem waits for the worker's end.
THEOREM AxMixOwns == Spec => []MixOwnsItsState
  <1>1. AxInv => MixOwnsItsState
    <2> SUFFICES ASSUME AxInv PROVE MixOwnsItsState
      OBVIOUS
    <2>1. NoneBesideMix /\ TornWhileWriting /\ pcm \in {"whole", "torn"}
      BY DEF AxInv, TypeOK
    <2>2. PushesWholeFrames
      BY <2>1 DEF PushesWholeFrames, NoneBesideMix, TornWhileWriting, Quiet, Joiners
    <2> QED
      BY <2>1, <2>2 DEF MixOwnsItsState
  <1> QED
    BY <1>1, AxInvariant, PTL

\* Whether it runs inline or on the worker, a mix reads back the aux buffer as
\* it stood at its mail: DispatchCommandList snapshots it before the guest's aux
\* effects go on.
THEOREM AxReadsMailTime == Spec => []ReadsMailTimeAux
  <1>1. AxInv => ReadsMailTimeAux
    BY DEF AxInv
  <1> QED
    BY <1>1, AxInvariant, PTL

\* tickActive keeps the tick that a callback polls from delivering: the AI DMA
\* callback is not re-entered.
THEOREM AxOneTick == Spec => []OneTickAtATime
  <1>1. AxInv => OneTickAtATime
    <2> SUFFICES ASSUME AxInv PROVE OneTickAtATime
      OBVIOUS
    <2>1. ai.depth = IF ai.active THEN 1 ELSE 0
      BY DEF AxInv, TickKnown
    <2> QED
      BY <2>1 DEF OneTickAtATime
  <1> QED
    BY <1>1, AxInvariant, PTL

\* What a step may do to the guest's aux buffers.
AuxStepAllowed ==
    \A b \in Bufs : aux'[b] # aux[b] /\ ~ByGuest(b)
        => Quiet /\ aux'[b].mix > aux[b].mix

\* A step publishes an auxiliary block at most once.
LEMMA AuxAllowed == AxInv /\ [Next]_vars => [AuxStepAllowed]_vars
  <1> SUFFICES ASSUME AxInv, Next, NEW b \in Bufs, aux'[b] # aux[b], ~ByGuest(b)
               PROVE  Quiet /\ aux'[b].mix > aux[b].mix
    BY DEF AuxStepAllowed
  <1>1. CASE JoinMix
    <2>1. worker.alive => Quiet
      BY <1>1 DEF JoinMix
    <2>2. Quiet
      BY <2>1 DEF AxInv, WorkerKnown, Quiet
    <2>3. auxOut # None /\ aux' = [aux EXCEPT ![auxOut.addr] = Raw(auxOut.mix)]
      BY <1>1 DEF JoinMix, PublishAuxOutputs
    <2>4. aux'[b] = Raw(auxOut.mix) /\ auxOut.mix = mix.n /\ aux[b].mix < mix.n
      BY <2>3 DEF AxInv, TypeOK, AuxBehind
    <2>5. aux'[b].mix = mix.n
      BY <2>4 DEF Raw
    <2>6. aux[b].mix \in Nat /\ mix.n \in Nat
      BY BoundsAssumption DEF AxInv, TypeOK, Contents, Mixes
    <2> QED
      BY <2>2, <2>4, <2>5, <2>6
  <1>2. CASE DispatchCommandList
    <2>1. guest.at = "dispatch"
      BY <1>2 DEF DispatchCommandList
    <2>2. Quiet
      BY <2>1 DEF AxInv, NoneBesideMix, Joiners
    <2>3. Inline
      BY <1>2, Dispatched DEF Posted
    <2>4. PICK d \in Bufs : aux' = [aux EXCEPT ![d] = Raw(mix.n + 1)]
      BY <2>3 DEF Inline
    <2>5. aux'[b] = Raw(mix.n + 1)
      BY <2>4 DEF AxInv, TypeOK
    <2>6. aux'[b].mix = mix.n + 1
      BY <2>5 DEF Raw
    <2>7. aux[b].mix \in Nat /\ mix.n \in Nat /\ aux[b].mix <= mix.n
      BY BoundsAssumption DEF AxInv, TypeOK, Contents, Mixes, AuxBehind
    <2> QED
      BY <2>2, <2>6, <2>7
  <1>3. CASE MixAuxSamples
    <2>1. mix.deferred
      BY <1>3 DEF MixAuxSamples, AxInv, MixOfMail, Quiet
    <2> QED
      BY <1>3, <2>1 DEF MixAuxSamples, WriteAuxOut
  <1>4. CASE ProcessAux
    <2>1. PICK d \in Bufs : aux' = [aux EXCEPT ![d].processed = TRUE]
      BY <1>4 DEF ProcessAux
    <2>2. aux'[b] = aux[b] \/ aux'[b] = [aux[b] EXCEPT !.processed = TRUE]
      BY <2>1 DEF AxInv, TypeOK
    <2> QED
      BY <2>2 DEF ByGuest
  <1>5. CASE UNCHANGED aux
    BY <1>5
  <1> QED
    BY <1>1, <1>2, <1>3, <1>4, <1>5
       DEF Next, WorkerStep, HostStep, GuestCode, Tick, TakeMix, OutputSamples, OutputDone,
           FinishMix, WorkerExits, Initialize, Stop, Configure, MemoryReset, ClaimBlock,
           PushAudioBlock, CallDmaCallback, ServiceDeferredCallbacks, NextBlock, TickEnd,
           SendMail, ConfigureDsp, StartDma, OSResetSystem, TickEnter, CallbackReturns,
           SetMixWorkerEnabled, Terminated, vars, mixVars

\* Guest memory sees the aux output of each mix once and in order, and never while
\* a mix runs: PublishAuxOutputs forgets the block it publishes, and what the guest
\* computed in place stays.
THEOREM AxAuxOnce == Spec => AuxPublishedOnce
  <1>1. Spec => [][AuxStepAllowed]_vars
    BY AxInvariant, AuxAllowed, PTL DEF Spec
  <1> QED
    BY <1>1 DEF AuxPublishedOnce, AuxStepAllowed
=============================================================================
