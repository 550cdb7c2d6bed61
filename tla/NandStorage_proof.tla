-------------------------- MODULE NandStorage_proof --------------------------
(***************************************************************************)
(* A save that goes through a scratch copy is all or nothing, what is       *)
(* published is what its own handle wrote, and a safe close does not answer *)
(* OK for data that were thrown away: for any number of files, infos,       *)
(* blocks and opens, and any order of crashes and failures.                 *)
(*                                                                         *)
(* NandInv is the inductive invariant.  It says who owns a scratch file     *)
(* (one handle, then the close that took it over) and that nothing is       *)
(* waiting for the disk in a guarded path, so that a power failure has      *)
(* nothing to tear there.                                                   *)
(***************************************************************************)
EXTENDS NandStorage, TLAPS

\* A shadow handle owns its scratch file, alone, and has written all of it.
HandlesKnown ==
    /\ \A h \in handles :
          /\ h.fd < nextFd
          /\ h.commit <=> h.at = "scratch"
          /\ h.at = "main" => main[h.file] # None
          /\ h.at = "scratch" => scratch[h.file] # None /\ scratch[h.file].img = h.expect
    /\ \A h, k \in handles :
          \/ h.fd = k.fd
          \/ h.file = k.file /\ h.at = "scratch" /\ k.at = "scratch"
          => h = k

\* The close under way has taken its handle's file over; what it renames is on disk.
JobKnown ==
    job # NoJob =>
      /\ infos[job.info].fd = 0 /\ infos[job.info].flag \in {"open", "safe"}
      /\ job.commit <=> job.at = "scratch"
      /\ job.step \in {"rename", "sync"} => job.commit
      /\ job.step = "flush" /\ job.at = "main" => main[job.file] # None
      /\ job.step \in {"flush", "rename"} /\ job.commit =>
            /\ scratch[job.file] # None /\ scratch[job.file].img = job.expect
            /\ \A h \in handles : h.file = job.file => h.at # "scratch"
      /\ job.step = "rename" => scratch[job.file].disk = job.expect
      /\ job.step = "sync" =>
            /\ main[job.file] # None
            /\ main[job.file].img = job.expect /\ main[job.file].disk = job.expect

\* Whatever entry of a guarded path survives is a whole save, and on the disk.
Whole(f, e) ==
    e \in Entry /\ e.disk = e.img /\ e.img \in {saved[f]} \cup closing[f]
GuardedWhole == \A f \in guarded : \A e \in {main[f]} \cup behind[f] : Whole(f, e)

\* An info whose close failed has no handle and no close under way.
DroppedKnown ==
    \A d \in dropped :
       /\ infos[d[1]].fd = 0
       /\ job # NoJob => d[1] # job.info
       /\ d[2] = "safe" => infos[d[1]].flag = "safe"

\* The inductive invariant.
NandInv == TypeOK /\ HandlesKnown /\ JobKnown /\ GuardedWhole /\ DroppedKnown

\* The values the model is built from are of their types.
LEMMA Values ==
    /\ Blank \in Image /\ First \in Image
    /\ Wreck \in Entry /\ Wreck.img = Blank /\ Wreck.disk = Blank
    /\ NoJob.step = "none" /\ NoJob \notin Job
  <1>1. Blank \in Image /\ First \in Image
    BY NandAssumptions DEF Blank, First, Image, Junk
  <1>2. NoJob.step = "none"
    BY DEF NoJob
  <1>3. \A j \in Job : j.step # "none"
    BY DEF Job
  <1> QED
    BY <1>1, <1>2, <1>3 DEF Wreck, Entry

\* The parts of the type invariant that the steps below use.
LEMMA Typed ==
    ASSUME NandInv
    PROVE  /\ main \in [Files -> Entry \cup {None}] /\ scratch \in [Files -> Entry \cup {None}]
           /\ behind \in [Files -> SUBSET (Entry \cup {None})]
           /\ handles \subseteq Handle
           /\ \A h \in handles : /\ h.fd \in 1 .. MaxFd /\ h.file \in Files
                                 /\ h.expect \in Image /\ h.commit \in BOOLEAN
                                 /\ h.writable \in BOOLEAN
                                 /\ h.at \in {"main", "scratch", "orphan"}
           /\ nextFd \in 1 .. MaxFd + 1
           /\ infos \in [Infos -> [fd : 0 .. MaxFd, flag : Flags]]
           /\ saved \in [Files -> Image] /\ closing \in [Files -> SUBSET Image]
           /\ guarded \subseteq Files /\ dropped \subseteq Infos \X {"open", "safe"}
  BY DEF NandInv, TypeOK, Handle

\* A close under way is a record of its own.
LEMMA JobTyped ==
    ASSUME NandInv, job # NoJob
    PROVE  /\ job \in Job /\ job.step \in {"flush", "rename", "sync", "done"}
           /\ job.info \in Infos /\ job.file \in Files /\ job.expect \in Image
           /\ job.commit \in BOOLEAN /\ job.writable \in BOOLEAN
           /\ job.at \in {"main", "scratch", "orphan"}
  <1>1. job \in Job
    BY DEF NandInv, TypeOK
  <1> QED
    BY <1>1 DEF Job

\* An entry that is there is an image and what is on disk of it.
LEMMA EntryFacts == ASSUME NEW e \in Entry PROVE e.img \in Image /\ e.disk \in Image
  BY DEF Entry

\* A guarded path is there.
LEMMA GuardedThere == ASSUME NandInv, NEW f \in guarded PROVE main[f] \in Entry /\ main[f] # None
  BY NoneAssumption DEF NandInv, GuardedWhole, Whole

-----------------------------------------------------------------------------
\* An open takes the next descriptor, on a file that is there or on its own copy.
LEMMA Allocates ==
    ASSUME NandInv, NEW i \in Infos, NEW f \in Files, NEW at \in {"main", "scratch"},
           NEW commit \in BOOLEAN, NEW writable \in BOOLEAN,
           NEW flag \in {"open", "safe", "ios"}, CanOpen(i),
           AllocateFd(i, f, at, commit, writable, flag),
           UNCHANGED <<behind, guarded>>, commit <=> at = "scratch",
           main' \in [Files -> Entry \cup {None}], main'[f] # None,
           \A g \in Files : main[g] # None => main'[g] = main[g],
           scratch' \in [Files -> Entry \cup {None}],
           \A h \in handles : h.at = "scratch" => scratch'[h.file] = scratch[h.file],
           commit => /\ main[f] \in Entry /\ scratch'[f] # None
                     /\ scratch'[f].img = main[f].img /\ ~IsHostPathOpen(f)
    PROVE  NandInv'
  <1> DEFINE new == [fd |-> nextFd, file |-> f, at |-> at, commit |-> commit,
                     writable |-> writable, expect |-> IF commit THEN main[f].img ELSE Blank]
  <1>1. /\ job = NoJob /\ job' = NoJob /\ nextFd <= MaxFd /\ nextFd' = nextFd + 1
        /\ handles' = handles \cup {new}
        /\ infos' = [infos EXCEPT ![i] = [fd |-> nextFd, flag |-> flag]]
        /\ dropped' = {d \in dropped : d[1] # i}
        /\ UNCHANGED <<saved, closing>>
    BY DEF AllocateFd, CanOpen, Guest
  <1>2. nextFd \in 1 .. MaxFd /\ nextFd' \in 1 .. MaxFd + 1
    BY <1>1, Typed, NandAssumptions
  <1>3. /\ new \in Handle /\ new.fd = nextFd /\ new.file = f /\ new.at = at /\ new.commit = commit
        /\ commit => new.expect = main[f].img
    <2>1. commit => main[f].img \in Image
      BY EntryFacts
    <2> QED
      BY <1>2, <2>1, Values DEF Handle
  <1> HIDE DEF new
  <1>4. TypeOK'
    <2>1. infos' \in [Infos -> [fd : 0 .. MaxFd, flag : Flags]]
      BY <1>1, <1>2, Typed DEF Flags
    <2>2. handles' \subseteq Handle
      BY <1>1, <1>3, Typed
    <2>3. dropped' \subseteq Infos \X {"open", "safe"}
      BY <1>1, Typed
    <2> QED
      BY <1>1, <1>2, <2>1, <2>2, <2>3 DEF NandInv, TypeOK
  <1>5. \A h \in handles : h.fd < nextFd /\ h.fd \in Nat /\ h # new
    BY <1>2, <1>3, Typed DEF NandInv, HandlesKnown
  <1>6. HandlesKnown'
    <2>1. ASSUME NEW h \in handles'
          PROVE  /\ h.fd < nextFd'
                 /\ h.commit <=> h.at = "scratch"
                 /\ h.at = "main" => main'[h.file] # None
                 /\ h.at = "scratch" => scratch'[h.file] # None /\ scratch'[h.file].img = h.expect
      <3>1. CASE h = new
        BY <1>1, <1>2, <1>3, <3>1
      <3>2. CASE h \in handles
        <4>1. /\ h.commit <=> h.at = "scratch"
              /\ h.at = "main" => main[h.file] # None
              /\ h.at = "scratch" => scratch[h.file] # None /\ scratch[h.file].img = h.expect
          BY <3>2 DEF NandInv, HandlesKnown
        <4>2. h.file \in Files
          BY <3>2, Typed
        <4> QED
          BY <1>1, <1>2, <1>5, <3>2, <4>1, <4>2
      <3> QED
        BY <1>1, <3>1, <3>2
    <2>2. ASSUME NEW h \in handles', NEW k \in handles',
                 h.fd = k.fd \/ (h.file = k.file /\ h.at = "scratch" /\ k.at = "scratch")
          PROVE  h = k
      <3>1. CASE h \in handles /\ k \in handles
        BY <2>2, <3>1 DEF NandInv, HandlesKnown
      <3>2. CASE h = new \/ k = new
        <4>1. at = "scratch" => \A g \in handles : g.file # f
          BY DEF IsHostPathOpen
        <4> QED
          BY <1>1, <1>2, <1>3, <1>5, <2>2, <3>2, <4>1
      <3> QED
        BY <1>1, <3>1, <3>2
    <2> QED
      BY <2>1, <2>2 DEF HandlesKnown
  <1>7. JobKnown'
    BY <1>1 DEF JobKnown
  <1>8. GuardedWhole'
    BY <1>1, GuardedThere, Typed DEF NandInv, GuardedWhole, Whole
  <1>9. DroppedKnown'
    <2>1. \A d \in dropped' : d \in dropped /\ d[1] \in Infos /\ infos'[d[1]] = infos[d[1]]
      BY <1>1, Typed
    <2> QED
      BY <1>1, <2>1 DEF NandInv, DroppedKnown
  <1> QED
    BY <1>4, <1>6, <1>7, <1>8, <1>9 DEF NandInv

\* An open for reading changes no file.
LEMMA OpenReadInv ==
    ASSUME NandInv, NEW i \in Infos, NEW f \in Files, NEW flag \in {"open", "safe", "ios"},
           OpenRead(i, f, flag)
    PROVE  NandInv'
  BY Allocates, Typed DEF OpenRead, diskVars

\* IOS_Open for writing changes no file until it is written.
LEMMA IosOpenWriteInv ==
    ASSUME NandInv, NEW i \in Infos, NEW f \in Files, IosOpenWrite(i, f)
    PROVE  NandInv'
  BY Allocates, Typed DEF IosOpenWrite, diskVars

\* NANDOpen and NANDSafeOpen seed a scratch file that nobody else has.
LEMMA OpenShadowInv ==
    ASSUME NandInv, NEW i \in Infos, NEW f \in Files, NEW flag \in {"open", "safe"},
           OpenShadow(i, f, flag)
    PROVE  NandInv'
  <1>1. /\ CanOpen(i) /\ main[f] # None /\ ~IsHostPathOpen(f)
        /\ scratch' = [scratch EXCEPT ![f] = SeedScratch(f)]
        /\ UNCHANGED <<main, behind, guarded>>
        /\ AllocateFd(i, f, "scratch", TRUE, TRUE, flag)
    BY DEF OpenShadow
  <1>2. main[f] \in Entry /\ main[f].img \in Image
    BY <1>1, Typed, EntryFacts
  <1>3. SeedScratch(f) \in Entry /\ SeedScratch(f).img = main[f].img
    BY <1>2, Values DEF SeedScratch, Entry
  <1>4. scratch' \in [Files -> Entry \cup {None}] /\ scratch'[f] = SeedScratch(f)
    BY <1>1, <1>3, Typed
  <1>5. scratch'[f] # None
    BY <1>3, <1>4, NoneAssumption
  <1>6. \A h \in handles : scratch'[h.file] = scratch[h.file]
    BY <1>1, Typed DEF IsHostPathOpen
  <1>7. main' \in [Files -> Entry \cup {None}] /\ main'[f] # None
    BY <1>1, Typed
  <1> QED
    BY <1>1, <1>2, <1>3, <1>4, <1>5, <1>6, <1>7, Allocates

\* What a failed seed leaves is nobody's.
LEMMA SeedFails ==
    ASSUME NandInv, NEW f \in Files,
           NEW left \in IF IsHostPathOpen(f) THEN {scratch[f]} ELSE FailedSeeds(f),
           scratch' = [scratch EXCEPT ![f] = left]
    PROVE  /\ scratch' \in [Files -> Entry \cup {None}]
           /\ \A h \in handles : scratch'[h.file] = scratch[h.file]
  <1>1. left \in Entry \cup {None}
    BY Typed, Values DEF FailedSeeds
  <1>2. scratch' \in [Files -> Entry \cup {None}]
    BY <1>1, Typed
  <1>3. ASSUME NEW h \in handles PROVE scratch'[h.file] = scratch[h.file]
    <2>1. CASE h.file = f
      <3>1. IsHostPathOpen(f)
        BY <2>1 DEF IsHostPathOpen
      <3> QED
        BY <2>1, <3>1, Typed
    <2>2. CASE h.file # f
      BY <2>2, Typed
    <2> QED
      BY <2>1, <2>2
  <1> QED
    BY <1>2, <1>3

\* NANDOpen's fall-back to the file itself leaves every scratch file that is in use.
LEMMA OpenInPlaceInv ==
    ASSUME NandInv, NEW i \in Infos, NEW f \in Files, OpenInPlace(i, f)
    PROVE  NandInv'
  <1>1. PICK left \in IF IsHostPathOpen(f) THEN {scratch[f]} ELSE FailedSeeds(f) :
           scratch' = [scratch EXCEPT ![f] = left]
    BY DEF OpenInPlace
  <1>2. /\ scratch' \in [Files -> Entry \cup {None}]
        /\ \A h \in handles : scratch'[h.file] = scratch[h.file]
    BY <1>1, SeedFails
  <1> QED
    BY <1>2, Allocates, Typed DEF OpenInPlace

\* A path made in place is not one of the guarded ones.
LEMMA OpenCreatesInv ==
    ASSUME NandInv, NEW i \in Infos, NEW f \in Files, OpenCreates(i, f)
    PROVE  NandInv'
  <1>1. /\ main' \in [Files -> Entry \cup {None}] /\ main'[f] # None
        /\ \A g \in Files : main[g] # None => main'[g] = main[g]
    BY Typed, Values, NoneAssumption DEF OpenCreates
  <1> QED
    BY <1>1, Allocates, Typed DEF OpenCreates

\* Steps that leave handles, infos and history alone while no close is under way.
LEMMA FilesOnly ==
    ASSUME NandInv, job = NoJob,
           UNCHANGED <<behind, handles, nextFd, infos, job, historyVars>>,
           main' \in [Files -> Entry \cup {None}],
           \A g \in Files : main[g] # None => main'[g] = main[g],
           scratch' \in [Files -> Entry \cup {None}],
           \A h \in handles : h.at = "scratch" => scratch'[h.file] = scratch[h.file]
    PROVE  NandInv'
  <1>1. TypeOK'
    BY DEF NandInv, TypeOK, historyVars
  <1>2. HandlesKnown'
    BY Typed DEF NandInv, HandlesKnown
  <1>3. JobKnown'
    BY DEF JobKnown
  <1>4. GuardedWhole'
    BY GuardedThere, Typed DEF NandInv, GuardedWhole, Whole, historyVars
  <1>5. DroppedKnown'
    BY DEF NandInv, DroppedKnown, historyVars
  <1> QED
    BY <1>1, <1>2, <1>3, <1>4, <1>5 DEF NandInv

\* A NANDSafeOpen that fails leaves nothing but a scratch file nobody uses.
LEMMA SafeOpenFailsInv ==
    ASSUME NandInv, NEW i \in Infos, NEW f \in Files, SafeOpenFails(i, f)
    PROVE  NandInv'
  <1>1. PICK left \in FailedSeeds(f) : scratch' = [scratch EXCEPT ![f] = left]
    BY DEF SafeOpenFails
  <1>2. left \in IF IsHostPathOpen(f) THEN {scratch[f]} ELSE FailedSeeds(f)
    BY DEF SafeOpenFails
  <1>3. /\ scratch' \in [Files -> Entry \cup {None}]
        /\ \A h \in handles : scratch'[h.file] = scratch[h.file]
    BY <1>1, <1>2, SeedFails
  <1> QED
    BY <1>3, FilesOnly, Typed DEF SafeOpenFails, CanOpen, Guest

\* NANDCreate makes a file where there was none, so not in a guarded path.
LEMMA CreateInv ==
    ASSUME NandInv, NEW f \in Files, NANDCreate(f)
    PROVE  NandInv'
  <1>1. /\ main' \in [Files -> Entry \cup {None}]
        /\ \A g \in Files : main[g] # None => main'[g] = main[g]
    BY Typed, Values DEF NANDCreate
  <1> QED
    BY <1>1, FilesOnly, Typed DEF NANDCreate, Guest


-----------------------------------------------------------------------------
\* NANDWrite on a scratch copy: the file and what its handle expects change together.
LEMMA WriteShadowInv ==
    ASSUME NandInv, NEW i \in Infos, NEW b \in Blocks, WriteShadow(i, b)
    PROVE  NandInv'
  <1>1. PICK h \in HandleOf(infos[i].fd) :
          /\ h.at = "scratch"
          /\ handles' = (handles \ {h}) \cup {[h EXCEPT !.expect[b] = h.fd]}
          /\ scratch' = [scratch EXCEPT ![h.file].img[b] = h.fd]
    BY DEF WriteShadow
  <1>2. /\ job = NoJob
        /\ UNCHANGED <<main, behind, nextFd, infos, job, saved, closing, guarded, dropped>>
    BY DEF WriteShadow, Guest, historyVars
  <1>3. h \in handles /\ h \in Handle /\ h.file \in Files /\ h.fd \in 1 .. MaxFd /\ h.expect \in Image
    BY <1>1, Typed DEF HandleOf
  <1>4. scratch[h.file] \in Entry /\ scratch[h.file].img = h.expect
    BY <1>1, <1>3, Typed DEF NandInv, HandlesKnown
  <1> DEFINE img == [h.expect EXCEPT ![b] = h.fd]
  <1> DEFINE new == [h EXCEPT !.expect = img]
  <1> DEFINE file == [scratch[h.file] EXCEPT !.img = img]
  <1>5. img \in Image
    BY <1>3, NandAssumptions DEF Image, Junk
  <1>6. handles' = (handles \ {h}) \cup {new} /\ scratch' = [scratch EXCEPT ![h.file] = file]
    <2>1. [h EXCEPT !.expect[b] = h.fd] = new
      OBVIOUS
    <2>2. [scratch EXCEPT ![h.file].img[b] = h.fd] = [scratch EXCEPT ![h.file] = file]
      BY <1>4
    <2> QED
      BY <1>1, <2>1, <2>2
  <1> HIDE DEF img
  <1>7. /\ new \in Handle /\ new.fd = h.fd /\ new.file = h.file /\ new.at = h.at
        /\ new.commit = h.commit /\ new.expect = img
    BY <1>3, <1>5 DEF Handle
  <1>8. file \in Entry /\ file.img = img
    BY <1>4, <1>5 DEF Entry
  <1> HIDE DEF new, file
  <1>9. /\ scratch' \in [Files -> Entry \cup {None}] /\ scratch'[h.file] = file
        /\ \A f \in Files : f # h.file => scratch'[f] = scratch[f]
    BY <1>3, <1>6, <1>8, Typed
  <1>10. scratch'[h.file] # None
    BY <1>8, <1>9, NoneAssumption
  <1>11. TypeOK'
    <2>1. handles' \subseteq Handle
      BY <1>6, <1>7, Typed
    <2> QED
      BY <1>2, <1>9, <2>1 DEF NandInv, TypeOK
  <1>12. \A k \in handles \ {h} : k.fd # h.fd /\ (k.at = "scratch" => k.file # h.file)
    BY <1>1, <1>3 DEF NandInv, HandlesKnown
  <1>13. HandlesKnown'
    <2>1. ASSUME NEW k \in handles'
          PROVE  /\ k.fd < nextFd'
                 /\ k.commit <=> k.at = "scratch"
                 /\ k.at = "main" => main'[k.file] # None
                 /\ k.at = "scratch" => scratch'[k.file] # None /\ scratch'[k.file].img = k.expect
      <3>1. CASE k = new
        BY <1>1, <1>2, <1>3, <1>7, <1>8, <1>9, <1>10, <3>1 DEF NandInv, HandlesKnown
      <3>2. CASE k \in handles \ {h}
        <4>1. /\ k.fd < nextFd
              /\ k.commit <=> k.at = "scratch"
              /\ k.at = "main" => main[k.file] # None
              /\ k.at = "scratch" => scratch[k.file] # None /\ scratch[k.file].img = k.expect
          BY <3>2 DEF NandInv, HandlesKnown
        <4>2. k.at = "scratch" => scratch'[k.file] = scratch[k.file]
          BY <1>9, <1>12, <3>2, Typed
        <4> QED
          BY <1>2, <4>1, <4>2
      <3> QED
        BY <1>6, <3>1, <3>2
    <2>2. ASSUME NEW k \in handles', NEW l \in handles',
                 k.fd = l.fd \/ (k.file = l.file /\ k.at = "scratch" /\ l.at = "scratch")
          PROVE  k = l
      <3>1. CASE k \in handles \ {h} /\ l \in handles \ {h}
        BY <2>2, <3>1 DEF NandInv, HandlesKnown
      <3>2. CASE k = new \/ l = new
        BY <1>6, <1>7, <1>12, <2>2, <3>2
      <3> QED
        BY <1>6, <3>1, <3>2
    <2> QED
      BY <2>1, <2>2 DEF HandlesKnown
  <1>14. JobKnown' /\ GuardedWhole' /\ DroppedKnown'
    BY <1>2 DEF NandInv, JobKnown, GuardedWhole, Whole, DroppedKnown
  <1> QED
    BY <1>11, <1>13, <1>14 DEF NandInv

\* A path that is written or removed in place leaves the guarded ones.
LEMMA UnguardInv ==
    ASSUME NandInv, job = NoJob, UNCHANGED <<scratch, nextFd, infos, job, dropped>>,
           NEW f \in Files, Unguard(f),
           main' \in [Files -> Entry \cup {None}],
           \A g \in Files : g # f => main'[g] = main[g],
           handles' \subseteq Handle, HandlesKnown'
    PROVE  NandInv'
  <1>1. /\ guarded' = guarded \ {f}
        /\ behind' = [behind EXCEPT ![f] = {}]
        /\ saved' = [saved EXCEPT ![f] = First]
        /\ closing' = [closing EXCEPT ![f] = {}]
    BY DEF Unguard
  <1>2. TypeOK'
    <2>1. /\ behind' \in [Files -> SUBSET (Entry \cup {None})]
          /\ saved' \in [Files -> Image] /\ closing' \in [Files -> SUBSET Image]
          /\ guarded' \subseteq Files
      BY <1>1, Typed, Values
    <2> QED
      BY <2>1 DEF NandInv, TypeOK
  <1>3. JobKnown'
    BY DEF JobKnown
  <1>4. GuardedWhole'
    <2>1. ASSUME NEW g \in guarded'
          PROVE  /\ g \in guarded /\ main'[g] = main[g] /\ behind'[g] = behind[g]
                 /\ saved'[g] = saved[g] /\ closing'[g] = closing[g]
      BY <1>1, <2>1, Typed
    <2> QED
      BY <2>1 DEF NandInv, GuardedWhole, Whole
  <1>5. DroppedKnown'
    BY DEF NandInv, DroppedKnown
  <1> QED
    BY <1>2, <1>3, <1>4, <1>5 DEF NandInv

\* A write in place gives the promise about its path up.
LEMMA WriteInPlaceInv ==
    ASSUME NandInv, NEW i \in Infos, NEW b \in Blocks, WriteInPlace(i, b)
    PROVE  NandInv'
  <1>1. PICK h \in HandleOf(infos[i].fd) :
          /\ h.writable /\ h.at = "main"
          /\ main' = [main EXCEPT ![h.file].img[b] = h.fd]
          /\ Unguard(h.file)
    BY DEF WriteInPlace
  <1>2. job = NoJob /\ UNCHANGED <<scratch, handles, nextFd, infos, job, dropped>>
    BY DEF WriteInPlace, Guest
  <1>3. h \in handles /\ h.file \in Files /\ h.fd \in 1 .. MaxFd
    BY <1>1, Typed DEF HandleOf
  <1>4. main[h.file] \in Entry
    BY <1>1, <1>3, Typed DEF NandInv, HandlesKnown
  <1> DEFINE img == [main[h.file].img EXCEPT ![b] = h.fd]
  <1> DEFINE file == [main[h.file] EXCEPT !.img = img]
  <1>5. img \in Image
    <2>1. main[h.file].img \in Image
      BY <1>4, EntryFacts
    <2> QED
      BY <1>3, <2>1, NandAssumptions DEF Image, Junk
  <1>6. main' = [main EXCEPT ![h.file] = file]
    BY <1>1, <1>4
  <1> HIDE DEF img
  <1>7. file \in Entry
    BY <1>4, <1>5 DEF Entry
  <1> HIDE DEF file
  <1>8. /\ main' \in [Files -> Entry \cup {None}]
        /\ \A g \in Files : g # h.file => main'[g] = main[g]
        /\ \A g \in Files : main[g] # None => main'[g] # None
    BY <1>3, <1>6, <1>7, Typed, NoneAssumption
  <1>9. HandlesKnown'
    BY <1>2, <1>8, Typed DEF NandInv, HandlesKnown
  <1> QED
    BY <1>1, <1>2, <1>3, <1>8, <1>9, UnguardInv, Typed

\* A handle whose name is unlinked or replaced keeps its number and its file; the
\* scratch handles keep everything.
LEMMA OrphanedFacts ==
    ASSUME NandInv, NEW f \in Files
    PROVE  /\ Orphaned(handles, f, "main") \subseteq Handle
           /\ \A k \in Orphaned(handles, f, "main") : \E h \in handles :
                 /\ k.fd = h.fd /\ k.file = h.file /\ k.commit = h.commit /\ k.expect = h.expect
                 /\ k.at = "scratch" <=> h.at = "scratch"
                 /\ k.at = "main" => h.at = "main" /\ h.file # f
                 /\ k = IF h.file = f /\ h.at = "main" THEN [h EXCEPT !.at = "orphan"] ELSE h
  <1>1. ASSUME NEW h \in handles
        PROVE  LET k == IF h.file = f /\ h.at = "main" THEN [h EXCEPT !.at = "orphan"] ELSE h IN
               /\ k \in Handle
               /\ k.fd = h.fd /\ k.file = h.file /\ k.commit = h.commit /\ k.expect = h.expect
               /\ k.at = "scratch" <=> h.at = "scratch"
               /\ k.at = "main" => h.at = "main" /\ h.file # f
    <2>1. h \in Handle
      BY Typed
    <2>2. CASE h.file = f /\ h.at = "main"
      BY <2>1, <2>2 DEF Handle
    <2>3. CASE ~(h.file = f /\ h.at = "main")
      BY <2>1, <2>3
    <2> QED
      BY <2>2, <2>3
  <1> QED
    BY <1>1 DEF Orphaned

\* After the name of f is gone or replaced, the handles are still what they should be.
LEMMA OrphanedKnown ==
    ASSUME NandInv, NEW f \in Files, handles' = Orphaned(handles, f, "main"),
           UNCHANGED nextFd,
           \A g \in Files : g # f => main'[g] = main[g],
           \A h \in handles : h.at = "scratch" => scratch'[h.file] = scratch[h.file]
    PROVE  HandlesKnown' /\ handles' \subseteq Handle
  <1>1. ASSUME NEW k \in handles'
        PROVE  /\ k.fd < nextFd'
               /\ k.commit <=> k.at = "scratch"
               /\ k.at = "main" => main'[k.file] # None
               /\ k.at = "scratch" => scratch'[k.file] # None /\ scratch'[k.file].img = k.expect
    <2>1. PICK h \in handles :
             /\ k.fd = h.fd /\ k.file = h.file /\ k.commit = h.commit /\ k.expect = h.expect
             /\ k.at = "scratch" <=> h.at = "scratch"
             /\ k.at = "main" => h.at = "main" /\ h.file # f
      BY <1>1, OrphanedFacts
    <2>2. /\ h.fd < nextFd
          /\ h.commit <=> h.at = "scratch"
          /\ h.at = "main" => main[h.file] # None
          /\ h.at = "scratch" => scratch[h.file] # None /\ scratch[h.file].img = h.expect
      BY DEF NandInv, HandlesKnown
    <2>3. h.file \in Files
      BY Typed
    <2> QED
      BY <2>1, <2>2, <2>3
  <1>2. ASSUME NEW k \in handles', NEW l \in handles',
               k.fd = l.fd \/ (k.file = l.file /\ k.at = "scratch" /\ l.at = "scratch")
        PROVE  k = l
    <2>1. PICK h \in handles :
             /\ k.fd = h.fd /\ k.file = h.file /\ (k.at = "scratch" <=> h.at = "scratch")
             /\ k = IF h.file = f /\ h.at = "main" THEN [h EXCEPT !.at = "orphan"] ELSE h
      BY <1>2, OrphanedFacts
    <2>2. PICK m \in handles :
             /\ l.fd = m.fd /\ l.file = m.file /\ (l.at = "scratch" <=> m.at = "scratch")
             /\ l = IF m.file = f /\ m.at = "main" THEN [m EXCEPT !.at = "orphan"] ELSE m
      BY <1>2, OrphanedFacts
    <2>3. h = m
      BY <1>2, <2>1, <2>2 DEF NandInv, HandlesKnown
    <2> QED
      BY <2>1, <2>2, <2>3
  <1> QED
    BY <1>1, <1>2, OrphanedFacts DEF HandlesKnown

\* NANDDelete gives the promise about its path up and orphans its handles.
LEMMA DeleteInv ==
    ASSUME NandInv, NEW f \in Files, NANDDelete(f)
    PROVE  NandInv'
  <1>1. /\ main' = [main EXCEPT ![f] = None] /\ handles' = Orphaned(handles, f, "main")
        /\ Unguard(f) /\ job = NoJob /\ UNCHANGED <<scratch, nextFd, infos, job, dropped>>
    BY DEF NANDDelete, Guest
  <1>2. main' \in [Files -> Entry \cup {None}] /\ \A g \in Files : g # f => main'[g] = main[g]
    BY <1>1, Typed
  <1>3. HandlesKnown' /\ handles' \subseteq Handle
    BY <1>1, <1>2, OrphanedKnown
  <1> QED
    BY <1>1, <1>2, <1>3, UnguardInv

-----------------------------------------------------------------------------
\* Handles that leave the table take nothing from the others.
LEMMA FewerHandles ==
    ASSUME NandInv, handles' \subseteq handles, UNCHANGED <<main, scratch, nextFd>>
    PROVE  HandlesKnown' /\ handles' \subseteq Handle
  BY Typed DEF NandInv, HandlesKnown

\* CommitAndCloseFd takes the handle out of the table and its scratch file over.
LEMMA CloseBeginsInv ==
    ASSUME NandInv, NEW i \in Infos, CloseBegins(i)
    PROVE  NandInv'
  <1>1. PICK h \in HandleOf(infos[i].fd) :
          /\ handles' = handles \ {h}
          /\ job' = [step |-> "flush", info |-> i, file |-> h.file, commit |-> h.commit,
                     writable |-> h.writable, at |-> h.at, expect |-> h.expect]
    BY DEF CloseBegins
  <1>2. /\ job = NoJob /\ infos[i].flag \in {"open", "safe"}
        /\ infos' = [infos EXCEPT ![i].fd = 0]
        /\ UNCHANGED <<main, behind, scratch, nextFd, saved, closing, guarded, dropped>>
    BY DEF CloseBegins, Guest, diskVars, historyVars
  <1>3. /\ h \in handles /\ h.fd = infos[i].fd /\ h.file \in Files /\ h.fd \in 1 .. MaxFd
        /\ h.expect \in Image /\ h.commit \in BOOLEAN /\ h.writable \in BOOLEAN
        /\ h.at \in {"main", "scratch", "orphan"}
    BY <1>1, Typed DEF HandleOf
  <1>4. /\ job' \in Job /\ job'.step = "flush" /\ job'.info = i /\ job'.file = h.file
        /\ job'.commit = h.commit /\ job'.at = h.at /\ job'.expect = h.expect
    BY <1>1, <1>3 DEF Job
  <1>5. /\ infos' \in [Infos -> [fd : 0 .. MaxFd, flag : Flags]]
        /\ infos'[i].fd = 0 /\ infos'[i].flag = infos[i].flag
        /\ \A j \in Infos : j # i => infos'[j] = infos[j]
    BY <1>2, Typed, NandAssumptions
  <1>6. TypeOK'
    <2>1. handles' \subseteq Handle
      BY <1>1, Typed
    <2> QED
      BY <1>2, <1>4, <1>5, <2>1 DEF NandInv, TypeOK
  <1>7. HandlesKnown'
    BY <1>1, <1>2, FewerHandles
  <1>8. JobKnown'
    <2>1. /\ h.commit <=> h.at = "scratch"
          /\ h.at = "main" => main[h.file] # None
          /\ h.at = "scratch" => scratch[h.file] # None /\ scratch[h.file].img = h.expect
      BY <1>3 DEF NandInv, HandlesKnown
    <2>2. h.at = "scratch" => \A k \in handles' : k.file = h.file => k.at # "scratch"
      BY <1>1, <1>3 DEF NandInv, HandlesKnown
    <2> QED
      BY <1>2, <1>4, <1>5, <2>1, <2>2 DEF JobKnown
  <1>9. GuardedWhole'
    BY <1>2 DEF NandInv, GuardedWhole, Whole
  <1>10. DroppedKnown'
    <2>1. \A d \in dropped : d[1] \in Infos /\ d[1] # i
      <3>1. \A d \in dropped : d[1] \in Infos /\ infos[d[1]].fd = 0
        BY Typed DEF NandInv, DroppedKnown
      <3>2. infos[i].fd # 0
        BY <1>3
      <3> QED
        BY <3>1, <3>2
    <2> QED
      BY <1>2, <1>4, <1>5, <2>1 DEF NandInv, DroppedKnown
  <1> QED
    BY <1>6, <1>7, <1>8, <1>9, <1>10 DEF NandInv

\* The second call of a failed close: a safe open stays open.
LEMMA CloseAgainInv ==
    ASSUME NandInv, NEW i \in Infos, CloseAgain(i)
    PROVE  NandInv'
  <1>1. /\ job = NoJob /\ MissingFd(i)
        /\ UNCHANGED <<main, behind, scratch, handles, nextFd, job, saved, closing, guarded, dropped>>
    BY DEF CloseAgain, Guest, diskVars, historyVars
  <1>2. /\ infos' \in [Infos -> [fd : 0 .. MaxFd, flag : Flags]]
        /\ \A j \in Infos : infos'[j].fd = infos[j].fd
        /\ \A j \in Infos : infos[j].flag = "safe" => infos'[j].flag = "safe"
    BY <1>1, Typed DEF MissingFd, SetClosed, Flags
  <1>3. TypeOK'
    BY <1>1, <1>2 DEF NandInv, TypeOK
  <1>4. HandlesKnown'
    BY <1>1 DEF NandInv, HandlesKnown
  <1>5. JobKnown' /\ GuardedWhole'
    BY <1>1 DEF NandInv, JobKnown, GuardedWhole, Whole
  <1>6. DroppedKnown'
    BY <1>1, <1>2, Typed DEF NandInv, DroppedKnown
  <1> QED
    BY <1>3, <1>4, <1>5, <1>6 DEF NandInv

\* IOS_Close only takes its own handle out of the table.
LEMMA IosCloseInv ==
    ASSUME NandInv, NEW i \in Infos, IosClose(i)
    PROVE  NandInv'
  <1>1. /\ job = NoJob /\ infos[i].flag = "ios" /\ handles' \subseteq handles
        /\ infos' = [infos EXCEPT ![i] = [fd |-> 0, flag |-> "closed"]]
        /\ UNCHANGED <<main, behind, scratch, nextFd, job, saved, closing, guarded, dropped>>
    BY DEF IosClose, Guest, diskVars, historyVars
  <1>2. /\ infos' \in [Infos -> [fd : 0 .. MaxFd, flag : Flags]]
        /\ infos'[i].fd = 0
        /\ \A j \in Infos : j # i => infos'[j] = infos[j]
    BY <1>1, Typed, NandAssumptions DEF Flags
  <1>3. TypeOK'
    BY <1>1, <1>2, Typed DEF NandInv, TypeOK
  <1>4. HandlesKnown'
    BY <1>1, FewerHandles
  <1>5. JobKnown' /\ GuardedWhole'
    BY <1>1 DEF NandInv, JobKnown, GuardedWhole, Whole
  <1>6. DroppedKnown'
    <2>1. \A d \in dropped : d[1] \in Infos
      BY Typed
    <2> QED
      BY <1>1, <1>2, <2>1 DEF NandInv, DroppedKnown
  <1> QED
    BY <1>3, <1>4, <1>5, <1>6 DEF NandInv

-----------------------------------------------------------------------------
\* The handles are untouched by a close that changes only its own file.
LEMMA HandlesKept ==
    ASSUME NandInv, UNCHANGED <<handles, nextFd>>,
           \A f \in Files : main[f] # None => main'[f] # None,
           \A h \in handles : h.at = "scratch" => scratch'[h.file] = scratch[h.file]
    PROVE  HandlesKnown' /\ handles' \subseteq Handle
  BY Typed DEF NandInv, HandlesKnown

\* A flushed file is on the disk as it was in the cache.
LEMMA SyncedEntry ==
    ASSUME NEW e \in Entry
    PROVE  Synced(e) \in Entry /\ Synced(e).img = e.img /\ Synced(e).disk = e.img /\ Synced(e) # None
  BY NoneAssumption DEF Synced, Entry

\* FlushFileToDisk brings the scratch file to the disk before the rename.
LEMMA FlushInv ==
    ASSUME NandInv, Flush
    PROVE  NandInv'
  <1>1. /\ job.step = "flush"
        /\ main' = IF job.writable /\ job.at = "main" THEN [main EXCEPT ![job.file] = Synced(main[job.file])]
                                                      ELSE main
        /\ scratch' = IF job.at = "scratch" THEN [scratch EXCEPT ![job.file] = Synced(scratch[job.file])]
                                            ELSE scratch
        /\ job' = [job EXCEPT !.step = IF job.commit THEN "rename" ELSE "done"]
        /\ UNCHANGED <<behind, handles, nextFd, infos, saved, closing, guarded, dropped>>
    BY DEF Flush, historyVars
  <1>2. job # NoJob
    BY <1>1, Values
  <1>3. /\ job \in Job /\ job.info \in Infos /\ job.file \in Files /\ job.expect \in Image
        /\ job.commit \in BOOLEAN /\ job.writable \in BOOLEAN
    BY <1>2, JobTyped
  <1>4. /\ infos[job.info].fd = 0 /\ infos[job.info].flag \in {"open", "safe"}
        /\ job.commit <=> job.at = "scratch"
        /\ job.at = "main" => main[job.file] # None
        /\ job.commit => /\ scratch[job.file] # None /\ scratch[job.file].img = job.expect
                         /\ \A h \in handles : h.file = job.file => h.at # "scratch"
    BY <1>1, <1>2 DEF NandInv, JobKnown
  <1>5. /\ job' \in Job /\ job'.step = IF job.commit THEN "rename" ELSE "done"
        /\ job'.info = job.info /\ job'.file = job.file /\ job'.commit = job.commit
        /\ job'.at = job.at /\ job'.expect = job.expect /\ job'.writable = job.writable
    BY <1>1, <1>3 DEF Job
  <1>6. /\ main' \in [Files -> Entry \cup {None}]
        /\ \A f \in Files : main[f] # None =>
              main'[f] # None /\ main'[f].img = main[f].img
        /\ \A f \in Files : main[f] \in Entry /\ main[f].disk = main[f].img =>
              main'[f] \in Entry /\ main'[f].disk = main[f].disk
    <2>1. CASE job.writable /\ job.at = "main"
      <3>1. main[job.file] \in Entry
        BY <1>3, <1>4, <2>1, Typed
      <3>2. /\ Synced(main[job.file]) \in Entry /\ Synced(main[job.file]).img = main[job.file].img
            /\ Synced(main[job.file]).disk = main[job.file].img /\ Synced(main[job.file]) # None
        BY <3>1, SyncedEntry
      <3> QED
        BY <1>1, <1>3, <2>1, <3>2, Typed
    <2>2. CASE ~(job.writable /\ job.at = "main")
      BY <1>1, <2>2, Typed
    <2> QED
      BY <2>1, <2>2
  <1>7. /\ scratch' \in [Files -> Entry \cup {None}]
        /\ \A f \in Files : f # job.file => scratch'[f] = scratch[f]
        /\ job.commit => /\ scratch'[job.file] # None /\ scratch'[job.file].img = job.expect
                         /\ scratch'[job.file].disk = job.expect
        /\ ~job.commit => scratch' = scratch
    <2>1. CASE job.at = "scratch"
      <3>1. scratch[job.file] \in Entry
        BY <1>3, <1>4, <2>1, Typed
      <3>2. /\ Synced(scratch[job.file]) \in Entry
            /\ Synced(scratch[job.file]).img = scratch[job.file].img
            /\ Synced(scratch[job.file]).disk = scratch[job.file].img /\ Synced(scratch[job.file]) # None
        BY <3>1, SyncedEntry
      <3> QED
        BY <1>1, <1>3, <1>4, <2>1, <3>2, Typed
    <2>2. CASE job.at # "scratch"
      BY <1>1, <1>4, <2>2, Typed
    <2> QED
      BY <2>1, <2>2
  <1>8. TypeOK'
    BY <1>1, <1>5, <1>6, <1>7 DEF NandInv, TypeOK
  <1>9. HandlesKnown'
    <2>1. \A h \in handles : h.at = "scratch" => scratch'[h.file] = scratch[h.file]
      BY <1>4, <1>7, Typed
    <2> QED
      BY <1>1, <1>6, <2>1, HandlesKept
  <1>10. JobKnown'
    BY <1>1, <1>4, <1>5, <1>7 DEF JobKnown
  <1>11. GuardedWhole'
    <2>1. ASSUME NEW f \in guarded PROVE Whole(f, main'[f])
      <3>1. f \in Files /\ main[f] \in Entry /\ main[f] # None /\ Whole(f, main[f])
        BY GuardedThere, Typed DEF NandInv, GuardedWhole
      <3> QED
        BY <1>6, <3>1 DEF Whole
    <2> QED
      BY <1>1, <2>1 DEF NandInv, GuardedWhole, Whole
  <1>12. DroppedKnown'
    BY <1>1, <1>2, <1>5 DEF NandInv, DroppedKnown
  <1> QED
    BY <1>8, <1>9, <1>10, <1>11, <1>12 DEF NandInv

\* A failed flush or rename: the scratch file goes or stays, nobody refers to it, and
\* the info keeps its flag.
LEMMA CloseFailsInv ==
    ASSUME NandInv, job.step \in {"flush", "rename"}, CloseFails
    PROVE  NandInv'
  <1>1. PICK left \in {None, scratch[job.file]} :
          scratch' = IF job.commit THEN [scratch EXCEPT ![job.file] = left] ELSE scratch
    BY DEF CloseFails
  <1>2. /\ dropped' = IF job.writable THEN dropped \cup {<<job.info, infos[job.info].flag>>} ELSE dropped
        /\ job' = NoJob
        /\ UNCHANGED <<main, behind, handles, nextFd, infos, saved, closing, guarded>>
    BY DEF CloseFails
  <1>3. job # NoJob
    BY Values
  <1>4. job.info \in Infos /\ job.file \in Files
    BY <1>3, JobTyped
  <1>5. /\ infos[job.info].fd = 0 /\ infos[job.info].flag \in {"open", "safe"}
        /\ job.commit => \A h \in handles : h.file = job.file => h.at # "scratch"
    BY <1>3 DEF NandInv, JobKnown
  <1>6. scratch' \in [Files -> Entry \cup {None}]
    BY <1>1, <1>4, Typed
  <1>7. TypeOK'
    <2>1. dropped' \subseteq Infos \X {"open", "safe"}
      BY <1>2, <1>4, <1>5, Typed
    <2> QED
      BY <1>2, <1>6, <2>1 DEF NandInv, TypeOK
  <1>8. HandlesKnown'
    <2>1. \A h \in handles : h.at = "scratch" => scratch'[h.file] = scratch[h.file]
      BY <1>1, <1>4, <1>5, Typed
    <2> QED
      BY <1>2, <2>1, HandlesKept
  <1>9. JobKnown' /\ GuardedWhole'
    BY <1>2 DEF NandInv, JobKnown, GuardedWhole, Whole
  <1>10. DroppedKnown'
    BY <1>2, <1>4, <1>5 DEF NandInv, DroppedKnown
  <1> QED
    BY <1>7, <1>8, <1>9, <1>10 DEF NandInv

\* AtomicReplaceHostFile: the path holds either its old entry or the flushed copy.
LEMMA RenameInv ==
    ASSUME NandInv, Rename
    PROVE  NandInv'
  <1>1. /\ job.step = "rename" /\ scratch[job.file] # None
        /\ main' = [main EXCEPT ![job.file] = scratch[job.file]]
        /\ scratch' = [scratch EXCEPT ![job.file] = None]
        /\ handles' = Orphaned(handles, job.file, "main")
        /\ job' = [job EXCEPT !.step = "sync"]
        /\ UNCHANGED <<nextFd, infos, saved, guarded, dropped>>
    BY DEF Rename
  <1>2. /\ job.file \in guarded =>
              /\ behind' = [behind EXCEPT ![job.file] = behind[job.file] \cup {main[job.file]}]
              /\ closing' = [closing EXCEPT ![job.file] = closing[job.file] \cup {job.expect}]
        /\ job.file \notin guarded => UNCHANGED <<behind, closing>>
    BY DEF Rename
  <1>3. job # NoJob
    BY <1>1, Values
  <1>4. job \in Job /\ job.info \in Infos /\ job.file \in Files /\ job.expect \in Image
    BY <1>3, JobTyped
  <1>5. /\ infos[job.info].fd = 0 /\ infos[job.info].flag \in {"open", "safe"}
        /\ job.commit /\ job.at = "scratch"
        /\ scratch[job.file].img = job.expect /\ scratch[job.file].disk = job.expect
        /\ \A h \in handles : h.file = job.file => h.at # "scratch"
    BY <1>1, <1>3 DEF NandInv, JobKnown
  <1>6. scratch[job.file] \in Entry
    BY <1>1, <1>4, Typed
  <1>7. /\ main' \in [Files -> Entry \cup {None}] /\ scratch' \in [Files -> Entry \cup {None}]
        /\ main'[job.file] = scratch[job.file]
        /\ \A f \in Files : f # job.file => main'[f] = main[f] /\ scratch'[f] = scratch[f]
    BY <1>1, <1>4, <1>6, Typed
  <1>8. /\ job' \in Job /\ job'.step = "sync" /\ job'.info = job.info /\ job'.file = job.file
        /\ job'.commit = job.commit /\ job'.at = job.at /\ job'.expect = job.expect
    BY <1>1, <1>4 DEF Job
  <1>9. HandlesKnown' /\ handles' \subseteq Handle
    <2>1. \A h \in handles : h.at = "scratch" => scratch'[h.file] = scratch[h.file]
      BY <1>5, <1>7, Typed
    <2> QED
      BY <1>1, <1>4, <1>7, <2>1, OrphanedKnown
  <1>10. TypeOK'
    <2>1. behind' \in [Files -> SUBSET (Entry \cup {None})] /\ closing' \in [Files -> SUBSET Image]
      <3>1. CASE job.file \in guarded
        <4>1. main[job.file] \in Entry \cup {None}
          BY <1>4, Typed
        <4> QED
          BY <1>2, <1>4, <3>1, <4>1, Typed
      <3>2. CASE job.file \notin guarded
        BY <1>2, <3>2, Typed
      <3> QED
        BY <3>1, <3>2
    <2> QED
      BY <1>1, <1>7, <1>8, <1>9, <2>1 DEF NandInv, TypeOK
  <1>11. JobKnown'
    BY <1>1, <1>5, <1>7, <1>8 DEF JobKnown
  <1>12. GuardedWhole'
    <2>1. ASSUME NEW f \in guarded, NEW e \in {main'[f]} \cup behind'[f]
          PROVE  Whole(f, e)'
      <3>1. f \in Files /\ \A o \in {main[f]} \cup behind[f] : Whole(f, o)
        BY <2>1, Typed DEF NandInv, GuardedWhole
      <3>2. CASE f = job.file
        <4>1. /\ behind'[f] = behind[f] \cup {main[f]}
              /\ closing'[f] = closing[f] \cup {job.expect}
          BY <1>2, <1>4, <2>1, <3>2, Typed
        <4>2. CASE e = main'[f]
          BY <1>5, <1>6, <1>7, <3>2, <4>1, <4>2 DEF Whole
        <4>3. CASE e \in behind[f] \cup {main[f]}
          BY <1>1, <3>1, <4>1, <4>3 DEF Whole
        <4> QED
          BY <2>1, <4>1, <4>2, <4>3
      <3>3. CASE f # job.file
        <4>1. behind'[f] = behind[f] /\ closing'[f] = closing[f] /\ main'[f] = main[f]
          BY <1>2, <1>4, <1>7, <3>1, <3>3, Typed
        <4> QED
          BY <1>1, <2>1, <3>1, <4>1 DEF Whole
      <3> QED
        BY <3>2, <3>3
    <2> QED
      BY <1>1, <2>1 DEF GuardedWhole
  <1>13. DroppedKnown'
    BY <1>1, <1>3, <1>8 DEF NandInv, DroppedKnown
  <1> QED
    BY <1>9, <1>10, <1>11, <1>12, <1>13 DEF NandInv

\* The close returns NAND_RESULT_OK: what the rename left is the new saved image.
LEMMA SyncDirectoryInv ==
    ASSUME NandInv, SyncDirectory
    PROVE  NandInv'
  <1>1. /\ job.step = "sync"
        /\ behind' = [behind EXCEPT ![job.file] = {}]
        /\ infos' = [infos EXCEPT ![job.info].flag = "closed"]
        /\ saved' = [saved EXCEPT ![job.file] = job.expect]
        /\ closing' = [closing EXCEPT ![job.file] = {}]
        /\ guarded' = guarded \cup {job.file}
        /\ job' = NoJob
        /\ UNCHANGED <<main, scratch, handles, nextFd, dropped>>
    BY DEF SyncDirectory, SetClosed
  <1>2. job # NoJob
    BY <1>1, Values
  <1>3. job.info \in Infos /\ job.file \in Files /\ job.expect \in Image
    BY <1>2, JobTyped
  <1>4. /\ main[job.file] # None
        /\ main[job.file].img = job.expect /\ main[job.file].disk = job.expect
    BY <1>1, <1>2 DEF NandInv, JobKnown
  <1>5. /\ infos' \in [Infos -> [fd : 0 .. MaxFd, flag : Flags]]
        /\ \A j \in Infos : j # job.info => infos'[j] = infos[j]
    BY <1>1, Typed DEF Flags
  <1>6. TypeOK'
    <2>1. /\ behind' \in [Files -> SUBSET (Entry \cup {None})] /\ saved' \in [Files -> Image]
          /\ closing' \in [Files -> SUBSET Image] /\ guarded' \subseteq Files
      BY <1>1, <1>3, Typed
    <2> QED
      BY <1>1, <1>5, <2>1 DEF NandInv, TypeOK
  <1>7. HandlesKnown'
    BY <1>1, HandlesKept
  <1>8. JobKnown'
    BY <1>1 DEF JobKnown
  <1>9. GuardedWhole'
    <2>1. ASSUME NEW f \in guarded', NEW e \in {main'[f]} \cup behind'[f]
          PROVE  Whole(f, e)'
      <3>1. CASE f = job.file
        <4>1. behind'[f] = {} /\ saved'[f] = job.expect
          BY <1>1, <1>3, <3>1, Typed
        <4>2. main[f] \in Entry
          BY <1>3, <1>4, <3>1, Typed
        <4> QED
          BY <1>1, <1>4, <2>1, <3>1, <4>1, <4>2 DEF Whole
      <3>2. CASE f # job.file
        <4>1. f \in guarded /\ f \in Files /\ \A o \in {main[f]} \cup behind[f] : Whole(f, o)
          BY <1>1, <2>1, <3>2, Typed DEF NandInv, GuardedWhole
        <4>2. behind'[f] = behind[f] /\ closing'[f] = closing[f] /\ saved'[f] = saved[f]
          BY <1>1, <1>3, <3>2, <4>1, Typed
        <4> QED
          BY <1>1, <2>1, <4>1, <4>2 DEF Whole
      <3> QED
        BY <3>1, <3>2
    <2> QED
      BY <2>1 DEF GuardedWhole
  <1>10. DroppedKnown'
    <2>1. \A d \in dropped : d[1] \in Infos /\ d[1] # job.info
      BY <1>2, Typed DEF NandInv, DroppedKnown
    <2> QED
      BY <1>1, <1>5, <2>1 DEF NandInv, DroppedKnown
  <1> QED
    BY <1>6, <1>7, <1>8, <1>9, <1>10 DEF NandInv

\* A close without a commit ends by marking its info closed.
LEMMA PlainCloseEndsInv ==
    ASSUME NandInv, PlainCloseEnds
    PROVE  NandInv'
  <1>1. /\ job.step = "done" /\ job' = NoJob
        /\ infos' = [infos EXCEPT ![job.info].flag = "closed"]
        /\ UNCHANGED <<main, behind, scratch, handles, nextFd, saved, closing, guarded, dropped>>
    BY DEF PlainCloseEnds, SetClosed, diskVars, historyVars
  <1>2. job # NoJob
    BY <1>1, Values
  <1>3. job.info \in Infos
    BY <1>2, JobTyped
  <1>4. /\ infos' \in [Infos -> [fd : 0 .. MaxFd, flag : Flags]]
        /\ \A j \in Infos : j # job.info => infos'[j] = infos[j]
    BY <1>1, Typed DEF Flags
  <1>5. TypeOK'
    BY <1>1, <1>4 DEF NandInv, TypeOK
  <1>6. HandlesKnown'
    BY <1>1, HandlesKept
  <1>7. JobKnown' /\ GuardedWhole'
    BY <1>1 DEF NandInv, JobKnown, GuardedWhole, Whole
  <1>8. DroppedKnown'
    <2>1. \A d \in dropped : d[1] \in Infos /\ d[1] # job.info
      BY <1>2, Typed DEF NandInv, DroppedKnown
    <2> QED
      BY <1>1, <1>4, <2>1 DEF NandInv, DroppedKnown
  <1> QED
    BY <1>5, <1>6, <1>7, <1>8 DEF NandInv

-----------------------------------------------------------------------------
\* A new session has no handles and no close: only the directory has to be right.
LEMMA DiesInv ==
    ASSUME NandInv, Dies,
           main' \in [Files -> Entry \cup {None}], scratch' \in [Files -> Entry \cup {None}],
           behind' \in [Files -> SUBSET (Entry \cup {None})],
           \A f \in guarded : \A e \in {main'[f]} \cup behind'[f] : Whole(f, e)
    PROVE  NandInv'
  <1>1. /\ handles' = {} /\ job' = NoJob /\ dropped' = {}
        /\ infos' = [i \in Infos |-> [fd |-> 0, flag |-> "closed"]]
        /\ UNCHANGED <<nextFd, saved, closing, guarded>>
    BY DEF Dies
  <1>2. TypeOK'
    <2>1. infos' \in [Infos -> [fd : 0 .. MaxFd, flag : Flags]]
      BY <1>1, NandAssumptions DEF Flags
    <2> QED
      BY <1>1, <2>1 DEF NandInv, TypeOK
  <1>3. HandlesKnown'
    BY <1>1 DEF HandlesKnown
  <1>4. JobKnown'
    BY <1>1 DEF JobKnown
  <1>5. GuardedWhole'
    BY <1>1 DEF GuardedWhole, Whole
  <1>6. DroppedKnown'
    BY <1>1 DEF DroppedKnown
  <1> QED
    BY <1>2, <1>3, <1>4, <1>5, <1>6 DEF NandInv

\* The process dies: the directory is what the host has cached.
LEMMA ProcessDiesInv ==
    ASSUME NandInv, ProcessDies
    PROVE  NandInv'
  <1>1. Dies /\ UNCHANGED <<main, behind>>
    BY DEF ProcessDies
  <1>2. scratch' \in [Files -> Entry \cup {None}]
    <2>1. CASE UNCHANGED scratch
      BY <2>1, Typed
    <2>2. CASE \E f \in Files : scratch' = [scratch EXCEPT ![f] = Wreck]
      BY <2>2, Typed, Values
    <2> QED
      BY <2>1, <2>2 DEF ProcessDies
  <1>3. \A f \in guarded : \A e \in {main'[f]} \cup behind'[f] : Whole(f, e)
    BY <1>1 DEF NandInv, GuardedWhole
  <1> QED
    BY <1>1, <1>2, <1>3, Typed, DiesInv

\* Nothing of an entry that is on the disk can be torn.
LEMMA TornWhole ==
    ASSUME NEW f, NEW e, Whole(f, e), NEW t \in Torn(e)
    PROVE  Whole(f, t)
  <1>1. e \in Entry /\ e.disk = e.img /\ e.img \in Image /\ e # None
    BY EntryFacts, NoneAssumption DEF Whole
  <1>2. PICK m \in Image : /\ \A b \in Blocks : m[b] \in {e.img[b], e.disk[b]}
                           /\ t = [img |-> m, disk |-> m]
    BY <1>1 DEF Torn
  <1>3. m = e.img
    <2>1. \A b \in Blocks : m[b] = e.img[b]
      BY <1>1, <1>2
    <2> QED
      BY <1>1, <1>2, <2>1 DEF Image
  <1>4. t \in Entry /\ t.img = m /\ t.disk = m
    BY <1>2 DEF Entry
  <1> QED
    BY <1>1, <1>3, <1>4 DEF Whole

\* What a power failure leaves of a file is still a file, or nothing.
LEMMA TornEntry ==
    ASSUME NEW e, NEW t \in Torn(e)
    PROVE  t \in Entry \cup {None}
  <1>1. CASE e = None
    BY <1>1 DEF Torn
  <1>2. CASE e # None
    <2>1. PICK m \in Image : t = [img |-> m, disk |-> m]
      BY <1>2 DEF Torn
    <2> QED
      BY <2>1 DEF Entry
  <1> QED
    BY <1>1, <1>2

\* The power fails: every guarded path comes back with a whole save.
LEMMA PowerFailsInv ==
    ASSUME NandInv, PowerFails
    PROVE  NandInv'
  <1>1. Dies /\ behind' = [f \in Files |-> {}]
    BY DEF PowerFails
  <1>2. /\ main' \in [Files -> {None, Wreck} \cup
                        UNION {Torn(e) : e \in UNION {{main[f]} \cup behind[f] : f \in Files}}]
        /\ \A f \in guarded : main'[f] \in UNION {Torn(e) : e \in {main[f]} \cup behind[f]}
    BY DEF PowerFails
  <1>3. main' \in [Files -> Entry \cup {None}]
    <2>1. \A t \in UNION {Torn(e) : e \in UNION {{main[f]} \cup behind[f] : f \in Files}} :
             t \in Entry \cup {None}
      BY TornEntry
    <2> QED
      BY <1>2, <2>1, Values
  <1>4. scratch' \in [Files -> Entry \cup {None}]
    BY Values DEF PowerFails
  <1>5. behind' \in [Files -> SUBSET (Entry \cup {None})]
    BY <1>1
  <1>6. ASSUME NEW f \in guarded, NEW e \in {main'[f]} \cup behind'[f]
        PROVE  Whole(f, e)
    <2>1. f \in Files /\ \A o \in {main[f]} \cup behind[f] : Whole(f, o)
      BY <1>6, Typed DEF NandInv, GuardedWhole
    <2>2. e = main'[f]
      BY <1>1, <1>6, <2>1
    <2>3. PICK o \in {main[f]} \cup behind[f] : e \in Torn(o)
      BY <1>2, <1>6, <2>2
    <2>4. Whole(f, o)
      BY <2>1, <2>3
    <2> QED
      BY <2>3, <2>4, TornWhole
  <1> QED
    BY <1>1, <1>3, <1>4, <1>5, <1>6, DiesInv

-----------------------------------------------------------------------------
\* A fresh disk satisfies the invariant.
LEMMA InitInv == Init => NandInv
  <1> SUFFICES ASSUME Init PROVE NandInv
    OBVIOUS
  <1>1. [img |-> First, disk |-> First] \in Entry
    BY Values DEF Entry
  <1>2. TypeOK
    <2>1. /\ main \in [Files -> Entry \cup {None}] /\ scratch \in [Files -> Entry \cup {None}]
          /\ behind \in [Files -> SUBSET (Entry \cup {None})]
          /\ saved \in [Files -> Image] /\ closing \in [Files -> SUBSET Image]
      BY <1>1, Values DEF Init
    <2>2. nextFd \in 1 .. MaxFd + 1 /\ infos \in [Infos -> [fd : 0 .. MaxFd, flag : Flags]]
      BY NandAssumptions DEF Init, Flags
    <2> QED
      BY <2>1, <2>2 DEF Init, TypeOK
  <1>3. HandlesKnown /\ JobKnown /\ DroppedKnown
    BY DEF Init, HandlesKnown, JobKnown, DroppedKnown
  <1>4. GuardedWhole
    <2>1. ASSUME NEW f \in Files, NEW e \in {main[f]} \cup behind[f] PROVE Whole(f, e)
      <3>1. e = [img |-> First, disk |-> First] /\ saved[f] = First
        BY <2>1 DEF Init
      <3> QED
        BY <1>1, <3>1 DEF Whole
    <2> QED
      BY <2>1 DEF Init, GuardedWhole
  <1> QED
    BY <1>2, <1>3, <1>4 DEF NandInv

\* A step that changes nothing keeps the invariant.
LEMMA StutterInv == ASSUME NandInv, UNCHANGED vars PROVE NandInv'
  BY DEF NandInv, TypeOK, HandlesKnown, JobKnown, GuardedWhole, Whole, DroppedKnown,
         vars, diskVars, historyVars

\* Every NAND call, close step and crash keeps the invariant.
LEMMA StepInv == NandInv /\ [Next]_vars => NandInv'
  <1> SUFFICES ASSUME NandInv, [Next]_vars PROVE NandInv'
    OBVIOUS
  <1>1. CASE OpenStep
    <2>1. PICK i \in Infos, f \in Files :
             \/ \E flag \in {"open", "safe", "ios"} : OpenRead(i, f, flag)
             \/ \E flag \in {"open", "safe"} : OpenShadow(i, f, flag)
             \/ OpenInPlace(i, f)
             \/ SafeOpenFails(i, f)
             \/ OpenCreates(i, f)
             \/ IosOpenWrite(i, f)
      BY <1>1 DEF OpenStep
    <2> QED
      BY <2>1, OpenReadInv, OpenShadowInv, OpenInPlaceInv, SafeOpenFailsInv, OpenCreatesInv,
         IosOpenWriteInv
  <1>2. CASE \E i \in Infos, b \in Blocks : WriteShadow(i, b) \/ WriteInPlace(i, b)
    BY <1>2, WriteShadowInv, WriteInPlaceInv
  <1>3. CASE \E f \in Files : NANDCreate(f) \/ NANDDelete(f)
    BY <1>3, CreateInv, DeleteInv
  <1>4. CASE \E i \in Infos : CloseBegins(i) \/ CloseAgain(i) \/ IosClose(i)
    BY <1>4, CloseBeginsInv, CloseAgainInv, IosCloseInv
  <1>5. CASE Flush \/ FlushFails \/ Rename \/ RenameFails \/ SyncDirectory \/ PlainCloseEnds
    BY <1>5, FlushInv, CloseFailsInv, RenameInv, SyncDirectoryInv, PlainCloseEndsInv
       DEF FlushFails, RenameFails
  <1>6. CASE ProcessDies \/ PowerFails
    BY <1>6, ProcessDiesInv, PowerFailsInv
  <1>7. CASE UNCHANGED vars
    BY <1>7, StutterInv
  <1> QED
    BY <1>1, <1>2, <1>3, <1>4, <1>5, <1>6, <1>7 DEF Next

\* The ownership of scratch files and the wholeness of guarded paths hold always.
LEMMA NandInvariant == Spec => []NandInv
  BY InitInv, StepInv, PTL DEF Spec

-----------------------------------------------------------------------------
\* A path that NANDOpen and NANDSafeOpen only ever write through scratch copies holds
\* the last acknowledged save or the one whose close was under way, whole, whatever
\* step of CommitAndCloseFd the process dies, the power fails or a host call fails in.
THEOREM NandOldOrNew == Spec => []OldOrNew
  <1>1. NandInv => OldOrNew
    BY GuardedThere DEF NandInv, GuardedWhole, Whole, OldOrNew
  <1> QED
    BY <1>1, NandInvariant, PTL

\* The image that AtomicReplaceHostFile's rename publishes is the one its own handle
\* was opened on with its own writes: no stale .nandsafe.tmp and no other handle's bytes.
THEOREM NandPublished == Spec => []PublishedOwnImage
  <1>1. NandInv => PublishedOwnImage
    BY Values DEF NandInv, JobKnown, PublishedOwnImage
  <1> QED
    BY <1>1, NandInvariant, PTL

\* NANDSafeClose never answers NAND_RESULT_OK for an info whose earlier close failed and
\* threw its data away: with missingFdIsError the info stays marked safe.
THEOREM NandSafeClose == Spec => []SafeCloseHonest
  <1>1. NandInv => SafeCloseHonest
    BY DEF NandInv, DroppedKnown, SafeCloseHonest
  <1> QED
    BY <1>1, NandInvariant, PTL
=============================================================================
