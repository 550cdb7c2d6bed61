---------------------------- MODULE NandStorage ----------------------------
(***************************************************************************)
(* Save files on the host disk (nand_api.cpp, nand_async.cpp, nand_fs.cpp, *)
(* nand_isfs.cpp).  A write open of an existing file works on a scratch    *)
(* copy that the close publishes: flush, rename over the file, sync of the *)
(* directory.  The process may die or the power fail between any two of    *)
(* these steps, and each of them may fail.                                 *)
(*                                                                         *)
(* A file is an image of a few blocks; every open writes its own           *)
(* descriptor number, so a mixture of two saves shows.  An entry of the    *)
(* host directory is what is cached of a file and what of it is on disk.   *)
(***************************************************************************)
EXTENDS Integers, FiniteSets

CONSTANTS
    Files,     \* NAND paths
    Infos,     \* NANDFileInfo structures of the guest
    Blocks,    \* parts of a file that are written separately
    MaxFd,     \* bound on the opens that are explored
    None

ASSUME NandAssumptions == MaxFd \in Nat

VARIABLES
    main,      \* host directory: the file of each path, as cached
    behind,    \* entries the durable directory may still hold in a guarded path's place
    scratch,   \* host directory: the .nandsafe.tmp of each path
    handles,   \* g_fileHandles
    nextFd,    \* g_nextFd
    infos,     \* fd and openFlag of each NANDFileInfo
    job,       \* the close that CommitAndCloseFd is performing
    saved,     \* history: the image of each path's last acknowledged save
    closing,   \* history: images renamed in since without an acknowledgement
    guarded,   \* history: paths only ever changed through scratch copies since
    dropped    \* history: infos whose close failed and threw data away, with their flag

diskVars    == <<main, behind, scratch>>
historyVars == <<saved, closing, guarded, dropped>>
vars        == <<diskVars, handles, nextFd, infos, job, historyVars>>

Junk  == -1     \* a block that was never written to the disk
Image == [Blocks -> Junk .. MaxFd]
Entry == [img : Image, disk : Image]
Blank == [b \in Blocks |-> Junk]
Wreck == [img |-> Blank, disk |-> Blank]
First == [b \in Blocks |-> 0]

Flags == {"closed", "open", "safe", "ios"}
NoJob == [step |-> "none"]
Handle == [fd : 1 .. MaxFd, file : Files, at : {"main", "scratch", "orphan"},
           commit : BOOLEAN, writable : BOOLEAN, expect : Image]
Job == [step : {"flush", "rename", "sync", "done"}, info : Infos, file : Files,
        commit : BOOLEAN, writable : BOOLEAN, at : {"main", "scratch", "orphan"},
        expect : Image]

ASSUME NoneAssumption == None \notin Entry

Init ==
    /\ main = [f \in Files |-> [img |-> First, disk |-> First]]
    /\ behind = [f \in Files |-> {}]
    /\ scratch = [f \in Files |-> None]
    /\ handles = {} /\ nextFd = 1
    /\ infos = [i \in Infos |-> [fd |-> 0, flag |-> "closed"]]
    /\ job = NoJob
    /\ saved = [f \in Files |-> First]
    /\ closing = [f \in Files |-> {}]
    /\ guarded = Files /\ dropped = {}

\* NAND calls run to their end on the scheduler thread.
Guest == job = NoJob

HandleOf(fd) == {h \in handles : h.fd = fd}

\* AllocateFd is about to succeed; the guest does not reuse an info that is open.
CanOpen(i) == Guest /\ nextFd <= MaxFd /\ HandleOf(infos[i].fd) = {}

\* Some live handle refers to the path, directly or as its commit target.
IsHostPathOpen(f) == \E h \in handles : h.file = f

-----------------------------------------------------------------------------
(* Opening.                                                                *)

AllocateFd(i, f, at, commit, writable, flag) ==
    /\ handles' = handles \cup {[fd |-> nextFd, file |-> f, at |-> at, commit |-> commit,
                                 writable |-> writable,
                                 expect |-> IF commit THEN main[f].img ELSE Blank]}
    /\ nextFd' = nextFd + 1
    /\ infos' = [infos EXCEPT ![i] = [fd |-> nextFd, flag |-> flag]]
    /\ dropped' = {d \in dropped : d[1] # i}
    /\ UNCHANGED <<job, saved, closing>>

\* NANDOpen, NANDSafeOpen and IOS_Open for reading.
OpenRead(i, f, flag) ==
    /\ CanOpen(i) /\ main[f] # None
    /\ UNCHANGED <<diskVars, guarded>>
    /\ AllocateFd(i, f, "main", FALSE, FALSE, flag)

\* Mutant: a scratch file that is already there is reused.
StaleSeed(f) == IF scratch[f] # None THEN scratch[f] ELSE [img |-> main[f].img, disk |-> Blank]

\* The stale scratch file is discarded and a byte-for-byte copy takes its place.
SeedScratch(f) == [img |-> main[f].img, disk |-> Blank]

\* Both write opens of an existing file, when every host call succeeds.
OpenShadow(i, f, flag) ==
    /\ CanOpen(i) /\ main[f] # None /\ ~IsHostPathOpen(f)
    /\ scratch' = [scratch EXCEPT ![f] = SeedScratch(f)]
    /\ UNCHANGED <<main, behind, guarded>>
    /\ AllocateFd(i, f, "scratch", TRUE, TRUE, flag)

\* What a failed seed leaves: the old scratch file that could not be removed, a
\* partial copy that could not be removed, or nothing.
FailedSeeds(f) == {scratch[f], None, Wreck}

\* NANDOpen falls back to the file itself when a handle is live or a seed failed.
OpenInPlace(i, f) ==
    /\ CanOpen(i) /\ main[f] # None
    /\ \E left \in IF IsHostPathOpen(f) THEN {scratch[f]} ELSE FailedSeeds(f) :
          scratch' = [scratch EXCEPT ![f] = left]
    /\ UNCHANGED <<main, behind, guarded>>
    /\ AllocateFd(i, f, "main", FALSE, TRUE, "open")

\* NANDSafeOpen reports a failed seed and opens nothing.
SafeOpenFails(i, f) ==
    /\ CanOpen(i) /\ main[f] # None /\ ~IsHostPathOpen(f)
    /\ \E left \in FailedSeeds(f) : scratch' = [scratch EXCEPT ![f] = left]
    /\ UNCHANGED <<main, behind, handles, nextFd, infos, job, historyVars>>

\* From now on nothing is promised of the file: it is written, made or removed in place.
Unguard(f) ==
    /\ guarded' = guarded \ {f}
    /\ behind' = [behind EXCEPT ![f] = {}]
    /\ saved' = [saved EXCEPT ![f] = First]
    /\ closing' = [closing EXCEPT ![f] = {}]

\* NANDOpen of a path that does not exist creates it in place.
OpenCreates(i, f) ==
    /\ CanOpen(i) /\ main[f] = None
    /\ main' = [main EXCEPT ![f] = Wreck]
    /\ UNCHANGED <<behind, scratch, guarded>>
    /\ AllocateFd(i, f, "main", FALSE, TRUE, "open")

\* IOS_Open writes in place and never creates.
IosOpenWrite(i, f) ==
    /\ CanOpen(i) /\ main[f] # None
    /\ UNCHANGED <<diskVars, guarded>>
    /\ AllocateFd(i, f, "main", FALSE, TRUE, "ios")

-----------------------------------------------------------------------------
(* Writing, creating and deleting.                                         *)

\* NANDWrite and IOS_Write: the block reaches the host's cache at once (fflush).
WriteShadow(i, b) ==
    /\ Guest
    /\ \E h \in HandleOf(infos[i].fd) :
          /\ h.at = "scratch"
          /\ handles' = (handles \ {h}) \cup {[h EXCEPT !.expect[b] = h.fd]}
          /\ scratch' = [scratch EXCEPT ![h.file].img[b] = h.fd]
    /\ UNCHANGED <<main, behind, nextFd, infos, job, historyVars>>

WriteInPlace(i, b) ==
    /\ Guest
    /\ \E h \in HandleOf(infos[i].fd) :
          /\ h.writable /\ h.at = "main"
          /\ main' = [main EXCEPT ![h.file].img[b] = h.fd]
          /\ Unguard(h.file)
    /\ UNCHANGED <<scratch, handles, nextFd, infos, job, dropped>>

\* A handle on a name that is unlinked or replaced goes on with a file nobody sees.
Orphaned(hs, f, at) ==
    {IF h.file = f /\ h.at = at THEN [h EXCEPT !.at = "orphan"] ELSE h : h \in hs}

NANDCreate(f) ==
    /\ Guest /\ main[f] = None
    /\ main' = [main EXCEPT ![f] = Wreck]
    /\ UNCHANGED <<behind, scratch, handles, nextFd, infos, job, historyVars>>

\* NANDDelete; NANDMove is a delete here and a creation under another path.
NANDDelete(f) ==
    /\ Guest /\ main[f] # None
    /\ main' = [main EXCEPT ![f] = None]
    /\ handles' = Orphaned(handles, f, "main")
    /\ Unguard(f)
    /\ UNCHANGED <<scratch, nextFd, infos, job, dropped>>

-----------------------------------------------------------------------------
(* Closing: CommitAndCloseFd.                                              *)

SetClosed(i) == infos' = [infos EXCEPT ![i].flag = "closed"]

\* NANDClose of an open info, NANDSafeClose of a safe one (or of an open one, which
\* it forwards): the handle leaves the table before anything else happens.  Its
\* number is never given out again; 0 stands for it from here on.
CloseBegins(i) ==
    /\ Guest /\ infos[i].flag \in {"open", "safe"}
    /\ \E h \in HandleOf(infos[i].fd) :
          /\ handles' = handles \ {h}
          /\ job' = [step |-> "flush", info |-> i, file |-> h.file, commit |-> h.commit,
                     writable |-> h.writable, at |-> h.at, expect |-> h.expect]
    /\ infos' = [infos EXCEPT ![i].fd = 0]
    /\ UNCHANGED <<diskVars, nextFd, historyVars>>

\* Mutant: a missing handle is never an error.
AlwaysAccepts(i) == SetClosed(i)

\* missingFdIsError: only the safe close refuses an info whose handle is gone.
MissingFd(i) == IF infos[i].flag = "safe" THEN UNCHANGED infos ELSE SetClosed(i)

\* The close is called again after it has failed once.
CloseAgain(i) ==
    /\ Guest /\ infos[i].flag \in {"open", "safe"} /\ HandleOf(infos[i].fd) = {}
    /\ MissingFd(i)
    /\ UNCHANGED <<diskVars, handles, nextFd, job, historyVars>>

\* IOS_Close: neither a flush nor a commit.
IosClose(i) ==
    /\ Guest /\ infos[i].flag = "ios"
    /\ handles' = handles \ HandleOf(infos[i].fd)
    /\ infos' = [infos EXCEPT ![i] = [fd |-> 0, flag |-> "closed"]]
    /\ UNCHANGED <<diskVars, nextFd, job, historyVars>>

\* A failed commit removes the scratch file, unless that fails as well, and leaves
\* the guest's flag alone.
CloseFails ==
    /\ \E left \in {None, scratch[job.file]} :
          scratch' = IF job.commit THEN [scratch EXCEPT ![job.file] = left] ELSE scratch
    /\ dropped' = IF job.writable THEN dropped \cup {<<job.info, infos[job.info].flag>>} ELSE dropped
    /\ job' = NoJob
    /\ UNCHANGED <<main, behind, handles, nextFd, infos, saved, closing, guarded>>

Synced(e) == [e EXCEPT !.disk = e.img]

\* Mutant: the scratch file is renamed before it is flushed.
NoFlush ==
    /\ job.step = "flush"
    /\ job' = [job EXCEPT !.step = IF job.commit THEN "rename" ELSE "done"]
    /\ UNCHANGED <<diskVars, handles, nextFd, infos, historyVars>>

\* FlushFileToDisk, for writable handles.
Flush ==
    /\ job.step = "flush"
    /\ main' = IF job.writable /\ job.at = "main" THEN [main EXCEPT ![job.file] = Synced(@)]
                                                  ELSE main
    /\ scratch' = IF job.at = "scratch" THEN [scratch EXCEPT ![job.file] = Synced(@)] ELSE scratch
    /\ job' = [job EXCEPT !.step = IF job.commit THEN "rename" ELSE "done"]
    /\ UNCHANGED <<behind, handles, nextFd, infos, historyVars>>

FlushFails == job.step = "flush" /\ job.writable /\ CloseFails

\* AtomicReplaceHostFile: the scratch name replaces the file's.
Rename ==
    /\ job.step = "rename" /\ scratch[job.file] # None
    /\ main' = [main EXCEPT ![job.file] = scratch[job.file]]
    /\ scratch' = [scratch EXCEPT ![job.file] = None]
    /\ IF job.file \in guarded
       THEN /\ behind' = [behind EXCEPT ![job.file] = @ \cup {main[job.file]}]
            /\ closing' = [closing EXCEPT ![job.file] = @ \cup {job.expect}]
       ELSE UNCHANGED <<behind, closing>>
    /\ handles' = Orphaned(handles, job.file, "main")
    /\ job' = [job EXCEPT !.step = "sync"]
    /\ UNCHANGED <<nextFd, infos, saved, guarded, dropped>>

RenameFails == job.step = "rename" /\ CloseFails

\* The directory is synced and the guest's close returns NAND_RESULT_OK.
SyncDirectory ==
    /\ job.step = "sync"
    /\ behind' = [behind EXCEPT ![job.file] = {}]
    /\ SetClosed(job.info)
    /\ saved' = [saved EXCEPT ![job.file] = job.expect]
    /\ closing' = [closing EXCEPT ![job.file] = {}]
    /\ guarded' = guarded \cup {job.file}
    /\ job' = NoJob
    /\ UNCHANGED <<main, scratch, handles, nextFd, dropped>>

\* A handle without a commit target is closed once it is flushed.
PlainCloseEnds ==
    /\ job.step = "done"
    /\ SetClosed(job.info)
    /\ job' = NoJob
    /\ UNCHANGED <<diskVars, handles, nextFd, historyVars>>

-----------------------------------------------------------------------------
(* Crashes.                                                                *)

\* Handles, infos and a close under way are gone; the next session starts anew.
Dies ==
    /\ handles' = {} /\ job' = NoJob
    /\ infos' = [i \in Infos |-> [fd |-> 0, flag |-> "closed"]]
    /\ dropped' = {}
    /\ UNCHANGED <<nextFd, saved, closing, guarded>>

\* The process dies; the host keeps what it has cached.  During an open it may
\* leave a scratch file that is half copied.
ProcessDies ==
    /\ Dies
    /\ \/ UNCHANGED scratch
       \/ /\ job = NoJob
          /\ \E f \in Files :
                /\ main[f] # None /\ ~IsHostPathOpen(f)
                /\ scratch' = [scratch EXCEPT ![f] = Wreck]
    /\ UNCHANGED <<main, behind>>

\* Each block of a file is as it was cached or as it was on disk.
Torn(e) ==
    IF e = None THEN {None}
    ELSE {[img |-> m, disk |-> m] :
            m \in {m \in Image : \A b \in Blocks : m[b] \in {e.img[b], e.disk[b]}}}

\* The power fails: directory changes that were not synced may be undone, data
\* that were not synced may be missing.  Anything may be left of the other paths,
\* and of scratch files.
PowerFails ==
    /\ Dies
    /\ \E m \in [Files -> {None, Wreck} \cup
                          UNION {Torn(e) : e \in UNION {{main[f]} \cup behind[f] : f \in Files}}] :
          /\ \A f \in guarded : m[f] \in UNION {Torn(e) : e \in {main[f]} \cup behind[f]}
          /\ \A f \in Files \ guarded : m[f] \in {None, Wreck}
          /\ main' = m
    /\ behind' = [f \in Files |-> {}]
    /\ \E keep \in SUBSET {f \in Files : scratch[f] # None} :
          scratch' = [f \in Files |-> IF f \in keep THEN Wreck ELSE None]

-----------------------------------------------------------------------------
OpenStep ==
    \E i \in Infos, f \in Files :
       \/ \E flag \in {"open", "safe", "ios"} : OpenRead(i, f, flag)
       \/ \E flag \in {"open", "safe"} : OpenShadow(i, f, flag)
       \/ OpenInPlace(i, f)
       \/ SafeOpenFails(i, f)
       \/ OpenCreates(i, f)
       \/ IosOpenWrite(i, f)

Next ==
    \/ OpenStep
    \/ \E i \in Infos, b \in Blocks : WriteShadow(i, b)
    \/ \E i \in Infos, b \in Blocks : WriteInPlace(i, b)
    \/ \E f \in Files : NANDCreate(f)
    \/ \E f \in Files : NANDDelete(f)
    \/ \E i \in Infos : CloseBegins(i)
    \/ \E i \in Infos : CloseAgain(i)
    \/ \E i \in Infos : IosClose(i)
    \/ Flush
    \/ FlushFails
    \/ Rename
    \/ RenameFails
    \/ SyncDirectory
    \/ PlainCloseEnds
    \/ ProcessDies
    \/ PowerFails

Spec == Init /\ [][Next]_vars

-----------------------------------------------------------------------------
TypeOK ==
    /\ main \in [Files -> Entry \cup {None}]
    /\ behind \in [Files -> SUBSET (Entry \cup {None})]
    /\ scratch \in [Files -> Entry \cup {None}]
    /\ handles \subseteq Handle
    /\ nextFd \in 1 .. MaxFd + 1
    /\ infos \in [Infos -> [fd : 0 .. MaxFd, flag : Flags]]
    /\ job \in Job \cup {NoJob}
    /\ saved \in [Files -> Image]
    /\ closing \in [Files -> SUBSET Image]
    /\ guarded \subseteq Files /\ dropped \subseteq Infos \X {"open", "safe"}

\* A path that is only written through scratch copies always holds one whole save,
\* across process deaths, power failures and failed host calls: the last one the
\* guest was told is safe, or the one whose close was under way.
OldOrNew ==
    \A f \in guarded :
       main[f] # None /\ main[f].img \in {saved[f]} \cup closing[f]

\* What the rename publishes is the file the guest opened with its own writes and
\* nobody else's: no stale scratch file, and no bytes lost between the writes.
PublishedOwnImage ==
    job.step = "sync" => main[job.file].img = job.expect

\* NANDSafeClose never answers OK for data that an earlier attempt threw away.
SafeCloseHonest ==
    \A d \in dropped : d[2] = "safe" => infos[d[1]].flag = "safe"

\* A close that failed is not reported as a success later, whichever open it ends.
CloseHonest ==
    \A d \in dropped : infos[d[1]].flag = d[2]
=============================================================================
