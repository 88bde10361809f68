----------------------------- MODULE ApplyPatch -----------------------------
(***************************************************************************)
(* The patching of files and flash partitions by an OTA package:           *)
(* bootable/recovery/applypatch (applypatch.c, freecache.c), called by the *)
(* apply_patch functions of the update binary.                             *)
(*                                                                         *)
(* A script checks some of the files, asks for space on /cache and patches *)
(* the files one after the other.  It may be cut off between any two steps *)
(* and is then run again from its beginning, as recovery does.             *)
(***************************************************************************)
EXTENDS Integers, FiniteSets

CONSTANTS
    N,            \* number of apply_patch calls in the script
    InPlace,      \* the calls whose target is "-", the source itself
    MtdSource,    \* the calls whose source is an MTD partition
    MtdTarget,    \* the calls whose target is an MTD partition
    Checked,      \* the calls preceded by apply_patch_check of their source
    Asked,        \* blocks the script asks for with apply_patch_space
    Size,         \* size of each source, in blocks
    Clutter,      \* files on /cache, of one block each
    Kept,         \* those of them that are open (the package) or in a subdirectory
    CacheBlocks,  \* size of /cache
    MaxCrashes, MaxFaults

Jobs == 1..N

ASSUME ApplyPatchAssumption ==
    /\ N \in Nat \ {0}
    /\ InPlace \subseteq Jobs /\ MtdSource \subseteq Jobs /\ MtdTarget \subseteq Jobs
    /\ Checked \subseteq InPlace
    /\ InPlace \cap MtdSource = InPlace \cap MtdTarget
    /\ Size \in [Jobs -> Nat]
    /\ Asked \in Nat
    /\ Kept \subseteq Clutter
    /\ CacheBlocks \in Nat
    /\ MaxCrashes \in Nat
    /\ MaxFaults \in Nat

VARIABLES
    pc,        \* where the update binary is
    job,       \* the apply_patch call it is executing
    retry, fromCopy, madeCopy, output,  \* locals of applypatch()
    source,    \* what the source of each call holds
    target,    \* what its target holds, when that is another file
    saved,     \* CACHE_TEMP_SOURCE: whose source, is it whole, how large
    cache,     \* the other files on /cache
    gaveUp,    \* history: the calls whose flashing ever gave a block up
    crashes, faults

locals == <<retry, fromCopy, madeCopy, output>>
files == <<source, target>>
storage == <<saved, cache, gaveUp>>
vars == <<pc, job, locals, files, storage, crashes, faults>>

\* No calls share a file, so a content is "source" or "target" for one call only.
Contents == {"absent", "junk", "source", "target"}

NoCopy == [job |-> 0, whole |-> FALSE, size |-> 0]

Init ==
    /\ pc = "off" /\ job = 1
    /\ retry = 1 /\ fromCopy = FALSE /\ madeCopy = FALSE /\ output = "absent"
    /\ source = [i \in Jobs |-> "source"]
    /\ target \in [Jobs -> {"absent", "junk"}]
    /\ saved = NoCopy
    /\ cache = Clutter
    /\ gaveUp = {}
    /\ crashes = 0 /\ faults = 0

Fault == faults < MaxFaults /\ faults' = faults + 1 /\ UNCHANGED crashes
NoFault == UNCHANGED faults /\ UNCHANGED crashes

-----------------------------------------------------------------------------
(* The files a call can load. *)

\* LoadFileContents() of the target, and its SHA-1.
HasTarget(i) == IF i \in InPlace THEN source[i] = "target" ELSE target[i] = "target"

\* LoadFileContents() of the source, and FindMatchingPatch().
HasSource(i) == source[i] = "source"

\* The same of CACHE_TEMP_SOURCE.
HasCopy(i) == saved.whole /\ saved.job = i

\* applypatch_check() accepts the source and the target.  The name of a partition
\* lists their SHA-1s: the call passes none, and so none that the copy could match.
CheckPasses(i) ==
    source[i] \in {"source", "target"} \/ (i \notin MtdSource /\ HasCopy(i))

-----------------------------------------------------------------------------
(* freecache.c *)

FreeSpace == CacheBlocks - Cardinality(cache) - saved.size

\* FindExpendableFiles(): never CACHE_TEMP_SOURCE, nor open files.
Expendable == cache \ Kept

\* MakeFreeSpaceOnCache(): expendable files go, in directory order, until there is room.
MakeFreeSpaceOnCache(bytes, yes, no) ==
    \/ FreeSpace >= bytes /\ pc' = yes /\ UNCHANGED cache
    \/ /\ FreeSpace < bytes
       /\ \E D \in SUBSET Expendable :
            /\ \/ FreeSpace + Cardinality(D) = bytes /\ pc' = yes
               \/ FreeSpace + Cardinality(D) < bytes /\ D = Expendable /\ pc' = no
            /\ cache' = cache \ D

-----------------------------------------------------------------------------
(* The script: apply_patch_check, apply_patch_space, apply_patch. *)

\* Recovery runs the package, again if it was cut off; the user runs it again if it
\* failed, or once more.
Start ==
    /\ pc \in {"off", "failed", "done"}
    /\ pc' = "check" /\ job' = 1
    /\ retry' = 1 /\ fromCopy' = FALSE /\ madeCopy' = FALSE /\ output' = "absent"
    /\ UNCHANGED <<files, storage, crashes, faults>>

Check ==
    /\ pc = "check"
    /\ pc' = IF \A i \in Checked : CheckPasses(i) THEN "space" ELSE "failed"
    /\ UNCHANGED <<job, locals, files, storage, crashes, faults>>

SpaceCheck ==
    /\ pc = "space"
    /\ MakeFreeSpaceOnCache(Asked, "load", "failed")
    /\ UNCHANGED <<job, locals, files, saved, gaveUp, crashes, faults>>

\* Mutant: one call too many.
Return_Overruns ==
    /\ IF job <= N THEN pc' = "load" /\ job' = job + 1 ELSE pc' = "done" /\ job' = job
    /\ retry' = 1 /\ fromCopy' = FALSE /\ madeCopy' = FALSE /\ output' = "absent"

\* return 0: on to the next call.
Return ==
    /\ IF job < N THEN pc' = "load" /\ job' = job + 1 ELSE pc' = "done" /\ job' = job
    /\ retry' = 1 /\ fromCopy' = FALSE /\ madeCopy' = FALSE /\ output' = "absent"

\* The power goes.
Crash ==
    /\ pc # "off"
    /\ crashes < MaxCrashes /\ crashes' = crashes + 1
    /\ pc' = "off"
    /\ UNCHANGED <<job, locals, files, storage, faults>>

-----------------------------------------------------------------------------
(* applypatch() *)

\* Mutant: a target that is in place is patched again.
Load_NoEarlyExit ==
    /\ pc = "load"
    /\ \/ HasSource(job) /\ pc' = "room" /\ UNCHANGED fromCopy
       \/ ~HasSource(job) /\ HasCopy(job) /\ pc' = "room" /\ fromCopy' = TRUE
       \/ ~HasSource(job) /\ ~HasCopy(job) /\ pc' = "failed" /\ UNCHANGED fromCopy
    /\ UNCHANGED <<job, retry, madeCopy, output>>
    /\ UNCHANGED <<files, storage, crashes, faults>>

\* Nothing to do, or the source, or else its copy, can be patched, or the call fails.
Load ==
    /\ pc = "load"
    /\ \/ HasTarget(job) /\ Return
       \/ /\ ~HasTarget(job)
          /\ \/ HasSource(job) /\ pc' = "room" /\ UNCHANGED fromCopy
             \/ ~HasSource(job) /\ HasCopy(job) /\ pc' = "room" /\ fromCopy' = TRUE
             \/ ~HasSource(job) /\ ~HasCopy(job) /\ pc' = "failed" /\ UNCHANGED fromCopy
          /\ UNCHANGED <<job, retry, madeCopy, output>>
    /\ UNCHANGED <<files, storage, crashes, faults>>

\* A partition: its source is backed up on /cache whatever it was loaded from.
RoomForMtd ==
    /\ pc = "room" /\ job \in MtdTarget
    /\ retry' = 0
    /\ MakeFreeSpaceOnCache(Size[job], "save", "failed")
    /\ UNCHANGED <<job, fromCopy, madeCopy, output, files, saved, gaveUp, crashes, faults>>

\* A file, and the file system of the target has room (in the first try).
RoomForFile ==
    /\ pc = "room" /\ job \notin MtdTarget
    /\ retry > 0
    /\ pc' = "patch"
    /\ UNCHANGED <<job, locals, files, storage, crashes, faults>>

\* It has not: the source is moved to /cache, unless the copy there is being used.
NoRoomForFile ==
    /\ pc = "room" /\ job \notin MtdTarget
    /\ retry' = 0
    /\ \/ fromCopy /\ pc' = "patch" /\ UNCHANGED cache
       \/ ~fromCopy /\ job \in MtdSource /\ pc' = "failed" /\ UNCHANGED cache
       \/ /\ ~fromCopy /\ job \notin MtdSource
          /\ MakeFreeSpaceOnCache(Size[job], "save", "failed")
    /\ UNCHANGED <<job, fromCopy, madeCopy, output, files, saved, gaveUp, crashes, faults>>

\* SaveFileContents(): CACHE_TEMP_SOURCE is truncated and written.
SaveBegin ==
    /\ pc = "save" /\ ~fromCopy
    /\ pc' = "saving"
    /\ \E written \in 0..Size[job] :
         saved' = [job |-> job, whole |-> FALSE, size |-> written]
    /\ UNCHANGED <<job, locals, files, cache, gaveUp, crashes, faults>>

\* There is no source in memory, only the copy: truncated, and the write fails.
SaveNothing ==
    /\ pc = "save" /\ fromCopy
    /\ pc' = "failed"
    /\ saved' = [job |-> job, whole |-> FALSE, size |-> 0]
    /\ UNCHANGED <<job, locals, files, cache, gaveUp, crashes, faults>>

\* Mutant: the source is unlinked without a look at the result of the backup.
SaveEnd_Unchecked ==
    /\ pc = "saving"
    /\ pc' = IF job \in MtdTarget THEN "patch" ELSE "unlink"
    /\ \/ saved' = [job |-> job, whole |-> TRUE, size |-> Size[job]] /\ NoFault
       \/ saved' = saved /\ Fault
    /\ madeCopy' = TRUE
    /\ UNCHANGED <<job, retry, fromCopy, output, files, cache, gaveUp>>

SaveEnd ==
    /\ pc = "saving"
    /\ \/ /\ saved' = [job |-> job, whole |-> TRUE, size |-> Size[job]]
          /\ madeCopy' = TRUE
          /\ pc' = IF job \in MtdTarget THEN "patch" ELSE "unlink"
          /\ NoFault
       \/ saved' = saved /\ madeCopy' = madeCopy /\ pc' = "failed" /\ Fault
    /\ UNCHANGED <<job, retry, fromCopy, output, files, cache, gaveUp>>

Unlink ==
    /\ pc = "unlink"
    /\ pc' = "patch"
    /\ source' = [source EXCEPT ![job] = "absent"]
    /\ UNCHANGED <<job, locals, target, storage, crashes, faults>>

\* The output (a buffer, or the file "<target>.patch", overwritten by every try) is the
\* target, or, from a wrong patch, something else, or the disk is full.
Patch ==
    /\ pc = "patch"
    /\ \/ output' = "target" /\ pc' = "verify" /\ UNCHANGED retry /\ NoFault
       \/ output' = "junk" /\ pc' = "verify" /\ UNCHANGED retry /\ Fault
       \/ output' = "junk" /\ retry > 0 /\ pc' = "room" /\ retry' = 0 /\ Fault
       \/ output' = "junk" /\ pc' = "failed" /\ UNCHANGED retry /\ Fault
    /\ UNCHANGED <<job, fromCopy, madeCopy, files, storage>>

\* Mutant: the SHA-1 of the output is not compared.
Verify_Skipped ==
    /\ pc = "verify"
    /\ pc' = "commit"
    /\ UNCHANGED <<job, locals, files, storage, crashes, faults>>

Verify ==
    /\ pc = "verify"
    /\ pc' = IF output = "target" THEN "commit" ELSE "failed"
    /\ UNCHANGED <<job, locals, files, storage, crashes, faults>>

Put(content) ==
    IF job \in InPlace
      THEN source' = [source EXCEPT ![job] = content] /\ UNCHANGED target
      ELSE target' = [target EXCEPT ![job] = content] /\ UNCHANGED source

\* chmod, chown, and the rename that replaces the target at once.
Rename ==
    /\ pc = "commit" /\ job \notin MtdTarget
    /\ \/ Put(output) /\ pc' = "cleanup" /\ NoFault
       \/ UNCHANGED source /\ UNCHANGED target /\ pc' = "failed" /\ Fault
    /\ UNCHANGED <<job, locals, storage>>

\* WriteToMTDPartition(): block by block.
FlashBegin ==
    /\ pc = "commit" /\ job \in MtdTarget
    /\ Put("junk") /\ pc' = "flashing"
    /\ UNCHANGED <<job, locals, storage, crashes, faults>>

\* Mutant: the result of WriteToMTDPartition() is not looked at.
FlashEnd_Unchecked ==
    /\ pc = "flashing"
    /\ pc' = "cleanup"
    /\ \/ Put(output) /\ NoFault
       \/ UNCHANGED files /\ Fault
    /\ UNCHANGED <<job, locals, storage>>

\* It is written, or reported as not written, or write_block() gave a block up: that
\* block is left erased, the data goes to the next one and the result is 0, but
\* read_block() takes an erased block for data.
FlashEnd ==
    /\ pc = "flashing"
    /\ \/ Put(output) /\ pc' = "cleanup" /\ NoFault /\ UNCHANGED gaveUp
       \/ UNCHANGED files /\ pc' = "failed" /\ Fault /\ UNCHANGED gaveUp
       \/ UNCHANGED files /\ pc' = "cleanup" /\ Fault /\ gaveUp' = gaveUp \cup {job}
    /\ UNCHANGED <<job, locals, saved, cache>>

\* if (made_copy) unlink(CACHE_TEMP_SOURCE)
Cleanup ==
    /\ pc = "cleanup"
    /\ saved' = IF madeCopy THEN NoCopy ELSE saved
    /\ Return
    /\ UNCHANGED <<files, cache, gaveUp, crashes, faults>>

-----------------------------------------------------------------------------
(* The specification. *)

Step ==
    \/ Check \/ SpaceCheck \/ Load
    \/ RoomForMtd \/ RoomForFile \/ NoRoomForFile
    \/ SaveBegin \/ SaveNothing \/ SaveEnd \/ Unlink
    \/ Patch \/ Verify \/ Rename \/ FlashBegin \/ FlashEnd \/ Cleanup

Next == Start \/ Step \/ Crash

Spec == Init /\ [][Next]_vars

\* The processor runs, and a script that did not succeed is run again.
Fairness == WF_vars(Step) /\ WF_vars(Start /\ pc # "done")

FairSpec == Spec /\ Fairness

-----------------------------------------------------------------------------
(* Properties. *)

ProcessTypeOK ==
    /\ pc \in {"off", "check", "space", "load", "room", "save", "saving", "unlink",
               "patch", "verify", "commit", "flashing", "cleanup", "failed", "done"}
    /\ job \in Jobs
    /\ retry \in 0..1
    /\ fromCopy \in BOOLEAN /\ madeCopy \in BOOLEAN
    /\ output \in Contents

FilesTypeOK ==
    /\ source \in [Jobs -> Contents]
    /\ target \in [Jobs -> Contents]
    /\ saved \in [job : Nat, whole : BOOLEAN, size : Nat]
    /\ cache \subseteq Clutter
    /\ gaveUp \subseteq Jobs

\* The types of the locals of applypatch(), of the files and of /cache.
TypeOK ==
    /\ ProcessTypeOK /\ FilesTypeOK
    /\ crashes \in 0..MaxCrashes /\ faults \in 0..MaxFaults

\* What a later run of the call needs: the target, the source or the copy of it.
Available(i) == HasTarget(i) \/ HasSource(i) \/ HasCopy(i)

\* No call before this one ever gave up a block of its partition.
Undisturbed(i) == \A j \in gaveUp : i <= j

\* "Safe and idempotent", for all calls but those that patch a partition in place: cut
\* off or failing anywhere, in this call or in another that uses the same
\* CACHE_TEMP_SOURCE, the data to patch from is not lost.  The exception are the calls
\* after one that succeeded with a block given up: it is not seen to be done when the
\* script runs again, and saves its own source over theirs.
Recoverable ==
    \A i \in Jobs \ (InPlace \cap MtdTarget) : Undisturbed(i) => Available(i)

\* Success of the script means that every target holds the data with the right SHA-1,
\* but for a partition in which a block was given up: applypatch() does not read the
\* partition again.
SuccessIsReal == pc = "done" => \A i \in Jobs : HasTarget(i) \/ i \in gaveUp

\* A step keeps the targets in place, and puts nothing but target data, or (for lack
\* of room) nothing, in the place of a file.
Improves ==
    \A i \in Jobs :
        /\ HasTarget(i) => HasTarget(i)'
        /\ i \notin MtdTarget =>
             /\ target'[i] # target[i] => target'[i] = "target"
             /\ source'[i] # source[i] => source'[i] \in {"absent", "target"}

\* No run of the script, from any state an earlier one was cut off in, damages a target
\* that is in place, nor replaces a file by anything that was not verified.
OnlyImproves == [][Improves]_vars

\* With room on /cache, the script succeeds in the end, after any number of power
\* losses and errors, unless a block is given up.
Completes == <>(pc = "done" \/ gaveUp # {})

\* "We still write the original source to cache, in case the MTD write is interrupted":
\* the data to patch from is not lost, whatever the call.
MtdRecoverable == \A i \in Jobs : Available(i)
=============================================================================
