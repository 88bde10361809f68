-------------------------- MODULE ApplyPatchProofs --------------------------
(***************************************************************************)
(* For every script, every size of /cache and any number of power losses   *)
(* and errors: the data to patch from is not lost, success is real, and a  *)
(* target that is in place stays so; what a block that was given up takes  *)
(* away from the first two is an exception they name.                      *)
(***************************************************************************)
EXTENDS ApplyPatch, TLAPS

-----------------------------------------------------------------------------
(* The inductive invariant. *)

\* Inside applypatch(), once it has found something to do.
Patching == {"room", "save", "saving", "unlink", "patch", "verify", "commit", "flashing"}

\* Only the copy on /cache can bring this target about.
Needs(i) == i \notin InPlace \cap MtdTarget /\ ~HasTarget(i) /\ ~HasSource(i)

\* The call has returned 0 once, rightly or not.
Reached(i) == HasTarget(i) \/ i \in gaveUp

\* The calls before the current one have succeeded.
Passed ==
    /\ pc \in {"check", "space"} => job = 1
    /\ pc \in Patching \cup {"load", "cleanup"} => \A j \in Jobs : j < job => Reached(j)
    /\ pc = "done" => \A j \in Jobs : Reached(j)
    /\ pc = "cleanup" => Reached(job)
    /\ pc \in Patching => ~HasTarget(job)

\* A source is moved to /cache only when all calls before it have succeeded, so there
\* is never a second one that needs the copy, unless one of them gave a block up.
InOrder ==
    /\ \A i \in Jobs : Needs(i) => \A j \in Jobs : j < i => Reached(j)
    /\ pc = "cleanup" => \A i \in Jobs : job < i /\ Undisturbed(i) => ~Needs(i)

\* What applypatch() knows at its steps.
Knows ==
    /\ pc \in {"check", "space", "load"} => ~fromCopy
    /\ pc \in {"save", "saving", "unlink"} => retry = 0
    /\ pc \in {"room", "save", "saving", "unlink"} \/ (pc = "patch" /\ retry > 0)
         => (HasSource(job) <=> ~fromCopy)
    /\ pc \in {"save", "saving"} /\ fromCopy => job \in MtdTarget
    /\ pc \in {"saving", "unlink"} => ~fromCopy
    /\ pc = "unlink" => HasCopy(job) /\ job \notin MtdTarget
    /\ pc \in {"commit", "flashing"} => output = "target"
    /\ pc = "flashing" => job \in MtdTarget
    /\ gaveUp \subseteq MtdTarget

\* Nothing happens to the source of a partition that is patched from somewhere else.
Untouched == \A i \in MtdTarget \ InPlace : HasSource(i)

IInv == TypeOK /\ Passed /\ InOrder /\ Knows /\ Untouched /\ Recoverable

-----------------------------------------------------------------------------
(* Type correctness. *)

\* The locals of a call that starts.
LEMMA ReturnType == ASSUME TypeOK, Return PROVE ProcessTypeOK'
<1>1. fromCopy' \in BOOLEAN /\ madeCopy' \in BOOLEAN
  BY Zenon DEF Return
<1>2. pc' \in {"load", "done"} /\ job' \in Jobs
  BY ApplyPatchAssumption DEF Return, TypeOK, ProcessTypeOK, Jobs
<1>3. retry' \in 0..1 /\ output' \in Contents
  BY DEF Return, Contents
<1> QED
  BY <1>1, <1>2, <1>3 DEF ProcessTypeOK

\* The locals when the script starts.
LEMMA StartType == ASSUME TypeOK, Start PROVE ProcessTypeOK'
<1>1. fromCopy' \in BOOLEAN /\ madeCopy' \in BOOLEAN
  BY Zenon DEF Start
<1>2. pc' = "check" /\ job' \in Jobs
  BY ApplyPatchAssumption DEF Start, Jobs
<1>3. retry' \in 0..1 /\ output' \in Contents
  BY DEF Start, Contents
<1> QED
  BY <1>1, <1>2, <1>3 DEF ProcessTypeOK

\* The locals after the files were loaded.
LEMMA LoadType == ASSUME TypeOK, Load PROVE ProcessTypeOK'
<1>1. CASE HasTarget(job)
  BY <1>1, ReturnType DEF Load
<1>2. CASE ~HasTarget(job)
  <2>1. fromCopy' \in BOOLEAN /\ madeCopy' \in BOOLEAN
    BY <1>2, Zenon DEF Load, TypeOK, ProcessTypeOK
  <2>2. pc' \in {"room", "failed"} /\ UNCHANGED job /\ UNCHANGED retry /\ UNCHANGED output
    BY <1>2 DEF Load
  <2> QED
    BY <2>1, <2>2 DEF TypeOK, ProcessTypeOK
<1> QED
  BY <1>1, <1>2

\* The copy on /cache after SaveFileContents().
LEMMA SaveEndType == ASSUME TypeOK, SaveEnd PROVE FilesTypeOK'
<1>1. [job |-> job, whole |-> TRUE, size |-> Size[job]] \in [job : Nat, whole : BOOLEAN, size : Nat]
  BY ApplyPatchAssumption DEF TypeOK, ProcessTypeOK, Jobs
<1>2. saved' \in [job : Nat, whole : BOOLEAN, size : Nat]
  BY <1>1, Zenon DEF SaveEnd, TypeOK, FilesTypeOK
<1>3. UNCHANGED source /\ UNCHANGED target /\ UNCHANGED cache /\ UNCHANGED gaveUp
  BY DEF SaveEnd, files
<1> QED
  BY <1>2, <1>3 DEF TypeOK, FilesTypeOK

\* The files after WriteToMTDPartition().
LEMMA FlashEndType == ASSUME TypeOK, FlashEnd PROVE FilesTypeOK'
<1>1. source' \in [Jobs -> Contents] /\ target' \in [Jobs -> Contents]
  BY Zenon DEF FlashEnd, Put, TypeOK, ProcessTypeOK, FilesTypeOK, files
<1>2. gaveUp' \subseteq Jobs
  BY DEF FlashEnd, TypeOK, ProcessTypeOK, FilesTypeOK
<1>3. UNCHANGED saved /\ UNCHANGED cache
  BY DEF FlashEnd
<1> QED
  BY <1>1, <1>2, <1>3 DEF TypeOK, FilesTypeOK

\* Every step keeps the types.
LEMMA TypeStep == TypeOK /\ [Next]_vars => TypeOK'
<1> SUFFICES ASSUME TypeOK, [Next]_vars PROVE TypeOK'
  OBVIOUS
<1> USE ApplyPatchAssumption DEF TypeOK, ProcessTypeOK, FilesTypeOK, Jobs, Contents, locals,
        files, storage
<1>1. CASE Start
  <2>1. ProcessTypeOK'
    BY <1>1, StartType
  <2>2. FilesTypeOK'
    BY <1>1 DEF Start
  <2>3. crashes' \in 0..MaxCrashes /\ faults' \in 0..MaxFaults
    BY <1>1 DEF Start
  <2> QED
    BY <2>1, <2>2, <2>3, SMTT(30)
<1>2. CASE Check
  BY <1>2 DEF Check
<1>3. CASE SpaceCheck
  <2>1. ProcessTypeOK'
    BY <1>3 DEF SpaceCheck, MakeFreeSpaceOnCache, Expendable
  <2>2. FilesTypeOK'
    BY <1>3 DEF SpaceCheck, MakeFreeSpaceOnCache, Expendable
  <2>3. crashes' \in 0..MaxCrashes /\ faults' \in 0..MaxFaults
    BY <1>3 DEF SpaceCheck, MakeFreeSpaceOnCache, Expendable
  <2> QED
    BY <2>1, <2>2, <2>3
<1>4. CASE Load
  <2>1. ProcessTypeOK'
    BY <1>4, LoadType
  <2>2. FilesTypeOK'
    BY <1>4 DEF Load, Return
  <2>3. crashes' \in 0..MaxCrashes /\ faults' \in 0..MaxFaults
    BY <1>4 DEF Load, Return
  <2> QED
    BY <2>1, <2>2, <2>3
<1>5. CASE RoomForMtd
  <2>1. ProcessTypeOK'
    BY <1>5 DEF RoomForMtd, MakeFreeSpaceOnCache, Expendable
  <2>2. FilesTypeOK'
    BY <1>5 DEF RoomForMtd, MakeFreeSpaceOnCache, Expendable
  <2>3. crashes' \in 0..MaxCrashes /\ faults' \in 0..MaxFaults
    BY <1>5 DEF RoomForMtd, MakeFreeSpaceOnCache, Expendable
  <2> QED
    BY <2>1, <2>2, <2>3
<1>6. CASE RoomForFile
  BY <1>6 DEF RoomForFile
<1>7. CASE NoRoomForFile
  <2>1. ProcessTypeOK'
    BY <1>7 DEF NoRoomForFile, MakeFreeSpaceOnCache, Expendable
  <2>2. FilesTypeOK'
    BY <1>7 DEF NoRoomForFile, MakeFreeSpaceOnCache, Expendable
  <2>3. crashes' \in 0..MaxCrashes /\ faults' \in 0..MaxFaults
    BY <1>7 DEF NoRoomForFile, MakeFreeSpaceOnCache, Expendable
  <2> QED
    BY <2>1, <2>2, <2>3
<1>8. CASE SaveBegin
  <2>1. ProcessTypeOK'
    BY <1>8 DEF SaveBegin
  <2>2. FilesTypeOK'
    BY <1>8 DEF SaveBegin
  <2>3. crashes' \in 0..MaxCrashes /\ faults' \in 0..MaxFaults
    BY <1>8 DEF SaveBegin
  <2> QED
    BY <2>1, <2>2, <2>3
<1>9. CASE SaveNothing
  BY <1>9 DEF SaveNothing
<1>10. CASE SaveEnd
  <2>1. ProcessTypeOK'
    BY <1>10, Zenon DEF SaveEnd, Fault, NoFault
  <2>2. FilesTypeOK'
    BY <1>10, SaveEndType
  <2>3. crashes' \in 0..MaxCrashes /\ faults' \in 0..MaxFaults
    BY <1>10, SMTT(30) DEF SaveEnd, Fault, NoFault
  <2> QED
    BY <2>1, <2>2, <2>3
<1>11. CASE Unlink
  <2>1. ProcessTypeOK'
    BY <1>11 DEF Unlink
  <2>2. FilesTypeOK'
    BY <1>11 DEF Unlink
  <2>3. crashes' \in 0..MaxCrashes /\ faults' \in 0..MaxFaults
    BY <1>11 DEF Unlink
  <2> QED
    BY <2>1, <2>2, <2>3
<1>12. CASE Patch
  <2>1. ProcessTypeOK'
    BY <1>12 DEF Patch, Fault, NoFault
  <2>2. FilesTypeOK'
    BY <1>12 DEF Patch, Fault, NoFault
  <2>3. crashes' \in 0..MaxCrashes /\ faults' \in 0..MaxFaults
    BY <1>12, SMTT(30) DEF Patch, Fault, NoFault
  <2> QED
    BY <2>1, <2>2, <2>3
<1>13. CASE Verify
  BY <1>13 DEF Verify
<1>14. CASE Rename
  <2>1. ProcessTypeOK'
    BY <1>14 DEF Rename, Put, Fault, NoFault
  <2>2. FilesTypeOK'
    BY <1>14, Zenon DEF Rename, Put, Fault, NoFault
  <2>3. crashes' \in 0..MaxCrashes /\ faults' \in 0..MaxFaults
    BY <1>14, SMTT(30) DEF Rename, Put, Fault, NoFault
  <2> QED
    BY <2>1, <2>2, <2>3
<1>15. CASE FlashBegin
  <2>1. ProcessTypeOK'
    BY <1>15 DEF FlashBegin, Put
  <2>2. FilesTypeOK'
    BY <1>15, SMTT(30) DEF FlashBegin, Put
  <2>3. crashes' \in 0..MaxCrashes /\ faults' \in 0..MaxFaults
    BY <1>15 DEF FlashBegin, Put
  <2> QED
    BY <2>1, <2>2, <2>3
<1>16. CASE FlashEnd
  <2>1. ProcessTypeOK'
    BY <1>16 DEF FlashEnd, Put, Fault, NoFault
  <2>2. FilesTypeOK'
    BY <1>16, FlashEndType
  <2>3. crashes' \in 0..MaxCrashes /\ faults' \in 0..MaxFaults
    BY <1>16, SMTT(30) DEF FlashEnd, Put, Fault, NoFault
  <2> QED
    BY <2>1, <2>2, <2>3
<1>17. CASE Cleanup
  <2>1. ProcessTypeOK'
    BY <1>17, ReturnType DEF Cleanup
  <2>2. FilesTypeOK'
    BY <1>17 DEF Cleanup, Return, NoCopy
  <2>3. crashes' \in 0..MaxCrashes /\ faults' \in 0..MaxFaults
    BY <1>17 DEF Cleanup, Return, NoCopy
  <2> QED
    BY <2>1, <2>2, <2>3
<1>18. CASE Crash
  BY <1>18 DEF Crash
<1>19. CASE UNCHANGED vars
  BY <1>19 DEF vars
<1> QED
  BY <1>1, <1>2, <1>3, <1>4, <1>5, <1>6, <1>7, <1>8, <1>9, <1>10, <1>11, <1>12, <1>13,
        <1>14, <1>15, <1>16, <1>17, <1>18, <1>19, Zenon DEF Next, Step

\* The sources of partitions are only written in place.
LEMMA UntouchedStep == IInv /\ [Next]_vars => Untouched'
<1> SUFFICES ASSUME IInv, [Next]_vars PROVE Untouched'
  OBVIOUS
<1> USE ApplyPatchAssumption DEF IInv, TypeOK, ProcessTypeOK, FilesTypeOK, Jobs, locals,
        files, storage, Untouched, Knows, HasTarget, HasSource
<1>1. CASE Start
  BY <1>1 DEF Start
<1>2. CASE Check
  BY <1>2 DEF Check
<1>3. CASE SpaceCheck
  BY <1>3 DEF SpaceCheck, MakeFreeSpaceOnCache, Expendable
<1>4. CASE Load
  BY <1>4 DEF Load, Return
<1>5. CASE RoomForMtd
  BY <1>5 DEF RoomForMtd, MakeFreeSpaceOnCache, Expendable
<1>6. CASE RoomForFile
  BY <1>6 DEF RoomForFile
<1>7. CASE NoRoomForFile
  BY <1>7 DEF NoRoomForFile, MakeFreeSpaceOnCache, Expendable
<1>8. CASE SaveBegin
  BY <1>8 DEF SaveBegin
<1>9. CASE SaveNothing
  BY <1>9 DEF SaveNothing
<1>10. CASE SaveEnd
  BY <1>10 DEF SaveEnd, Fault, NoFault
<1>11. CASE Unlink
  BY <1>11 DEF Unlink
<1>12. CASE Patch
  BY <1>12 DEF Patch, Fault, NoFault
<1>13. CASE Verify
  BY <1>13 DEF Verify
<1>14. CASE Rename
  BY <1>14 DEF Rename, Put, Fault, NoFault
<1>15. CASE FlashBegin
  BY <1>15 DEF FlashBegin, Put
<1>16. CASE FlashEnd
  BY <1>16, SMTT(30) DEF FlashEnd, Put, Fault, NoFault
<1>17. CASE Cleanup
  BY <1>17 DEF Cleanup, Return, NoCopy
<1>18. CASE Crash
  BY <1>18 DEF Crash
<1>19. CASE UNCHANGED vars
  BY <1>19 DEF vars
<1> QED
  BY <1>1, <1>2, <1>3, <1>4, <1>5, <1>6, <1>7, <1>8, <1>9, <1>10, <1>11, <1>12, <1>13,
        <1>14, <1>15, <1>16, <1>17, <1>18, <1>19 DEF Next, Step

\* What applypatch() found when it loaded the files stays true.
LEMMA KnowsStep == IInv /\ [Next]_vars => Knows'
<1> SUFFICES ASSUME IInv, [Next]_vars PROVE Knows'
  OBVIOUS
<1> USE ApplyPatchAssumption DEF IInv, TypeOK, ProcessTypeOK, FilesTypeOK, Jobs, locals,
        files, storage, Knows, Passed, HasTarget, HasSource, HasCopy
<1>1. CASE Start
  BY <1>1 DEF Start
<1>2. CASE Check
  BY <1>2 DEF Check
<1>3. CASE SpaceCheck
  BY <1>3 DEF SpaceCheck, MakeFreeSpaceOnCache, Expendable
<1>4. CASE Load
  BY <1>4, SMTT(30) DEF Load, Return
<1>5. CASE RoomForMtd
  BY <1>5 DEF RoomForMtd, MakeFreeSpaceOnCache, Expendable
<1>6. CASE RoomForFile
  BY <1>6 DEF RoomForFile
<1>7. CASE NoRoomForFile
  BY <1>7 DEF NoRoomForFile, MakeFreeSpaceOnCache, Expendable
<1>8. CASE SaveBegin
  BY <1>8 DEF SaveBegin
<1>9. CASE SaveNothing
  BY <1>9 DEF SaveNothing
<1>10. CASE SaveEnd
  BY <1>10, SMTT(30) DEF SaveEnd, Fault, NoFault
<1>11. CASE Unlink
  BY <1>11 DEF Unlink
<1>12. CASE Patch
  BY <1>12, SMTT(30) DEF Patch, Fault, NoFault
<1>13. CASE Verify
  BY <1>13 DEF Verify
<1>14. CASE Rename
  BY <1>14 DEF Rename, Put, Fault, NoFault
<1>15. CASE FlashBegin
  BY <1>15 DEF FlashBegin, Put
<1>16. CASE FlashEnd
  BY <1>16, Zenon DEF FlashEnd, Put, Fault, NoFault
<1>17. CASE Cleanup
  BY <1>17 DEF Cleanup, Return, NoCopy
<1>18. CASE Crash
  BY <1>18 DEF Crash
<1>19. CASE UNCHANGED vars
  BY <1>19 DEF vars
<1> QED
  BY <1>1, <1>2, <1>3, <1>4, <1>5, <1>6, <1>7, <1>8, <1>9, <1>10, <1>11, <1>12, <1>13,
        <1>14, <1>15, <1>16, <1>17, <1>18, <1>19, Zenon DEF Next, Step

\* A call that returns 0 with its target in place leaves the script where it should be.
LEMMA ReturnPassed ==
    ASSUME TypeOK, Return, UNCHANGED <<files, gaveUp>>, \A j \in Jobs : j <= job => Reached(j)
    PROVE  Passed'
<1>1. \A j \in Jobs : Reached(j)' <=> Reached(j)
  BY DEF Reached, HasTarget, files
<1>2. job \in Jobs /\ N \in Nat
  BY ApplyPatchAssumption DEF TypeOK, ProcessTypeOK
<1>3. CASE job < N
  <2>1. pc' = "load" /\ job' = job + 1
    BY <1>3 DEF Return
  <2>2. \A j \in Jobs : j < job' => Reached(j)'
    BY <1>1, <1>2, <2>1 DEF Jobs
  <2> QED
    BY <2>1, <2>2 DEF Passed, Patching
<1>4. CASE ~(job < N)
  <2>1. pc' = "done"
    BY <1>4 DEF Return
  <2>2. \A j \in Jobs : Reached(j)'
    BY <1>1, <1>2, <1>4 DEF Jobs
  <2> QED
    BY <2>1, <2>2 DEF Passed, Patching
<1> QED
  BY <1>3, <1>4

\* A call returns 0 only when its target is in place, or with a block given up.
LEMMA PassedStep == IInv /\ [Next]_vars => Passed'
<1> SUFFICES ASSUME IInv, [Next]_vars PROVE Passed'
  OBVIOUS
<1> USE ApplyPatchAssumption DEF IInv, TypeOK, ProcessTypeOK, FilesTypeOK, Jobs, locals,
        files, storage, Passed, Knows, Patching, Reached, HasTarget, HasSource
<1>1. CASE Start
  BY <1>1 DEF Start
<1>2. CASE Check
  BY <1>2 DEF Check
<1>3. CASE SpaceCheck
  BY <1>3 DEF SpaceCheck, MakeFreeSpaceOnCache, Expendable
<1>4. CASE Load
  <2>1. CASE HasTarget(job)
    <3>1. \A j \in Jobs : j <= job => Reached(j)
      BY <1>4, <2>1 DEF Load
    <3>2. Return /\ UNCHANGED <<files, gaveUp>>
      BY <1>4, <2>1 DEF Load
    <3> QED
      BY <3>1, <3>2, ReturnPassed, Zenon
  <2>2. CASE ~HasTarget(job)
    BY <1>4, <2>2, SMTT(30) DEF Load
  <2> QED
    BY <2>1, <2>2, Zenon
<1>5. CASE RoomForMtd
  BY <1>5 DEF RoomForMtd, MakeFreeSpaceOnCache, Expendable
<1>6. CASE RoomForFile
  BY <1>6 DEF RoomForFile
<1>7. CASE NoRoomForFile
  BY <1>7, SMTT(30) DEF NoRoomForFile, MakeFreeSpaceOnCache, Expendable
<1>8. CASE SaveBegin
  BY <1>8 DEF SaveBegin
<1>9. CASE SaveNothing
  BY <1>9 DEF SaveNothing
<1>10. CASE SaveEnd
  BY <1>10, Zenon DEF SaveEnd, Fault, NoFault
<1>11. CASE Unlink
  BY <1>11 DEF Unlink
<1>12. CASE Patch
  BY <1>12, SMTT(30) DEF Patch, Fault, NoFault
<1>13. CASE Verify
  BY <1>13, Zenon DEF Verify
<1>14. CASE Rename
  BY <1>14, Zenon DEF Rename, Put, Fault, NoFault
<1>15. CASE FlashBegin
  BY <1>15, Zenon DEF FlashBegin, Put
<1>16. CASE FlashEnd
  BY <1>16, Zenon DEF FlashEnd, Put, Fault, NoFault
<1>17. CASE Cleanup
  <2>1. \A j \in Jobs : j <= job => Reached(j)
    BY <1>17 DEF Cleanup
  <2>2. Return /\ UNCHANGED <<files, gaveUp>>
    BY <1>17 DEF Cleanup
  <2> QED
    BY <2>1, <2>2, ReturnPassed
<1>18. CASE Crash
  BY <1>18, Zenon DEF Crash
<1>19. CASE UNCHANGED vars
  BY <1>19 DEF vars
<1> QED
  BY <1>1, <1>2, <1>3, <1>4, <1>5, <1>6, <1>7, <1>8, <1>9, <1>10, <1>11, <1>12, <1>13,
        <1>14, <1>15, <1>16, <1>17, <1>18, <1>19, Zenon DEF Next, Step

\* The script goes on only after success.
LEMMA InOrderStep == IInv /\ [Next]_vars => InOrder'
<1> SUFFICES ASSUME IInv, [Next]_vars PROVE InOrder'
  OBVIOUS
<1> USE ApplyPatchAssumption DEF IInv, TypeOK, ProcessTypeOK, FilesTypeOK, Jobs, locals,
        files, storage, InOrder, Passed, Knows, Patching, Needs, Reached, Undisturbed,
        HasTarget, HasSource
<1>1. CASE Start
  BY <1>1 DEF Start
<1>2. CASE Check
  BY <1>2 DEF Check
<1>3. CASE SpaceCheck
  BY <1>3, Zenon DEF SpaceCheck, MakeFreeSpaceOnCache, Expendable
<1>4. CASE Load
  <2>1. CASE HasTarget(job)
    BY <1>4, <2>1, SMTT(30) DEF Load, Return
  <2>2. CASE ~HasTarget(job)
    BY <1>4, <2>2, Zenon DEF Load
  <2> QED
    BY <2>1, <2>2, Zenon
<1>5. CASE RoomForMtd
  BY <1>5, Zenon DEF RoomForMtd, MakeFreeSpaceOnCache, Expendable
<1>6. CASE RoomForFile
  BY <1>6, Zenon DEF RoomForFile
<1>7. CASE NoRoomForFile
  BY <1>7, SMTT(30) DEF NoRoomForFile, MakeFreeSpaceOnCache, Expendable
<1>8. CASE SaveBegin
  BY <1>8, Zenon DEF SaveBegin
<1>9. CASE SaveNothing
  BY <1>9 DEF SaveNothing
<1>10. CASE SaveEnd
  BY <1>10, SMTT(30) DEF SaveEnd, Fault, NoFault
<1>11. CASE Unlink
  BY <1>11, Zenon DEF Unlink
<1>12. CASE Patch
  BY <1>12, SMTT(30) DEF Patch, Fault, NoFault
<1>13. CASE Verify
  BY <1>13, Zenon DEF Verify
<1>14. CASE Rename
  BY <1>14, ZenonT(30) DEF Rename, Put, Fault, NoFault
<1>15. CASE FlashBegin
  BY <1>15, SMTT(30) DEF FlashBegin, Put
<1>16. CASE FlashEnd
  <2>0. \A i \in Jobs : job < i /\ Undisturbed(i) => ~Needs(i)
    BY <1>16 DEF FlashEnd
  <2>1. CASE Put(output) /\ UNCHANGED gaveUp
    BY <1>16, <2>0, <2>1, Zenon DEF FlashEnd, Put
  <2>2. CASE UNCHANGED files /\ UNCHANGED gaveUp /\ pc' = "failed"
    BY <1>16, <2>2 DEF FlashEnd
  <2>3. CASE UNCHANGED files /\ gaveUp' = gaveUp \cup {job}
    BY <1>16, <2>0, <2>3 DEF FlashEnd
  <2> QED
    BY <1>16, <2>1, <2>2, <2>3, Zenon DEF FlashEnd
<1>17. CASE Cleanup
  BY <1>17, SMTT(30) DEF Cleanup, Return, NoCopy
<1>18. CASE Crash
  BY <1>18 DEF Crash
<1>19. CASE UNCHANGED vars
  BY <1>19, Zenon DEF vars
<1> QED
  BY <1>1, <1>2, <1>3, <1>4, <1>5, <1>6, <1>7, <1>8, <1>9, <1>10, <1>11, <1>12, <1>13,
        <1>14, <1>15, <1>16, <1>17, <1>18, <1>19, Zenon DEF Next, Step

\* No copy that is needed is overwritten or removed.
LEMMA RecoverableStep == IInv /\ [Next]_vars => Recoverable'
<1> SUFFICES ASSUME IInv, [Next]_vars PROVE Recoverable'
  OBVIOUS
<1>0. ASSUME UNCHANGED <<files, saved, gaveUp>> PROVE Recoverable'
  BY <1>0, Zenon DEF IInv, Recoverable, Available, Undisturbed, HasTarget, HasSource, HasCopy,
     files
<1>20. ASSUME pc \in Patching, NEW i \in Jobs, i # job, Undisturbed(i) PROVE ~Needs(i)
  <2>1. i < job \/ job < i
    BY <1>20, ApplyPatchAssumption DEF IInv, TypeOK, ProcessTypeOK, Jobs
  <2>2. i < job => ~Needs(i)
    <3>1. i < job => Reached(i)
      BY <1>20, Zenon DEF IInv, Passed
    <3>2. i \in gaveUp => i \in InPlace \cap MtdTarget \/ HasSource(i)
      BY Zenon DEF IInv, Knows, Untouched
    <3> QED
      BY <3>1, <3>2, Zenon DEF Reached, Needs
  <2>3. job < i => ~Needs(i)
    <3>1. Needs(i) /\ job < i => Reached(job)
      BY <1>20, Zenon DEF IInv, InOrder, TypeOK, ProcessTypeOK
    <3>2. ~HasTarget(job)
      BY <1>20, Zenon DEF IInv, Passed
    <3>3. job \in gaveUp => ~(job < i)
      BY <1>20, ApplyPatchAssumption DEF Undisturbed, IInv, TypeOK, ProcessTypeOK, Jobs
    <3> QED
      BY <3>1, <3>2, <3>3, Zenon DEF Reached
  <2> QED
    BY <2>1, <2>2, <2>3, Zenon
<1>21. ASSUME UNCHANGED <<files, gaveUp>>,
              \A i \in Jobs \ (InPlace \cap MtdTarget) : Undisturbed(i) => ~Needs(i)
       PROVE  Recoverable'
  BY <1>21, Zenon DEF Recoverable, Available, Undisturbed, Needs, HasTarget, HasSource, files
<1>22. ASSUME Put("target"), UNCHANGED <<job, saved, gaveUp>> PROVE Recoverable'
  <2>0. job \in Jobs /\ source \in [Jobs -> Contents] /\ target \in [Jobs -> Contents]
    BY DEF IInv, TypeOK, ProcessTypeOK, FilesTypeOK
  <2>1. HasTarget(job)'
    BY <1>22, <2>0, Zenon DEF Put, HasTarget
  <2>2. \A i \in Jobs : i # job /\ Available(i) => Available(i)'
    BY <1>22, <2>0, Zenon DEF Put, Available, HasTarget, HasSource, HasCopy
  <2> QED
    BY <1>22, <2>1, <2>2, Zenon DEF IInv, Recoverable, Available, Undisturbed
<1>1. CASE Start
  BY <1>1, <1>0, Zenon DEF Start, storage
<1>2. CASE Check
  BY <1>2, <1>0, Zenon DEF Check, storage
<1>3. CASE SpaceCheck
  BY <1>3, <1>0, Zenon DEF SpaceCheck
<1>4. CASE Load
  BY <1>4, <1>0, Zenon DEF Load, storage
<1>5. CASE RoomForMtd
  BY <1>5, <1>0, Zenon DEF RoomForMtd
<1>6. CASE RoomForFile
  BY <1>6, <1>0, Zenon DEF RoomForFile, storage
<1>7. CASE NoRoomForFile
  BY <1>7, <1>0, Zenon DEF NoRoomForFile
<1>8. CASE SaveBegin
  <2>1. HasSource(job)
    BY <1>8 DEF SaveBegin, IInv, Knows
  <2>2. pc \in Patching
    BY <1>8 DEF SaveBegin, Patching
  <2>3. \A i \in Jobs : Undisturbed(i) => ~Needs(i)
    BY <2>1, <2>2, <1>20, Zenon DEF Needs
  <2> QED
    BY <1>8, <2>3, <1>21, Zenon DEF SaveBegin
<1>9. CASE SaveNothing
  <2>1. job \in MtdTarget
    BY <1>9 DEF SaveNothing, IInv, Knows
  <2>2. job \notin InPlace => HasSource(job)
    BY <2>1, Zenon DEF IInv, Untouched
  <2>3. pc \in Patching
    BY <1>9 DEF SaveNothing, Patching
  <2>4. \A i \in Jobs \ (InPlace \cap MtdTarget) : Undisturbed(i) => ~Needs(i)
    BY <2>1, <2>2, <2>3, <1>20, Zenon DEF Needs
  <2> QED
    BY <1>9, <2>4, <1>21, Zenon DEF SaveNothing
<1>10. CASE SaveEnd
  <2>1. HasSource(job)
    BY <1>10 DEF SaveEnd, IInv, Knows
  <2>2. pc \in Patching
    BY <1>10 DEF SaveEnd, Patching
  <2>3. \A i \in Jobs : Undisturbed(i) => ~Needs(i)
    BY <2>1, <2>2, <1>20, Zenon DEF Needs
  <2> QED
    BY <1>10, <2>3, <1>21, Zenon DEF SaveEnd
<1>12. CASE Patch
  BY <1>12, <1>0, Zenon DEF Patch, storage
<1>13. CASE Verify
  BY <1>13, <1>0, Zenon DEF Verify, storage
<1>17. CASE Cleanup
  <2>1. /\ Reached(job) /\ \A i \in Jobs : i < job => Reached(i)
        /\ \A i \in Jobs : job < i /\ Undisturbed(i) => ~Needs(i)
    BY <1>17, Zenon DEF Cleanup, IInv, Passed, InOrder, Patching
  <2>0. \A i \in Jobs : Reached(i) => ~Needs(i)
    BY Zenon DEF IInv, Knows, Untouched, Reached, Needs
  <2>2. \A i \in Jobs : i < job \/ i = job \/ job < i
    BY ApplyPatchAssumption DEF IInv, TypeOK, ProcessTypeOK, Jobs
  <2>3. \A i \in Jobs : Undisturbed(i) => ~Needs(i)
    BY <2>0, <2>1, <2>2, Zenon
  <2> QED
    BY <1>17, <2>3, <1>21, Zenon DEF Cleanup
<1>18. CASE Crash
  BY <1>18, <1>0, Zenon DEF Crash, storage
<1>19. CASE UNCHANGED vars
  BY <1>19, <1>0, Zenon DEF vars, storage
<1>14. CASE Rename
  <2>1. output = "target" \/ UNCHANGED files
    BY <1>14, Zenon DEF Rename, IInv, Knows, files
  <2> QED
    BY <1>14, <2>1, <1>0, <1>22, Zenon DEF Rename, files, storage
<1>16. CASE FlashEnd
  <2>1. CASE Put(output) /\ UNCHANGED gaveUp
    BY <1>16, <2>1, <1>22, Zenon DEF FlashEnd, IInv, Knows
  <2>2. CASE UNCHANGED files
    BY <1>16, <2>2, Zenon DEF FlashEnd, IInv, Recoverable, Available, Undisturbed, HasTarget,
       HasSource, HasCopy, files
  <2> QED
    BY <1>16, <2>1, <2>2, Zenon DEF FlashEnd
<1>11. CASE Unlink
  <2>1. HasCopy(job)
    BY <1>11, Zenon DEF Unlink, IInv, Knows
  <2>2. \A i \in Jobs : i # job => source'[i] = source[i]
    BY <1>11, Zenon DEF Unlink, IInv, TypeOK, FilesTypeOK
  <2> QED
    BY <1>11, <2>1, <2>2, Zenon DEF Unlink, IInv, Recoverable, Available, Undisturbed, HasTarget,
       HasSource, HasCopy, storage
<1> USE ApplyPatchAssumption DEF IInv, TypeOK, ProcessTypeOK, FilesTypeOK, Jobs, locals,
        files, storage, InOrder, Passed, Knows, Patching, Needs, Reached, Undisturbed,
        Recoverable, Available, Untouched, HasTarget, HasSource, HasCopy
<1>15. CASE FlashBegin
  BY <1>15, SMTT(30) DEF FlashBegin, Put
<1> QED
  BY <1>1, <1>2, <1>3, <1>4, <1>5, <1>6, <1>7, <1>8, <1>9, <1>10, <1>11, <1>12, <1>13,
        <1>14, <1>15, <1>16, <1>17, <1>18, <1>19 DEF Next, Step

-----------------------------------------------------------------------------
(* The theorems. *)

\* Every source is there at first.
LEMMA InitIInv == Init => IInv
<1> SUFFICES ASSUME Init PROVE IInv
  OBVIOUS
<1>1. ProcessTypeOK
  <2>1. fromCopy \in BOOLEAN /\ madeCopy \in BOOLEAN
    BY Zenon DEF Init
  <2> QED
    BY <2>1, ApplyPatchAssumption DEF Init, ProcessTypeOK, Jobs, Contents
<1>2. FilesTypeOK
  BY DEF Init, FilesTypeOK, NoCopy, Contents
<1>3. TypeOK
  BY <1>1, <1>2, ApplyPatchAssumption DEF Init, TypeOK
<1>4. \A i \in Jobs : HasSource(i)
  BY DEF Init, HasSource
<1>5. Passed /\ InOrder /\ Knows
  BY <1>4 DEF Init, Passed, InOrder, Knows, Needs, Reached, Undisturbed, Patching
<1>6. Untouched /\ Recoverable
  BY <1>4, ApplyPatchAssumption DEF Untouched, Recoverable, Available
<1> QED
  BY <1>3, <1>5, <1>6 DEF IInv

\* The locals of applypatch(), the files and /cache keep their types.
THEOREM TypeCorrect == Spec => []TypeOK
<1>1. Init => TypeOK
  BY InitIInv DEF IInv
<1> QED
  BY <1>1, TypeStep, PTL DEF Spec

\* The inductive invariant holds in every behaviour.
LEMMA Inductive == Spec => []IInv
<1>1. IInv /\ [Next]_vars => IInv'
  <2>1. IInv => TypeOK
    BY DEF IInv
  <2> QED
    BY <2>1, TypeStep, UntouchedStep, KnowsStep, PassedStep, InOrderStep, RecoverableStep
    DEF IInv
<1> QED
  BY <1>1, InitIInv, PTL DEF Spec

\* For every script, cut off or failing anywhere and run again any number of times: what
\* a call of applypatch() needs to succeed is not lost, unless the call patches a
\* partition in place or comes after one that gave up a block.
THEOREM NotLost == Spec => []Recoverable
<1>1. IInv => Recoverable
  BY DEF IInv
<1> QED
  BY <1>1, Inductive, PTL

\* A script that succeeds has brought about every target, but the partitions in which a
\* block was given up.
THEOREM Success == Spec => []SuccessIsReal
<1>1. IInv => SuccessIsReal
  BY DEF IInv, Passed, Reached, SuccessIsReal
<1> QED
  BY <1>1, Inductive, PTL

\* applypatch() replaces files by verified data only, and leaves alone what is done.
THEOREM Improvement == Spec => OnlyImproves
<1>1. IInv /\ [Next]_vars => [Improves]_vars
  <2> SUFFICES ASSUME IInv, [Next]_vars PROVE Improves \/ UNCHANGED vars
    OBVIOUS
  <2> USE ApplyPatchAssumption DEF IInv, TypeOK, ProcessTypeOK, FilesTypeOK, Knows, Passed,
          Patching, Jobs, HasTarget, HasSource, Improves
  <2>1. CASE UNCHANGED source /\ UNCHANGED target
    BY <2>1
  <2>2. CASE Unlink
    BY <2>2 DEF Unlink
  <2>3. CASE Rename
    BY <2>3, SMTT(30) DEF Rename, Put
  <2>4. CASE FlashBegin
    BY <2>4, SMTT(30) DEF FlashBegin, Put
  <2>5. CASE FlashEnd /\ Put(output)
    BY <2>5 DEF FlashEnd, Put
  <2> QED
    BY <2>1, <2>2, <2>3, <2>4, <2>5, Zenon DEF Next, Step, Start, Check, SpaceCheck, Load,
       RoomForMtd, RoomForFile, NoRoomForFile, SaveBegin, SaveNothing, SaveEnd, Patch,
       Verify, FlashEnd, Cleanup, Crash, files
<1> QED
  BY <1>1, Inductive, PTL DEF Spec, OnlyImproves

=============================================================================
