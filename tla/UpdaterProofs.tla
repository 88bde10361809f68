--------------------------- MODULE UpdaterProofs ---------------------------
(***************************************************************************)
(* Proofs about Updater: a program that starts as flash_image stays one    *)
(* and runs alone, so every step is one of Mtd's, and with the steps of    *)
(* MtdProofs the header on the flash vouches for what follows it; and the  *)
(* function write_raw_image() of a script, between whose steps others      *)
(* happen, leaves what it was given when it says so.                       *)
(***************************************************************************)
EXTENDS Updater, MtdProofs

\* Nothing but flash_image runs.  What it leaves on the flash is of interest as long as
\* no block was given up, and where the image goes on after the first block.
Alone == parent = "start" /\ child.st = "none" /\ work.op = "none"

FlashInv ==
    program = "flash_image" =>
        /\ Alone /\ gaveUp \in BOOLEAN /\ bad \in SUBSET Block
        /\ ~gaveUp /\ BlockSize < Len(Image) => Writes(Good, flash, ctx, fi)

-----------------------------------------------------------------------------
\* What runs is decided at the start: no step makes another program of it.
LEMMA SameProgram == Next => program' = program
<1> SUFFICES ASSUME Next PROVE program' = program
  OBVIOUS
<1>1. CASE InstallFn
  <2>1. CASE MountFn \/ UnmountFn \/ FormatFn \/ DeleteFn \/ DeleteRecursiveFn
    BY <2>1, Zenon DEF MountFn, UnmountFn, FormatFn, DeleteFn, DeleteRecursiveFn, procVars
  <2>2. CASE SymlinkFn \/ SetPermFn \/ SetPermRecursiveFn
    BY <2>2, Zenon DEF SymlinkFn, SetPermFn, SetPermRecursiveFn, procVars
  <2>3. CASE PackageExtractDirFn \/ PackageExtractFileFn \/ WriteRawImageFn
    BY <2>3, Zenon DEF PackageExtractDirFn, PackageExtractFileFn, WriteRawImageFn, procVars
  <2>4. CASE IsMountedFn \/ GetPropFn \/ Sha1CheckFn \/ RunProgramFn
    BY <2>4, Zenon DEF IsMountedFn, GetPropFn, Sha1CheckFn, RunProgramFn, OnlyEvaluates, procVars
  <2>5. CASE FileGetPropFn \/ ReadFileFn
    BY <2>5, Zenon DEF FileGetPropFn, ReadFileFn, procVars
  <2>6. CASE ApplyPatchSpaceFn \/ ApplyPatchCheckFn \/ ApplyPatchFn
    BY <2>6, Zenon DEF ApplyPatchSpaceFn, ApplyPatchCheckFn, ApplyPatchFn, procVars
  <2>7. CASE ShowProgressFn \/ SetProgressFn \/ UIPrintFn
    BY <2>7, Zenon DEF ShowProgressFn, SetProgressFn, UIPrintFn, procVars
  <2> QED
    BY <1>1, <2>1, <2>2, <2>3, <2>4, <2>5, <2>6, <2>7, Zenon DEF InstallFn
<1>2. CASE Work
  <2>1. CASE FormatEnds \/ ExtractCreates \/ ExtractWrites \/ ExtractEnds
    BY <2>1, Zenon DEF FormatEnds, ExtractCreates, ExtractWrites, ExtractEnds, procVars
  <2>2. CASE RawCopies \/ RawErases \/ RawCloses
    BY <2>2, Zenon DEF RawCopies, RawErases, RawCloses, procVars
  <2>3. CASE PatchMakesSpace \/ PatchUnlinks \/ PatchWrites \/ PatchRenames
    BY <2>3, Zenon DEF PatchMakesSpace, PatchUnlinks, PatchWrites, PatchRenames, procVars
  <2> QED
    BY <1>2, <2>1, <2>2, <2>3, Zenon DEF Work
<1>3. CASE ReadsArgs \/ CallsBuiltinFn \/ Unwinds
  BY <1>3, Zenon DEF ReadsArgs, CallsBuiltinFn, Unwinds, OnlyEvaluates, procVars
<1>4. CASE WritesBlock \/ FlashImage
  BY <1>4, Zenon DEF WritesBlock, FlashImage, procVars
<1>5. CASE main \/ main_ends \/ IsKilled \/ PowerFails
  BY <1>5, Zenon DEF main, main_ends, IsKilled, PowerFails
<1>6. CASE install_package \/ try_update_binary_reads \/ try_update_binary_waits \/ install_again
  BY <1>6, Zenon DEF install_package, try_update_binary_reads, try_update_binary_waits, install_again
<1> QED
  BY <1>1, <1>2, <1>3, <1>4, <1>5, <1>6, Zenon DEF Next, Steps

\* Where flash_image runs, it is all that takes steps: no binary evaluates a script.
LEMMA OnlyFlashImage ==
    ASSUME program = "flash_image", Alone, Next
    PROVE  WritesBlock \/ FlashImage \/ PowerFails
<1>1. parent = "start" /\ child.st = "none" /\ work.op = "none"
  BY DEF Alone
<1>2. ~Running
  BY <1>1 DEF Running
<1>3. ~ReadsArgs /\ ~CallsBuiltinFn /\ ~InstallFn
  BY <1>2, Zenon DEF ReadsArgs, CallsBuiltinFn, InstallFn
<1>4. ~Unwinds /\ ~IsKilled /\ ~main /\ ~main_ends /\ ~Work
  BY <1>1 DEF Unwinds, IsKilled, main, main_ends, Work
<1>5. ~install_package /\ ~try_update_binary_reads /\ ~try_update_binary_waits /\ ~install_again
  BY <1>1, ZenonT(30) DEF install_package, try_update_binary_reads, try_update_binary_waits, install_again
<1> QED
  BY <1>3, <1>4, <1>5, Zenon DEF Next, Steps

\* Each step keeps the invariant.
LEMMA FlashInvStep == FlashInv /\ [Next]_vars => FlashInv'
<1> SUFFICES ASSUME FlashInv, [Next]_vars PROVE FlashInv'
  OBVIOUS
<1>1. CASE UNCHANGED vars
  <2>1. program' = program /\ parent' = parent /\ child' = child /\ work' = work
    BY <1>1, Zenon DEF vars, procVars
  <2>2. flash' = flash /\ bad' = bad /\ ctx' = ctx /\ gaveUp' = gaveUp /\ fi' = fi
    BY <1>1, ZenonT(30) DEF vars, mtdVars
  <2> QED
    BY <2>1, <2>2, ZenonT(30) DEF FlashInv, Alone, Good
<1>2. CASE Next
  <2> SUFFICES ASSUME program' = "flash_image"
               PROVE  /\ Alone' /\ gaveUp' \in BOOLEAN /\ bad' \in SUBSET Block
                      /\ ~gaveUp' /\ BlockSize < Len(Image) => Writes(Good', flash', ctx', fi')
    BY Zenon DEF FlashInv, Good
  <2>1. program = "flash_image"
    BY <1>2, SameProgram, ZenonT(30)
  <2>2. Alone /\ gaveUp \in BOOLEAN /\ bad \in SUBSET Block /\ (~gaveUp /\ BlockSize < Len(Image) => Writes(Good, flash, ctx, fi))
    BY <2>1, ZenonT(30) DEF FlashInv
  <2>3. CASE WritesBlock
    <3>1. bad' = bad /\ Alone'
      BY <2>2, <2>3, ZenonT(30) DEF WritesBlock, write_block, write_block_erase, write_block_write, Alone, procVars
    <3>2. gaveUp' \in {gaveUp, TRUE}
      BY <2>3, Zenon DEF WritesBlock, write_block, write_block_erase, write_block_write, NextTry
    <3>3. write_block
      BY <2>3, Zenon DEF WritesBlock
    <3> QED
      BY <2>2, <3>1, <3>2, <3>3, BlockStep, Zenon DEF Good
  <2>4. CASE FlashImage
    <3>1. flash_image /\ Alone'
      BY <2>2, <2>4, Zenon DEF FlashImage, Alone, procVars
    <3>2. bad' = bad /\ gaveUp' = gaveUp
      BY <3>1, Zenon DEF flash_image, CheckHeader, WriteImage, CloseImage, WriteHeader, flash_image_starts, die
    <3> QED
      BY <2>2, <3>1, <3>2, FlashImageStep, ZenonT(30) DEF Good
  <2>5. CASE PowerFails
    <3>1. bad' = bad /\ gaveUp' = gaveUp /\ ctx' = Closed /\ fi' = [pc |-> "start", next |-> 1] /\ flash' \in TornFlash
      BY <2>5, Zenon DEF PowerFails
    <3>2. Alone'
      BY <2>5, ZenonT(30) DEF PowerFails, Alone, Child, Idle
    <3>3. ASSUME ~gaveUp, BlockSize < Len(Image) PROVE Writes(Good, flash', Closed, [pc |-> "start", next |-> 1])
      <4>1. InFlash(Good, flash') /\ Sound(Good, flash')
        BY <2>2, <3>1, <3>3, TornSound, ZenonT(30)
      <4> QED
        BY <4>1, Rests, ZenonT(30)
    <3> QED
      BY <2>2, <3>1, <3>2, <3>3, ZenonT(30) DEF Good
  <2> QED
    BY <1>2, <2>1, <2>2, <2>3, <2>4, <2>5, OnlyFlashImage, ZenonT(30)
<1> QED
  BY <1>1, <1>2, ZenonT(30)

\* The invariant holds at first.
LEMMA FlashInvInit == Init => FlashInv
<1> SUFFICES ASSUME Init PROVE FlashInv
  OBVIOUS
<1>1. MtdInit
  BY Zenon DEF Init
<1>2. program = "flash_image" => Alone /\ gaveUp \in BOOLEAN
  BY Zenon DEF Init, MtdInit, Alone, Idle
<1>3. bad \in SUBSET Block /\ Writes(Good, flash, ctx, fi)
  BY <1>1, FlashImageInit, ZenonT(30)
<1> QED
  BY <1>2, <1>3, Zenon DEF FlashInv

-----------------------------------------------------------------------------
(* write_raw_image(). *)

\* write_raw_image() is under way, and nothing happened that it does not report.
Copying == work.op = "raw" /\ work.next # 0 /\ ~gaveUp /\ "read" \notin lost /\ work.data \in Seq(STRING)

\* The file is being copied: a block that is full is on its way to the flash, and after the
\* loop all of the file was handed over.
RawInv ==
    /\ bad \in SUBSET Block /\ flash = [b \in Block |-> flash[b]] /\ WorkRecord(work)
    /\ work.op = "raw" /\ work.step = "copy" => work.next \in Nat \ {0}
    /\ Copying =>
          /\ Copies(Good, flash, ctx, work.data, work.next)
          /\ work.step = "copy" /\ ctx.st = "open" => Len(ctx.stored) < BlockSize
          /\ work.step # "copy" => work.next = Len(work.data) + 1

\* A step that has nothing to do with the partition.
Elsewhere ==
    /\ flash' = flash /\ bad' = bad /\ gaveUp' = gaveUp /\ WorkRecord(work')
    /\ work'.op # "raw" \/ (work' = work /\ ctx' = ctx /\ lost \subseteq lost')

\* It ends.
LEMMA IdleWork == WorkRecord(Idle) /\ Idle.op = "none"
  BY DEF WorkRecord, Idle

\* The functions of the script other than write_raw_image().
LEMMA InstallElsewhere ==
    ASSUME WorkRecord(work), InstallFn
    PROVE  WriteRawImageFn \/ Elsewhere
<1> DEFINE Same == flash' = flash /\ bad' = bad /\ gaveUp' = gaveUp /\ work' = work
           Begins(op) == flash' = flash /\ bad' = bad /\ gaveUp' = gaveUp /\ WorkRecord(work') /\ work'.op = op
<1>1. work.op = "none"
  BY Zenon DEF InstallFn, Running
<1>2. Same => Elsewhere
  BY <1>1, Zenon DEF Elsewhere
<1>3. Begins("format") \/ Begins("extract") \/ Begins("patch") => Elsewhere
  BY DEF Elsewhere
<1>4. ASSUME NEW op, NEW step, NEW data, Working(op, step, data) PROVE WorkRecord(work') /\ work'.op = op
  BY <1>4, WorkBegins, ZenonT(30) DEF Working
<1>5. CASE MountFn
  BY <1>2, <1>5, Zenon DEF MountFn, MtdBut_faults
<1>6. CASE IsMountedFn \/ GetPropFn \/ Sha1CheckFn \/ RunProgramFn
  BY <1>2, <1>6, Zenon DEF IsMountedFn, GetPropFn, Sha1CheckFn, RunProgramFn, OnlyEvaluates, mtdVars
<1>7. CASE UnmountFn \/ DeleteFn \/ DeleteRecursiveFn \/ SymlinkFn
  BY <1>2, <1>7, Zenon DEF UnmountFn, DeleteFn, DeleteRecursiveFn, SymlinkFn, MtdBut_faults
<1>8. CASE SetPermFn \/ SetPermRecursiveFn
  BY <1>2, <1>8, ZenonT(30) DEF SetPermFn, SetPermRecursiveFn, MtdBut_faults
<1>9. CASE FormatFn \/ PackageExtractDirFn \/ ApplyPatchFn
  <2>1. flash' = flash /\ bad' = bad /\ gaveUp' = gaveUp
    BY <1>9, ZenonT(30) DEF FormatFn, PackageExtractDirFn, ApplyPatchFn, MtdBut_faults, mtdVars
  <2>2. \/ work' = work \/ Working("format", "erase", Arg(2)) \/ Working("extract", "create", Given)
        \/ Working("patch", "space", <<SourceToUse.perm>> \o Patched)
    BY <1>9, Zenon DEF FormatFn, PackageExtractDirFn, ApplyPatchFn
  <2> QED
    BY <1>2, <1>3, <1>4, <2>1, <2>2, ZenonT(30)
<1>10. CASE PackageExtractFileFn \/ FileGetPropFn \/ ReadFileFn
  BY <1>2, <1>10, Zenon DEF PackageExtractFileFn, FileGetPropFn, ReadFileFn, MtdBut_faults, mtdVars
<1>11. CASE ApplyPatchSpaceFn \/ ApplyPatchCheckFn
  BY <1>2, <1>11, Zenon DEF ApplyPatchSpaceFn, ApplyPatchCheckFn, MtdBut_faults, mtdVars
<1>12. CASE ShowProgressFn \/ SetProgressFn \/ UIPrintFn
  BY <1>2, <1>12, Zenon DEF ShowProgressFn, SetProgressFn, UIPrintFn, mtdVars
<1> QED
  BY <1>5, <1>6, <1>7, <1>8, <1>9, <1>10, <1>11, <1>12, Zenon DEF InstallFn

\* What takes longer, other than write_raw_image().
LEMMA WorkElsewhere ==
    ASSUME WorkRecord(work), Work
    PROVE  RawCopies \/ RawErases \/ RawCloses \/ Elsewhere
<1> DEFINE Same == flash' = flash /\ bad' = bad /\ gaveUp' = gaveUp
           Goes(x) == work' = [work EXCEPT !.step = x]
           Moves(x, y) == work' = [work EXCEPT !.step = x, !.next = y]
<1>1. ASSUME NEW x, NEW y, work.op # "raw", Same, Goes(x) \/ Moves(x, y) \/ work' = Idle PROVE Elsewhere
  <2>1. CASE Goes(x)
    BY <1>1, <2>1, WorkSteps DEF Elsewhere
  <2>2. CASE Moves(x, y)
    <3>1. work' \in [op : {work.op}, step : {x}, next : {y}, data : {work.data}]
      BY <2>2, ZenonT(30) DEF WorkRecord
    <3> QED
      BY <1>1, <3>1, Zenon DEF Elsewhere, WorkRecord
  <2>3. CASE work' = Idle
    BY <1>1, <2>3, IdleWork, Zenon DEF Elsewhere
  <2> QED
    BY <1>1, <2>1, <2>2, <2>3, ZenonT(30)
<1>2. work.op \in {"format", "extract", "patch"} => work.op # "raw"
  OBVIOUS
<1>3. CASE FormatEnds
  BY <1>1, <1>3, ZenonT(30) DEF FormatEnds, MtdBut_faults
<1>4. CASE ExtractCreates \/ ExtractWrites \/ ExtractEnds
  <2>1. Same /\ work.op = "extract"
    BY <1>4, Zenon DEF ExtractCreates, ExtractWrites, ExtractEnds, Extracting, MtdBut_faults, mtdVars
  <2>2. Goes("write") \/ Moves("create", work.next + 1) \/ work' = Idle
    BY <1>4, ZenonT(30) DEF ExtractCreates, ExtractWrites, ExtractEnds
  <2> QED
    BY <1>1, <1>2, <2>1, <2>2, ZenonT(30)
<1>5. CASE PatchMakesSpace \/ PatchUnlinks \/ PatchWrites \/ PatchRenames
  <2>1. Same /\ work.op = "patch"
    BY <1>5, Zenon DEF PatchMakesSpace, PatchUnlinks, PatchWrites, PatchRenames, Patching, MtdBut_faults, mtdVars
  <2>2. \/ Goes("write") \/ Goes("rename") \/ work' = Idle
        \/ Moves("write", 2) \/ Moves("unlink", 3) \/ Moves("space", 2)
    BY <1>5, Zenon DEF PatchMakesSpace, PatchUnlinks, PatchWrites, PatchRenames, PatchGoes, PatchFails
  <2> QED
    BY <1>1, <1>2, <2>1, <2>2, ZenonT(30)
<1> QED
  BY <1>3, <1>4, <1>5, Zenon DEF Work

\* Every step is one of write_raw_image(), of write_block() or of flash_image, or power fails, or it has
\* nothing to do with the partition.
LEMMA RawSteps ==
    ASSUME WorkRecord(work), Next
    PROVE  \/ WriteRawImageFn \/ RawCopies \/ RawErases \/ RawCloses
           \/ WritesBlock \/ FlashImage \/ PowerFails \/ Elsewhere
<1> DEFINE Same == flash' = flash /\ bad' = bad /\ gaveUp' = gaveUp /\ work' = work /\ ctx' = ctx
<1>1. Same /\ lost \subseteq lost' => Elsewhere
  BY Zenon DEF Elsewhere
<1>2. CASE ReadsArgs
  BY <1>1, <1>2, Zenon DEF ReadsArgs, mtdVars
<1>3. CASE CallsBuiltinFn \/ Unwinds
  BY <1>1, <1>3, Zenon DEF CallsBuiltinFn, Unwinds, OnlyEvaluates, mtdVars
<1>4. CASE IsKilled \/ main_ends \/ try_update_binary_reads \/ try_update_binary_waits
  BY <1>1, <1>4, Zenon DEF IsKilled, main_ends, try_update_binary_reads, try_update_binary_waits, mtdVars
<1>5. CASE main
  BY <1>1, <1>5, Zenon DEF main, MtdBut_faults
<1>6. CASE install_package
  <2>1. Same
    BY <1>6, Zenon DEF install_package, MtdBut_faults
  <2>2. lost' = lost \/ lost' = lost \cup {"fork"}
    BY <1>6, ZenonT(30) DEF install_package, Loses
  <2>3. lost \subseteq lost'
    BY <2>2, ZenonT(30)
  <2> QED
    BY <1>1, <2>1, <2>3, Zenon
<1>7. CASE install_again
  <2>1. flash' = flash /\ bad' = bad /\ gaveUp' = gaveUp /\ work' = Idle
    BY <1>7, Zenon DEF install_again
  <2> QED
    BY <2>1, IdleWork, ZenonT(30) DEF Elsewhere
<1> QED
  BY <1>2, <1>3, <1>4, <1>5, <1>6, <1>7, InstallElsewhere, WorkElsewhere, Zenon DEF Next, Steps

\* What is being written is in order, where a step begins.
LEMMA InCopying ==
    ASSUME RawInv, Copying
    PROVE  /\ work.data \in Seq(STRING) /\ Copies(Good, flash, ctx, work.data, work.next)
           /\ work.step = "copy" /\ ctx.st = "open" => Len(ctx.stored) < BlockSize
           /\ work.step # "copy" => work.next = Len(work.data) + 1
           /\ work.next \in 1..(Len(work.data) + 1)
  BY Zenon DEF RawInv, Copying, Copies

\* write_raw_image() opens the partition.
LEMMA RawOpens ==
    ASSUME RawInv, WriteRawImageFn
    PROVE  RawInv'
<1>1. bad' = bad /\ flash' = flash /\ work.op = "none"
  BY Zenon DEF WriteRawImageFn, Ready, Running
<1>2. \/ work' = work
      \/ ctx' = mtd_write_partition /\ \E x : work' = [op |-> "raw", step |-> "copy", next |-> 1, data |-> x]
  BY Zenon DEF WriteRawImageFn, Working
<1>3. CASE work' = work
  BY <1>1, <1>3, ZenonT(30) DEF RawInv, Copying, WorkRecord
<1>4. CASE ctx' = mtd_write_partition /\ \E x : work' = [op |-> "raw", step |-> "copy", next |-> 1, data |-> x]
  <2>1. WorkRecord(work') /\ work'.step = "copy" /\ work'.next = 1
    BY <1>4 DEF WorkRecord
  <2>2. ASSUME Copying'
        PROVE  Copies(Good, flash, ctx', work'.data, 1) /\ Len(ctx'.stored) < BlockSize
    <3>1. work'.data \in Seq(STRING) /\ Good \in SUBSET Block
      BY <2>2, GoodBlocks, Zenon DEF Copying, RawInv
    <3>2. Copies(Good, flash, ctx', work'.data, 1) /\ ctx'.stored = <<>>
      BY <1>4, <3>1, CopyBegins, Zenon
    <3> QED
      BY <3>2, Sizes
  <2>3. 1 \in Nat \ {0} /\ Good' = Good
    BY <1>1 DEF Good
  <2>4. bad' \in SUBSET Block /\ flash' = [b \in Block |-> flash'[b]]
    BY <1>1, Zenon DEF RawInv
  <2> QED
    BY <1>1, <2>1, <2>2, <2>3, <2>4, ZenonT(30) DEF RawInv
<1> QED
  BY <1>2, <1>3, <1>4, ZenonT(30)

\* write_raw_image() copies the file.
LEMMA RawCopiesOn ==
    ASSUME RawInv, RawCopies
    PROVE  RawInv'
<1>1. /\ bad' = bad /\ flash' = flash /\ gaveUp' = gaveUp /\ work.op = "raw" /\ work.step = "copy"
      /\ WorkRecord(work) /\ bad \in SUBSET Block /\ work.next \in Nat \ {0} /\ Good' = Good
      /\ bad' \in SUBSET Block /\ flash' = [b \in Block |-> flash'[b]]
  BY Zenon DEF RawCopies, Writing, RawInv, Good
<1>0. WorkRecord(work) /\ work.op = "raw" /\ work.step = "copy"
  BY <1>1, ZenonT(30)
<1>2. CASE /\ ctx.st = "open" /\ work.next <= Len(work.data) /\ mtd_write_data(work.data[work.next])
           /\ work' = [work EXCEPT !.next = work.next + 1] /\ lost' = lost
  <2>1. /\ WorkRecord(work') /\ work'.op = "raw" /\ work'.step = "copy" /\ work'.next = work.next + 1
        /\ work'.data = work.data
    <3>1. work' \in [op : {"raw"}, step : {"copy"}, next : {work.next + 1}, data : {work.data}]
      BY <1>0, <1>2, Zenon DEF WorkRecord
    <3> QED
      BY <3>1, ZenonT(30) DEF WorkRecord
  <2>2. work.next + 1 \in Nat \ {0} /\ work.next # 0
    BY <1>1
  <2>3. ASSUME Copying'
        PROVE  /\ Copies(Good, flash, ctx', work.data, work.next + 1)
               /\ ctx'.st = "open" => Len(ctx'.stored) < BlockSize
    <3>1. Copying
      BY <1>1, <1>2, <2>1, <2>2, <2>3, ZenonT(30) DEF Copying
    <3> QED
      BY <1>1, <1>2, <3>1, InCopying, CopyChunk, Zenon
  <2> QED
    BY <1>1, <2>1, <2>2, <2>3, Zenon DEF RawInv
<1>3. CASE Loses("read") /\ RawGoes("erase")
  <2>1. WorkRecord(work') /\ work'.step = "erase"
    <3>1. work' = [work EXCEPT !.step = "erase"]
      BY <1>3, ZenonT(30) DEF RawGoes
    <3> QED
      BY <1>0, <3>1, WorkSteps, ZenonT(30)
  <2>2. ~Copying'
    BY <1>3, ZenonT(30) DEF Copying, Loses
  <2> QED
    BY <1>1, <2>1, <2>2, ZenonT(30) DEF RawInv
<1>4. CASE ctx.st = "open" /\ work.next > Len(work.data) /\ RawGoes("erase") /\ lost' = lost /\ ctx' = ctx
  <2>1. WorkRecord(work') /\ work'.op = "raw" /\ work'.step = "erase" /\ work'.next = work.next /\ work'.data = work.data
    <3>1. work' = [work EXCEPT !.step = "erase"]
      BY <1>4, Zenon DEF RawGoes
    <3> QED
      BY <1>0, <3>1, WorkSteps
  <2>2. ASSUME Copying'
        PROVE  Copies(Good, flash, ctx, work.data, work.next) /\ work.next = Len(work.data) + 1
    <3>1. Copying
      BY <1>1, <1>4, <2>1, <2>2, Zenon DEF Copying
    <3>2. /\ work.data \in Seq(STRING) /\ Copies(Good, flash, ctx, work.data, work.next)
          /\ work.next \in 1..(Len(work.data) + 1)
      BY <3>1, InCopying, Zenon
    <3>3. work.next = Len(work.data) + 1
      BY <1>4, <3>2
    <3> QED
      BY <3>2, <3>3, Zenon
  <2> QED
    BY <1>1, <1>4, <2>1, <2>2, ZenonT(30) DEF RawInv
<1>5. CASE work' = [work EXCEPT !.step = "erase", !.next = 0]
  <2>1. WorkRecord(work') /\ work'.next = 0 /\ work'.step = "erase"
    <3>1. work' \in [op : {work.op}, step : {"erase"}, next : {0}, data : {work.data}]
      BY <1>0, <1>5, Zenon DEF WorkRecord
    <3> QED
      BY <3>1, ZenonT(30) DEF WorkRecord
  <2>2. ~Copying'
    BY <2>1, ZenonT(30) DEF Copying
  <2> QED
    BY <1>1, <2>1, <2>2, ZenonT(30) DEF RawInv
<1> QED
  BY <1>2, <1>3, <1>4, <1>5, Zenon DEF RawCopies

\* mtd_erase_blocks().
LEMMA RawErasesOn ==
    ASSUME RawInv, RawErases
    PROVE  RawInv'
<1>0. WorkRecord(work) /\ work.op = "raw" /\ work.step = "erase"
  BY Zenon DEF RawErases, Writing, RawInv
<1>1. /\ bad' = bad /\ gaveUp' = gaveUp /\ lost' = lost /\ bad \in SUBSET Block /\ Good' = Good
      /\ bad' \in SUBSET Block /\ flash = [b \in Block |-> flash[b]]
  BY Zenon DEF RawErases, RawInv, Good
<1>2. work' = work \/ work' = [work EXCEPT !.step = "close"]
  BY Zenon DEF RawErases, RawGoes
<1>3. /\ WorkRecord(work') /\ work'.op = "raw" /\ work'.step \in {"erase", "close"} /\ work'.next = work.next
      /\ work'.data = work.data
  <2>1. CASE work' = work
    BY <1>0, <2>1, ZenonT(30)
  <2>2. CASE work' = [work EXCEPT !.step = "close"]
    BY <1>0, <2>2, WorkSteps
  <2> QED
    BY <1>2, <2>1, <2>2, ZenonT(30)
<1>4. SUFFICES /\ flash' = [b \in Block |-> flash'[b]]
               /\ Copying => Copies(Good, flash', ctx', work.data, work.next)
  <2>1. Copying' => Copying
    BY <1>0, <1>1, <1>3, ZenonT(30) DEF Copying
  <2>2. Copying => work.next = Len(work.data) + 1
    BY <1>0, InCopying, ZenonT(30)
  <2>3. work'.step # "copy"
    BY <1>3, ZenonT(30)
  <2> QED
    BY <1>1, <1>3, <1>4, <2>1, <2>2, <2>3, ZenonT(30) DEF RawInv
<1>5. CASE ctx.st = "failed" /\ ctx' = [ctx EXCEPT !.st = "open"] /\ flash' = flash
  <2>1. ASSUME Copying PROVE Copies(Good, flash, ctx', work.data, work.next)
    <3>1. Copies(Good, flash, ctx, work.data, work.next)
      BY <2>1, InCopying, Zenon
    <3> QED
      BY <1>5, <3>1, CopyReopened, Zenon
  <2> QED
    BY <1>1, <1>5, <2>1, Zenon
<1>6. CASE ctx.st = "open" /\ ctx.stored # <<>> /\ FlushStored /\ flash' = flash
  <2>1. ASSUME Copying PROVE Copies(Good, flash, ctx', work.data, work.next)
    <3>1. /\ work.data \in Seq(STRING) /\ Copies(Good, flash, ctx, work.data, work.next)
          /\ work.next = Len(work.data) + 1
      BY <1>0, <2>1, InCopying, ZenonT(30)
    <3> QED
      BY <1>1, <1>6, <3>1, CopyFlush, Zenon
  <2> QED
    BY <1>1, <1>6, <2>1, Zenon
<1>7. CASE ctx.st = "open" /\ ctx' = ctx /\ \E e : EraseRest(e)
  <2>1. PICK e : EraseRest(e)
    BY <1>7, ZenonT(30)
  <2>2. flash' = [b \in Block |-> flash'[b]]
    BY <2>1, ZenonT(30) DEF EraseRest
  <2>3. ASSUME Copying PROVE Copies(Good, flash', ctx, work.data, work.next)
    <3>1. work.data \in Seq(STRING) /\ Copies(Good, flash, ctx, work.data, work.next)
      BY <2>3, InCopying, Zenon
    <3> QED
      BY <1>1, <1>7, <2>1, <3>1, CopyRest, Zenon
  <2> QED
    BY <1>7, <2>2, <2>3, ZenonT(30)
<1>8. ctx.st \in {"open", "failed"}
  BY DEF RawErases, Writing
<1>9. CASE ctx.st = "failed"
  BY <1>5, <1>9, Zenon DEF RawErases
<1>10. CASE ctx.st = "open" /\ ctx.stored # <<>>
  <2>1. ctx.st # "failed"
    BY <1>10, ZenonT(30)
  <2> QED
    BY <1>6, <1>10, <2>1, Zenon DEF RawErases
<1>11. CASE ctx.st = "open" /\ ctx.stored = <<>>
  <2>1. ctx.st # "failed"
    BY <1>11, ZenonT(30)
  <2>2. ctx' = ctx /\ \E e : EraseRest(e)
    BY <1>11, <2>1, ZenonT(30) DEF RawErases
  <2> QED
    BY <1>7, <1>11, <2>2, Zenon
<1> QED
  BY <1>8, <1>9, <1>10, <1>11, ZenonT(30)

\* mtd_write_close() writes what is still stored, or closes the partition.
LEMMA RawClosesOn ==
    ASSUME RawInv, RawCloses
    PROVE  RawInv'
<1>1. /\ bad' = bad /\ flash' = flash /\ gaveUp' = gaveUp /\ work.op = "raw" /\ work.step = "close"
      /\ WorkRecord(work) /\ bad \in SUBSET Block /\ Good' = Good
      /\ bad' \in SUBSET Block /\ flash' = [b \in Block |-> flash'[b]]
  BY Zenon DEF RawCloses, Writing, RawInv, Good
<1>2. CASE ctx.st = "open" /\ ctx.stored # <<>> /\ FlushStored /\ work' = work /\ lost' = lost
  <2>1. Copying' => Copying
    BY <1>1, <1>2, Zenon DEF Copying
  <2>2. ASSUME Copying
        PROVE  Copies(Good, flash, ctx', work.data, work.next) /\ work.next = Len(work.data) + 1
    <3>1. /\ work.data \in Seq(STRING) /\ Copies(Good, flash, ctx, work.data, work.next)
          /\ work.next = Len(work.data) + 1
      BY <1>1, <2>2, InCopying, ZenonT(30)
    <3> QED
      BY <1>1, <1>2, <3>1, CopyFlush, Zenon
  <2>3. work'.step # "copy"
    BY <1>1, <1>2, ZenonT(30)
  <2> QED
    BY <1>1, <1>2, <2>1, <2>2, <2>3, Zenon DEF RawInv
<1>3. CASE work' = Idle
  <2>1. WorkRecord(work') /\ work'.op # "raw"
    BY <1>3, IdleWork, ZenonT(30)
  <2> QED
    BY <1>1, <2>1, ZenonT(30) DEF RawInv, Copying
<1> QED
  BY <1>2, <1>3, ZenonT(30) DEF RawCloses

\* write_block().
LEMMA RawWritesBlock ==
    ASSUME RawInv, WritesBlock
    PROVE  RawInv'
<1>1. write_block /\ work' = work /\ lost' = lost
  BY Zenon DEF WritesBlock
<1>2. bad' = bad /\ (gaveUp' = gaveUp \/ gaveUp' = TRUE) /\ \E x : flash' = [flash EXCEPT ![ctx.pos] = x]
  BY <1>1, ZenonT(30) DEF write_block, write_block_erase, write_block_write, NextTry
<1>3. bad \in SUBSET Block /\ flash = [b \in Block |-> flash[b]] /\ bad' \in SUBSET Block /\ Good' = Good
  BY <1>2, Zenon DEF RawInv, Good
<1>4. flash' = [b \in Block |-> flash'[b]]
  BY <1>2, <1>3, AllBlocks, Zenon
<1>5. Copying' => Copying
  BY <1>1, <1>2, ZenonT(30) DEF Copying
<1>6. ASSUME Copying'
      PROVE  /\ Copies(Good, flash', ctx', work.data, work.next)
             /\ ctx'.st = "open" => Len(ctx'.stored) < BlockSize
             /\ work.step # "copy" => work.next = Len(work.data) + 1
  <2>1. Copying /\ ~gaveUp'
    BY <1>5, <1>6, ZenonT(30) DEF Copying
  <2>2. /\ work.data \in Seq(STRING) /\ Copies(Good, flash, ctx, work.data, work.next)
        /\ work.step # "copy" => work.next = Len(work.data) + 1
    BY <2>1, InCopying, Zenon
  <2>3. Copies(Good, flash', ctx', work.data, work.next) /\ (ctx'.st = "open" => ctx'.stored = <<>>)
    BY <1>1, <1>3, <2>1, <2>2, CopyBlock, Zenon
  <2>4. ctx'.stored = <<>> => Len(ctx'.stored) < BlockSize
    BY Sizes
  <2> QED
    BY <2>2, <2>3, <2>4, Zenon
<1>7. WorkRecord(work') /\ (work'.op = "raw" /\ work'.step = "copy" => work'.next \in Nat \ {0})
  BY <1>1, ZenonT(30) DEF RawInv
<1> QED
  BY <1>1, <1>3, <1>4, <1>6, <1>7, ZenonT(30) DEF RawInv

\* Each step keeps the invariant.
LEMMA RawInvStep == FlashInv /\ RawInv /\ [Next]_vars => RawInv'
<1> SUFFICES ASSUME FlashInv, RawInv, [Next]_vars PROVE RawInv'
  OBVIOUS
<1>1. WorkRecord(work) /\ bad \in SUBSET Block /\ flash = [b \in Block |-> flash[b]]
  BY Zenon DEF RawInv
<1>2. CASE Elsewhere
  <2>1. Copying' => Copying /\ work' = work /\ ctx' = ctx
    BY <1>2, Zenon DEF Elsewhere, Copying
  <2>2. work'.op # "raw" \/ work' = work
    BY <1>2, Zenon DEF Elsewhere
  <2>3. flash' = flash /\ bad' = bad /\ WorkRecord(work') /\ Good' = Good
    BY <1>2, Zenon DEF Elsewhere, Good
  <2> QED
    BY <2>1, <2>2, <2>3, Zenon DEF RawInv
<1>3. CASE UNCHANGED vars
  <2>1. work' = work /\ lost' = lost /\ flash' = flash /\ bad' = bad /\ gaveUp' = gaveUp /\ ctx' = ctx
    BY <1>3, ZenonT(30) DEF vars, mtdVars
  <2>2. Elsewhere
    BY <1>1, <2>1, ZenonT(30) DEF Elsewhere
  <2> QED
    BY <1>2, <2>2, ZenonT(30)
<1>4. CASE FlashImage
  <2>1. work.op = "none" /\ work' = work /\ flash_image
    BY <1>4, Zenon DEF FlashImage, FlashInv, Alone
  <2>2. bad' = bad /\ flash' = flash /\ gaveUp' = gaveUp
    BY <2>1, Zenon DEF flash_image, CheckHeader, WriteImage, CloseImage, WriteHeader, flash_image_starts, die
  <2>3. Elsewhere
    BY <1>1, <2>1, <2>2, ZenonT(30) DEF Elsewhere
  <2> QED
    BY <1>2, <2>3
<1>5. CASE PowerFails
  <2>1. bad' = bad /\ work' = Idle /\ flash' \in TornFlash
    BY <1>5, Zenon DEF PowerFails
  <2>2. flash' = flash \/ \E x : flash' = [flash EXCEPT ![ctx.pos] = x]
    BY <2>1, Zenon DEF TornFlash
  <2>3. flash' = [b \in Block |-> flash'[b]]
    BY <1>1, <2>2, AllBlocks, Zenon
  <2>4. WorkRecord(work') /\ work'.op # "raw"
    BY <2>1, IdleWork, ZenonT(30)
  <2>5. bad' \in SUBSET Block
    BY <1>1, <2>1, Zenon
  <2> QED
    BY <2>3, <2>4, <2>5, Zenon DEF RawInv, Copying
<1>6. CASE Next
  <2>1. \/ WriteRawImageFn \/ RawCopies \/ RawErases \/ RawCloses
        \/ WritesBlock \/ FlashImage \/ PowerFails \/ Elsewhere
    BY <1>1, <1>6, RawSteps, ZenonT(30)
  <2> QED
    BY <1>2, <1>4, <1>5, <2>1, RawOpens, RawCopiesOn, RawErasesOn, RawClosesOn, RawWritesBlock, Zenon
<1> QED
  BY <1>3, <1>6, Zenon

\* The invariant holds at first.
LEMMA RawInvInit == Init => RawInv
<1> SUFFICES ASSUME Init PROVE RawInv
  OBVIOUS
<1>1. MtdInit /\ work = Idle
  BY Zenon DEF Init
<1>2. bad \in SUBSET Block
  BY <1>1, FlashImageInit, Zenon
<1>3. flash = [b \in Block |-> flash[b]]
  BY <1>1, Zenon DEF MtdInit
<1>4. WorkRecord(work) /\ work.op # "raw"
  BY <1>1, IdleWork, ZenonT(30)
<1> QED
  BY <1>2, <1>3, <1>4, Zenon DEF RawInv, Copying

-----------------------------------------------------------------------------
(* The results. *)

\* flash_image: whatever is interrupted, fails or is run again, a partition that begins with
\* the header of an image of more than one block goes on with the image after its first block,
\* and has a beginning of the image in that block, unless write_block() gave a block up.
THEOREM WritesHeaderLast == Spec => []HeaderLast
<1>1. FlashInv => HeaderLast
  <2> SUFFICES ASSUME FlashInv, program = "flash_image", ~gaveUp, BlockSize < Len(Image),
                      mtd_read_data(1) = <<Image[1]>>
               PROVE  \E n \in 1..BlockSize, rest \in {"erased", "garbage"} :
                          mtd_read_data(Len(Image))
                              = [k \in 1..Len(Image) |-> IF n < k /\ k <= BlockSize THEN rest ELSE Image[k]]
    BY ZenonT(30) DEF HeaderLast
  <2>1. bad \in SUBSET Block /\ Writes(Good, flash, ctx, fi)
    BY DEF FlashInv
  <2>2. InFlash(Good, flash) /\ Sound(Good, flash)
    BY <2>1, Zenon DEF Writes
  <2> QED
    BY <2>1, <2>2, SoundRead, ZenonT(30)
<1> QED
  BY <1>1, FlashInvInit, FlashInvStep, PTL DEF Spec

\* write_raw_image() closes the partition, and returns its name.
ReportsWritten == RawCloses /\ work' = Idle /\ work.next # 0

\* write_raw_image(): when it returns the name of the partition, the partition reads as the
\* file, whichever blocks are bad and whatever system calls failed on the way, unless a read
\* of the file failed, the last block could not be written or write_block() gave a block up;
\* a block of zeros is skipped when it is read, so the file has none.
RawImageWritten ==
    [][ReportsWritten /\ ~gaveUp /\ lost' \cap {"read", "tail"} = {}
          /\ work.data \in Seq(STRING) /\ NoZeroBlock(work.data)
       => mtd_read_data(Len(work.data)) = work.data]_vars

\* write_raw_image(): RawImageWritten holds for every file and every partition.
THEOREM WritesRawImage == Spec => RawImageWritten
<1>1. ASSUME RawInv, RawCloses, work' = Idle, work.next # 0, work.data \in Seq(STRING),
             ~gaveUp, lost' \cap {"read", "tail"} = {}, NoZeroBlock(work.data)
      PROVE  mtd_read_data(Len(work.data)) = work.data
  <2>1. work.op = "raw" /\ work.step = "close" /\ ctx.st \in {"open", "failed"}
    BY <1>1, Zenon DEF RawCloses, Writing
  <2>2. work' # work
    BY <1>1, <2>1, IdleWork, ZenonT(30)
  <2>3. /\ ~(ctx.st = "open" /\ ctx.stored # <<>>)
        /\ IF work.next # 0 /\ ctx.st = "failed" THEN Loses("tail") ELSE UNCHANGED lost
    BY <1>1, <2>2, Zenon DEF RawCloses
  <2>4. "read" \notin lost' /\ "tail" \notin lost'
    BY <1>1, Zenon
  <2>5. ctx.st # "failed"
    BY <1>1, <2>3, <2>4, ZenonT(30) DEF Loses
  <2>6. "read" \notin lost /\ ctx.st = "open" /\ ctx.stored = <<>>
    BY <2>1, <2>3, <2>4, <2>5, ZenonT(30)
  <2>7. Copying
    BY <1>1, <2>1, <2>6, Zenon DEF Copying
  <2>8. Copies(Good, flash, ctx, work.data, Len(work.data) + 1)
    BY <1>1, <2>1, <2>7, InCopying, ZenonT(30)
  <2>9. bad \in SUBSET Block
    BY <1>1, Zenon DEF RawInv
  <2> QED
    BY <1>1, <2>6, <2>8, <2>9, CopyReads, Zenon
<1>2. RawInv => [ReportsWritten /\ ~gaveUp /\ lost' \cap {"read", "tail"} = {}
                    /\ work.data \in Seq(STRING) /\ NoZeroBlock(work.data)
                 => mtd_read_data(Len(work.data)) = work.data]_vars
  BY <1>1, Zenon DEF ReportsWritten
<1> QED
  BY <1>2, FlashInvInit, FlashInvStep, RawInvInit, RawInvStep, PTL DEF Spec, RawImageWritten
=============================================================================
