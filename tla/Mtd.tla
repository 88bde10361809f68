-------------------------------- MODULE Mtd --------------------------------
(***************************************************************************)
(* Raw flash partitions, as mtdutils.c writes and reads them, and the       *)
(* program flash_image built on it.  A partition is a row of erase blocks,   *)
(* a block a row of BlockSize chunks, where a chunk is what one call of      *)
(* mtd_write_data() hands over.                                              *)
(***************************************************************************)
EXTENDS Integers, Sequences, FiniteSets

CONSTANTS
    Blocks,          \* Erase blocks of a partition.
    BlockSize,       \* Chunks of an erase block.
    BadBlocks,       \* The sets of blocks that MEMGETBADBLOCK may report.
    OldImage,        \* What the partition holds at first.
    Image,           \* The image file that is written.
    MaxFaults,       \* Bound on failing system calls, except those on blocks.
    MaxBadWrites     \* Bound on blocks that cannot be erased, written or verified.

\* The blocks that the kernel knows to be bad are blocks.  The header of the image is not
\* in the old one, so that it tells them apart; and where the image goes on after the first
\* block it has no block of zeros, which mtd_read_data() would skip, not counting the header.
ASSUME MtdAssumption ==
    /\ Blocks \in Nat /\ BlockSize \in Nat \ {0} /\ MaxFaults \in Nat /\ MaxBadWrites \in Nat
    /\ BadBlocks \subseteq SUBSET (1..Blocks)
    /\ OldImage \in Seq(STRING) /\ Image \in Seq(STRING) /\ Image # <<>>
    /\ \A k \in DOMAIN OldImage : Image[1] # OldImage[k]
    /\ Image[1] \notin {"zero", "erased", "garbage"}
    /\ BlockSize < Len(Image) =>
          \A j \in 0..Len(Image) : BlockSize * j < Len(Image) =>
             \E i \in 1..BlockSize : /\ BlockSize * j + i \in 2..Len(Image)
                                    /\ Image[BlockSize * j + i] # "zero"

VARIABLES
    flash,           \* The blocks of the partition.
    bad,             \* Its factory-bad blocks.
    ctx,             \* The MtdWriteContext, and write_block() where it is under way.
    gaveUp,          \* A block was skipped although it is not marked bad.
    faults,          \* Failing system calls so far.
    badWrites,       \* Failing attempts of write_block() so far.
    fi               \* flash_image: where it is, and the next chunk of the file.

mtdVars == <<flash, bad, ctx, gaveUp, faults, badWrites, fi>>

Block == 1..Blocks
Erased == [i \in 1..BlockSize |-> "erased"]
Garbage == [i \in 1..BlockSize |-> "garbage"]
Partly(data, n, rest) == [i \in 1..BlockSize |-> IF i <= n THEN data[i] ELSE rest]
Padded(data) == [i \in 1..BlockSize |-> IF i <= Len(data) THEN data[i] ELSE "zero"]
AllZero(block) == \A i \in 1..BlockSize : block[i] = "zero"

\* Chunks m to n of data, or as many of them as there are.
Chunks(data, m, n) == SubSeq(data, m, IF n < Len(data) THEN n ELSE Len(data))

Fault == faults < MaxFaults /\ faults' = faults + 1
NoFault == UNCHANGED faults
BadWrite == badWrites < MaxBadWrites /\ badWrites' = badWrites + 1

\* The first block from pos on that is not factory-bad; Blocks + 1 if there is none.
NextGood(pos) ==
    LET good == {b \in Block \ bad : b >= pos}
    IN IF good = {} THEN Blocks + 1 ELSE CHOOSE b \in good : \A c \in good : b <= c

\* read_block() skips blocks that are bad or all zero; mtd_read_data() concatenates the
\* others: chunk i of block b comes after those of the blocks before it.
Readable == {b \in Block \ bad : ~AllZero(flash[b])}
Place(b, i) == BlockSize * Cardinality({c \in Readable : c < b}) + i

\* The first n chunks, or fewer if the partition ends (ENOSPC).
mtd_read_data(n) ==
    LET all == BlockSize * Cardinality(Readable)
        from(k) == CHOOSE p \in Readable \X (1..BlockSize) : Place(p[1], p[2]) = k
    IN [k \in 1..(IF n < all THEN n ELSE all) |-> flash[from(k)[1]][from(k)[2]]]

-----------------------------------------------------------------------------
(* Writing. *)

Closed == [st |-> "closed", cur |-> 1, pos |-> 0, stored |-> <<>>, retry |-> 0]

\* mtd_write_partition(): st is where the context is: "open", in write_block() about to
\* "erase" or to "write" block pos, or "failed" when write_block() returned -1.
mtd_write_partition == [Closed EXCEPT !.st = "open"]

\* write_block() enters its loop at pos, or finds no block left.
TryBlock(c, pos) ==
    IF NextGood(pos) > Blocks THEN [c EXCEPT !.st = "failed", !.retry = 0]
    ELSE [c EXCEPT !.st = "erase", !.pos = NextGood(pos), !.retry = 0]

\* mtd_write_data() of one chunk: the chunk is stored, and a full block is written.
mtd_write_data(chunk) ==
    LET c == [ctx EXCEPT !.stored = Append(@, chunk)]
    IN ctx' = IF Len(c.stored) = BlockSize THEN TryBlock(c, c.cur) ELSE c

\* mtd_erase_blocks() first writes what is stored, with zeros after it.
FlushStored == ctx' = TryBlock([ctx EXCEPT !.stored = Padded(@)], ctx.cur)

\* An attempt failed: once more, or erase the block for the last time and go on with the
\* next one, here with the block left as b.
NextTry_forever(c, b) ==
    /\ ctx' = [c EXCEPT !.st = "erase", !.retry = @ + 1]
    /\ flash' = [flash EXCEPT ![ctx.pos] = b] /\ UNCHANGED gaveUp

NextTry(c, b) ==
    IF ctx.retry < 1
    THEN /\ ctx' = [c EXCEPT !.st = "erase", !.retry = @ + 1]
         /\ flash' = [flash EXCEPT ![ctx.pos] = b] /\ UNCHANGED gaveUp
    ELSE /\ ctx' = TryBlock(c, ctx.pos + 1) /\ gaveUp' = TRUE
         /\ \E left \in {Erased, b} : flash' = [flash EXCEPT ![ctx.pos] = left]

\* MEMERASE of block pos.
write_block_erase ==
    /\ ctx.st = "erase"
    /\ \/ /\ UNCHANGED badWrites /\ ctx' = [ctx EXCEPT !.st = "write"]
          /\ flash' = [flash EXCEPT ![ctx.pos] = Erased] /\ UNCHANGED gaveUp
       \/ BadWrite /\ NextTry(ctx, flash[ctx.pos])
    /\ UNCHANGED <<bad, faults, fi>>

\* write(), and read() and memcmp() to verify it.  The descriptor is after the block then.  When
\* one of them fails a part of the block may be right, all of it if only the read() failed.
write_block_write ==
    /\ ctx.st = "write"
    /\ LET after == [ctx EXCEPT !.cur = ctx.pos + 1] IN
       \/ /\ UNCHANGED badWrites /\ flash' = [flash EXCEPT ![ctx.pos] = ctx.stored]
          /\ ctx' = [after EXCEPT !.st = "open", !.stored = <<>>, !.retry = 0] /\ UNCHANGED gaveUp
       \/ BadWrite /\ \E n \in 0..BlockSize : NextTry(after, Partly(ctx.stored, n, "garbage"))
    /\ UNCHANGED <<bad, faults, fi>>

write_block == write_block_erase \/ write_block_write

\* mtd_erase_blocks(ctx, -1) from the descriptor to the end, except the blocks of failed.
EraseRest(failed) ==
    flash' = [b \in Block |-> IF b >= ctx.cur /\ b \notin bad \cup failed THEN Erased ELSE flash[b]]

\* What the flash holds when power fails: a block being written holds a part of the data.
TornFlash ==
    IF ctx.st # "write" THEN {flash}
    ELSE {[flash EXCEPT ![ctx.pos] = Partly(ctx.stored, n, "erased")] : n \in 0..BlockSize}

-----------------------------------------------------------------------------
(* flash_image: the header is the first chunk of the file. *)

Goto(pc, next) == fi' = [pc |-> pc, next |-> next]

\* exit(1) of die(): what is stored is not written.
die == Goto("died", 1) /\ ctx' = Closed /\ UNCHANGED <<flash, gaveUp>>

\* The partition is left alone if its header is that of the file.  If it cannot be read it
\* is written.
CheckHeader ==
    /\ fi.pc = "start"
    /\ \/ /\ NoFault /\ mtd_read_data(1) = <<Image[1]>>
          /\ Goto("done", 1) /\ UNCHANGED <<flash, gaveUp, ctx>>
       \/ /\ IF mtd_read_data(1) = <<Image[1]>> THEN Fault ELSE NoFault
          /\ Goto("write", 1) /\ ctx' = mtd_write_partition /\ UNCHANGED <<flash, gaveUp>>
       \/ Fault /\ die
    /\ UNCHANGED bad

\* Zeros for the header, then the rest of the file.
WriteAllButHeader_header(chunk) ==
    IF fi.next = 1 THEN mtd_write_data(Image[1]) ELSE mtd_write_data(chunk)

WriteAllButHeader(chunk) ==
    IF fi.next = 1 THEN mtd_write_data("zero") ELSE mtd_write_data(chunk)

WriteImage ==
    /\ fi.pc = "write" /\ ctx.st \in {"open", "failed"}
    /\ \/ /\ ctx.st = "open" /\ fi.next <= Len(Image)
          /\ WriteAllButHeader(Image[fi.next]) /\ Goto("write", fi.next + 1)
          /\ NoFault /\ UNCHANGED <<flash, gaveUp>>
       \/ ctx.st = "open" /\ fi.next <= Len(Image) /\ Fault /\ die
       \/ ctx.st = "failed" /\ NoFault /\ die
    /\ UNCHANGED bad

\* mtd_write_close() writes what is stored; then the partition is opened again.
CloseImage ==
    /\ fi.pc = "write" /\ ctx.st = "open" /\ fi.next > Len(Image)
    /\ IF ctx.stored # <<>> THEN FlushStored /\ NoFault /\ UNCHANGED <<fi, flash, gaveUp>>
       ELSE \/ ctx' = mtd_write_partition /\ Goto("header", 1) /\ NoFault /\ UNCHANGED <<flash, gaveUp>>
            \/ Fault /\ die
    /\ UNCHANGED bad

\* The header, and the rest of the first block after it; a file that ends there is an error.
WriteHeader ==
    /\ fi.pc = "header" /\ ctx.st \in {"open", "failed"}
    /\ \/ /\ ctx.st = "failed" \/ (fi.next <= BlockSize /\ fi.next > Len(Image))
          /\ NoFault /\ die
       \/ /\ ctx.st = "open" /\ fi.next <= BlockSize /\ fi.next <= Len(Image)
          /\ mtd_write_data(Image[fi.next]) /\ Goto("header", fi.next + 1)
          /\ NoFault /\ UNCHANGED <<flash, gaveUp>>
       \/ /\ ctx.st = "open" /\ fi.next > BlockSize
          /\ ctx' = Closed /\ Goto("done", 1) /\ NoFault /\ UNCHANGED <<flash, gaveUp>>
       \/ ctx.st = "open" /\ Fault /\ die
    /\ UNCHANGED bad

\* The program runs again, at the next start of the system.
flash_image_starts ==
    /\ fi.pc \in {"died", "done"} /\ Goto("start", 1)
    /\ UNCHANGED <<flash, bad, ctx, gaveUp, faults>>

flash_image ==
    /\ CheckHeader \/ WriteImage \/ CloseImage \/ WriteHeader \/ flash_image_starts
    /\ UNCHANGED badWrites

-----------------------------------------------------------------------------
MtdInit ==
    /\ bad \in BadBlocks
    /\ LET index(b) == Cardinality({c \in Block \ bad : c < b})
           part(b) == Chunks(OldImage, index(b) * BlockSize + 1, index(b) * BlockSize + BlockSize)
       IN flash = [b \in Block |->
              IF b \in bad THEN Garbage ELSE IF part(b) = <<>> THEN Erased ELSE Padded(part(b))]
    /\ ctx = Closed /\ gaveUp = FALSE /\ faults = 0 /\ badWrites = 0 /\ fi = [pc |-> "start", next |-> 1]

MtdTypeOK ==
    /\ bad \subseteq Block
    /\ \A b \in Block : Len(flash[b]) = BlockSize
    /\ ctx.st \in {"closed", "open", "erase", "write", "failed"}
    /\ ctx.cur \in 1..(Blocks + 1) /\ ctx.retry \in 0..1
    /\ Len(ctx.stored) <= BlockSize
    /\ gaveUp \in BOOLEAN /\ faults \in 0..MaxFaults /\ badWrites \in 0..MaxBadWrites
    /\ fi.pc \in {"start", "write", "header", "done", "died"} /\ fi.next \in 1..(Len(Image) + BlockSize + 1)
=============================================================================
