----------------------------- MODULE MtdProofs ------------------------------
(***************************************************************************)
(* Proofs about Mtd: what flash_image leaves on the partition after each   *)
(* step, for any number and size of blocks, any bad blocks, any image.     *)
(*                                                                         *)
(* A good block holds the part of the image that its rank among the good   *)
(* blocks gives it.  The invariant Writes says how far the writing is; its *)
(* heart is Sound: no block begins with the header of the image yet, or    *)
(* the first block that is read begins with something else, or all that    *)
(* follows the first block is the image.  A block is erased before it is   *)
(* written, and the header comes last, so each of the three is kept.       *)
(*                                                                         *)
(* A file that is written from its first chunk to its last, by             *)
(* write_raw_image(), needs less: Copied says that what is before the      *)
(* writing is the file, and so it is all of the file at the end.           *)
(***************************************************************************)
EXTENDS Mtd, FiniteSetTheorems, WellFoundedInduction, TLAPS

-----------------------------------------------------------------------------
(* Sets of numbers, and the place of a chunk in blocks. *)

\* A nonempty set of natural numbers has a least element.
LEMMA LeastNumber ==
    ASSUME NEW T, T \subseteq Nat, T # {}
    PROVE  \E n \in T : \A m \in T : n <= m
<1> DEFINE R == OpToRel(<, Nat)
<1>1. IsWellFoundedOn(R, Nat)
  BY NatLessThanWellFounded, Zenon
<1>2. \A x, y \in Nat : x < y => <<x, y>> \in R
  BY DEF OpToRel
<1> HIDE DEF R
<1>3. PICK x \in T : \A y \in T : <<y, x>> \notin R
  BY <1>1, WFMin, Zenon
<1>4. \A y \in T : x <= y
  <2> TAKE y \in T
  <2>1. ~(y < x)
    BY <1>2, <1>3, Zenon
  <2> QED
    BY <2>1
<1> QED
  BY <1>4

Before(S, b) == {c \in S : c < b}
Rank(S, b) == Cardinality(Before(S, b))

\* A rank is a number, at most the number of elements.
LEMMA RankType ==
    ASSUME NEW N \in Nat, NEW S \in SUBSET (1..N), NEW b \in Nat
    PROVE  /\ IsFiniteSet(S) /\ Cardinality(S) \in Nat
           /\ IsFiniteSet(Before(S, b)) /\ Rank(S, b) \in Nat /\ Rank(S, b) <= Cardinality(S)
<1>1. IsFiniteSet(1..N)
  BY FS_Interval
<1>2. IsFiniteSet(S) /\ Before(S, b) \subseteq S
  BY <1>1, FS_Subset, Zenon DEF Before
<1> QED
  BY <1>2, FS_Subset, FS_CardinalityType DEF Rank

\* The rank after an element is one more.
LEMMA RankNext ==
    ASSUME NEW N \in Nat, NEW S \in SUBSET (1..N), NEW b \in S
    PROVE  Before(S, b + 1) = Before(S, b) \cup {b} /\ Rank(S, b + 1) = Rank(S, b) + 1
<1>0. b \in Nat /\ \A c \in S : c \in Nat
  OBVIOUS
<1>1. Before(S, b + 1) = Before(S, b) \cup {b} /\ b \notin Before(S, b)
  <2>1. ~(b < b) /\ \A c \in S : c < b + 1 <=> c < b \/ c = b
    BY <1>0
  <2> QED
    BY <2>1, Zenon DEF Before
<1>2. IsFiniteSet(Before(S, b))
  BY <1>0, RankType, Zenon
<1> QED
  BY <1>1, <1>2, FS_AddElement DEF Rank

\* Ranks grow with the elements.
LEMMA RankLess ==
    ASSUME NEW N \in Nat, NEW S \in SUBSET (1..N), NEW b \in S, NEW c \in Nat, b < c
    PROVE  Rank(S, b) < Rank(S, c)
<1>0. b \in Nat /\ \A d \in S : d \in Nat
  OBVIOUS
<1>1. Before(S, b + 1) \subseteq Before(S, c)
  <2>1. \A d \in S : d < b + 1 => d < c
    BY <1>0
  <2> QED
    BY <2>1, Zenon DEF Before
<1>2. Rank(S, b + 1) <= Rank(S, c)
  BY <1>1, RankType, FS_Subset, Zenon DEF Rank
<1>3. Rank(S, b + 1) = Rank(S, b) + 1
  BY RankNext, Zenon
<1>4. Rank(S, b) \in Nat /\ Rank(S, c) \in Nat
  BY <1>0, RankType, Zenon
<1> QED
  BY <1>2, <1>3, <1>4

\* The rank of an element is below the number of elements.
LEMMA RankBelow ==
    ASSUME NEW N \in Nat, NEW S \in SUBSET (1..N), NEW b \in S
    PROVE  Rank(S, b) < Cardinality(S)
<1>0. \A c \in S : c \in 1..N /\ c < N + 1
  OBVIOUS
<1>1. Before(S, N + 1) = S
  BY <1>0, Zenon DEF Before
<1>2. N + 1 \in Nat /\ b < N + 1
  BY <1>0
<1>3. Rank(S, b) < Rank(S, N + 1)
  BY <1>2, RankLess, Zenon
<1> QED
  BY <1>1, <1>3 DEF Rank

\* Every rank below the number of elements is that of an element.
LEMMA RankReached ==
    ASSUME NEW N \in Nat, NEW S \in SUBSET (1..N), NEW q \in Nat, q < Cardinality(S)
    PROVE  \E b \in S : Rank(S, b) = q
<1> DEFINE T == {m \in Nat : Rank(S, m) > q}
<1>0. \A c \in S : c \in 1..N
  OBVIOUS
<1>1. Before(S, N + 1) = S /\ Before(S, 0) = {}
  <2>1. \A c \in S : c < N + 1 /\ ~(c < 0)
    BY <1>0
  <2> QED
    BY <2>1, Zenon DEF Before
<1>2. N + 1 \in T
  BY <1>1 DEF Rank
<1>3. 0 \notin T
  BY <1>1, FS_EmptySet DEF Rank
<1>4. PICK m \in T : \A k \in T : m <= k
  BY <1>2, LeastNumber, Zenon
<1>5. m - 1 \in Nat /\ m - 1 \notin T
  BY <1>3, <1>4
<1>6. m - 1 \in S
  <2> SUFFICES ASSUME m - 1 \notin S PROVE FALSE
    OBVIOUS
  <2>1. \A c \in S : c < m <=> c < m - 1
    BY <1>0, <1>4, <1>5
  <2>2. Before(S, m) = Before(S, m - 1)
    BY <2>1, Zenon DEF Before
  <2> QED
    BY <2>2, <1>4, <1>5 DEF Rank
<1>7. Rank(S, m) = Rank(S, m - 1) + 1
  <2>1. Rank(S, (m - 1) + 1) = Rank(S, m - 1) + 1
    BY <1>6, RankNext, Zenon
  <2>2. (m - 1) + 1 = m
    BY <1>4
  <2> QED
    BY <2>1, <2>2
<1>8. Rank(S, m - 1) \in Nat
  BY <1>5, RankType, Zenon
<1> QED
  BY <1>4, <1>5, <1>6, <1>7, <1>8

\* More blocks have more chunks.
LEMMA MoreBlocks ==
    ASSUME NEW B \in Nat \ {0}, NEW x \in Nat, NEW y \in Nat, x < y
    PROVE  B * x + B <= B * y /\ B * x \in Nat /\ B * y \in Nat
<1>1. PICK d \in Nat : y = x + 1 + d
  <2>1. y - x - 1 \in Nat /\ y = x + 1 + (y - x - 1)
    OBVIOUS
  <2> QED
    BY <2>1
<1>2. B * y = B * x + B + B * d /\ B * d >= 0 /\ B * x \in Nat /\ B * d \in Int /\ B * y \in Nat
  BY <1>1
<1> QED
  BY <1>2

\* A chunk is at one place of one block.
LEMMA OnePlace ==
    ASSUME NEW B \in Nat \ {0}, NEW q \in Nat, NEW r \in Nat, NEW i \in 1..B, NEW j \in 1..B,
           B * q + i = B * r + j
    PROVE  q = r /\ i = j
<1>1. \A x, y \in Nat : x < y => B * x + B <= B * y
  BY MoreBlocks, Zenon
<1>2. B * q \in Int /\ B * r \in Int
  OBVIOUS
<1>3. ~(q < r) /\ ~(r < q)
  BY <1>1, <1>2
<1> QED
  BY <1>2, <1>3

\* Every chunk is at some place of some block.
LEMMA SomePlace ==
    ASSUME NEW B \in Nat \ {0}, NEW k \in Nat \ {0}
    PROVE  \E q \in Nat, i \in 1..B : B * q + i = k
<1> DEFINE T == {q \in Nat : B * q + B >= k}
<1>1. k \in T
  OBVIOUS
<1>2. PICK q \in T : \A r \in T : q <= r
  BY <1>1, LeastNumber, Zenon
<1>3. B * q < k
  <2>1. CASE q = 0
    BY <2>1
  <2>2. CASE q # 0
    <3>1. q - 1 \in Nat /\ q - 1 \notin T
      BY <1>2, <2>2
    <3>2. B * (q - 1) + B = B * q
      BY <1>2
    <3> QED
      BY <3>1, <3>2
  <2> QED
    BY <2>1, <2>2
<1>4. k - B * q \in 1..B /\ B * q + (k - B * q) = k
  BY <1>2, <1>3
<1> QED
  BY <1>2, <1>4

-----------------------------------------------------------------------------
(* What mtd_read_data() returns. *)

Good == Block \ bad
Word == {Image[k] : k \in 1..Len(Image)} \cup {OldImage[k] : k \in 1..Len(OldImage)} \cup {"zero", "erased", "garbage"}
Chunk == [1..BlockSize -> Word]

\* The partition is a row of blocks.
Partition == bad \in SUBSET Block /\ flash \in [Block -> Chunk]

\* Blocks are numbered, and blocks have chunks.
LEMMA Sizes ==
    /\ Blocks \in Nat /\ BlockSize \in Nat \ {0} /\ Block = 1..Blocks
    /\ Image \in Seq(STRING) /\ Len(Image) \in Nat \ {0} /\ 1 \in 1..BlockSize
<1>1. Blocks \in Nat /\ BlockSize \in Nat \ {0} /\ Image \in Seq(STRING) /\ Image # <<>>
  BY MtdAssumption
<1> QED
  BY <1>1 DEF Block

\* Chunk i of a block that is read comes out at its place.
LEMMA ReadAt ==
    ASSUME bad \in SUBSET Block, NEW n \in Nat, NEW b \in Readable, NEW i \in 1..BlockSize,
           Place(b, i) <= n
    PROVE  /\ Place(b, i) \in DOMAIN mtd_read_data(n)
           /\ mtd_read_data(n)[Place(b, i)] = flash[b][i]
<1> DEFINE R == Readable
           all == BlockSize * Cardinality(R)
           from(k) == CHOOSE p \in R \X (1..BlockSize) : Place(p[1], p[2]) = k
           pb == from(Place(b, i))
<1>1. R \in SUBSET (1..Blocks)
  BY Sizes DEF Readable
<1>2. \A c \in R : \A j : Place(c, j) = BlockSize * Rank(R, c) + j
  BY DEF Place, Rank, Before
<1>3. \A c \in R : c \in Nat /\ Rank(R, c) \in Nat
  <2>1. \A c \in R : c \in Nat
    BY <1>1, Sizes
  <2> QED
    BY <2>1, <1>1, Sizes, RankType, Zenon
<1>4. pb \in R \X (1..BlockSize) /\ Place(pb[1], pb[2]) = Place(b, i)
  <2>1. <<b, i>> \in R \X (1..BlockSize) /\ Place(<<b, i>>[1], <<b, i>>[2]) = Place(b, i)
    OBVIOUS
  <2> QED
    BY <2>1, Zenon
<1> HIDE DEF R, from, pb
<1>5. pb[1] \in R /\ pb[2] \in 1..BlockSize
  BY <1>4
<1>6. Rank(R, pb[1]) = Rank(R, b) /\ pb[2] = i
  <2>1. BlockSize * Rank(R, pb[1]) + pb[2] = BlockSize * Rank(R, b) + i
    BY <1>2, <1>4, <1>5 DEF R
  <2>2. Rank(R, b) \in Nat /\ Rank(R, pb[1]) \in Nat
    BY <1>3, <1>5 DEF R
  <2>3. \A q, r \in Nat, j, l \in 1..BlockSize :
            BlockSize * q + j = BlockSize * r + l => q = r /\ j = l
    BY OnePlace, Sizes, Zenon
  <2> QED
    BY <2>1, <2>2, <2>3, <1>5
<1>7. pb[1] = b
  <2>1. pb[1] \in Nat /\ b \in Nat /\ b \in R
    BY <1>3, <1>5 DEF R
  <2>2. /\ pb[1] < b => Rank(R, pb[1]) < Rank(R, b)
        /\ b < pb[1] => Rank(R, b) < Rank(R, pb[1])
    BY <2>1, <1>1, <1>5, RankLess, Sizes, Zenon
  <2>3. ~(pb[1] < b) /\ ~(b < pb[1])
    BY <2>1, <2>2, <1>3, <1>6
  <2> QED
    BY <2>1, <2>3
<1>8. Place(b, i) \in 1..all
  <2>1. b \in R /\ Rank(R, b) \in Nat /\ Cardinality(R) \in Nat
    BY <1>1, <1>3, RankType, Sizes, Zenon DEF R
  <2>2. Rank(R, b) < Cardinality(R)
    BY <2>1, <1>1, RankBelow, Sizes, Zenon
  <2>3. BlockSize * Rank(R, b) + BlockSize <= all /\ BlockSize * Rank(R, b) \in Nat /\ all \in Nat
    BY <2>1, <2>2, MoreBlocks, Sizes, Zenon
  <2>4. Place(b, i) = BlockSize * Rank(R, b) + i
    BY <2>1, <1>2
  <2> HIDE DEF all
  <2> QED
    BY <2>3, <2>4, Sizes
<1> QED
  BY <1>6, <1>7, <1>8 DEF mtd_read_data, R, from, pb

\* What mtd_read_data() returns is a sequence of chunks of blocks that are read.
LEMMA ReadFrom ==
    ASSUME bad \in SUBSET Block, NEW n \in Nat
    PROVE  /\ Len(mtd_read_data(n)) \in Nat /\ Len(mtd_read_data(n)) <= n
           /\ DOMAIN mtd_read_data(n) = 1..Len(mtd_read_data(n))
           /\ \A k \in DOMAIN mtd_read_data(n) :
                 \E b \in Readable, i \in 1..BlockSize :
                     Place(b, i) = k /\ mtd_read_data(n)[k] = flash[b][i]
<1> DEFINE R == Readable
           all == BlockSize * Cardinality(R)
           m == IF n < all THEN n ELSE all
<1>1. R \in SUBSET (1..Blocks) /\ Cardinality(R) \in Nat
  <2>1. R \in SUBSET (1..Blocks)
    BY Sizes DEF Readable
  <2> QED
    BY <2>1, Sizes, RankType, Zenon
<1>2. all \in Nat /\ m \in Nat /\ m <= n /\ m <= all
  BY <1>1, Sizes
<1>3. DOMAIN mtd_read_data(n) = 1..m
  BY DEF mtd_read_data
<1>4. Len(mtd_read_data(n)) = m
  <2>1. \E d : mtd_read_data(n) = [k \in 1..m |-> d[k]]
    <3> DEFINE from(k) == CHOOSE p \in Readable \X (1..BlockSize) : Place(p[1], p[2]) = k
    <3> WITNESS [k \in 1..m |-> flash[from(k)[1]][from(k)[2]]]
    <3> QED
      BY DEF mtd_read_data
  <2> HIDE DEF m
  <2> QED
    BY <2>1, <1>2
<1>5. ASSUME NEW k \in 1..m
      PROVE  \E b \in R, i \in 1..BlockSize : Place(b, i) = k
  <2> HIDE DEF R
  <2>1. k \in Nat \ {0} /\ k <= all
    BY <1>2
  <2>2. PICK q \in Nat, i \in 1..BlockSize : BlockSize * q + i = k
    BY <2>1, SomePlace, Sizes, Zenon
  <2>3. q < Cardinality(R)
    <3> SUFFICES ASSUME ~(q < Cardinality(R)) PROVE FALSE
      OBVIOUS
    <3>1. all <= BlockSize * q
      <4>1. CASE q = Cardinality(R)
        BY <4>1, <1>1, Sizes
      <4>2. CASE Cardinality(R) < q
        <5>1. BlockSize * Cardinality(R) + BlockSize <= BlockSize * q /\ BlockSize * q \in Nat
          BY <4>2, <1>1, MoreBlocks, Sizes, Zenon
        <5> QED
          BY <5>1, <1>2, Sizes
      <4> QED
        BY <4>1, <4>2, <1>1
    <3>2. BlockSize * q \in Nat /\ i \in Nat \ {0}
      BY Sizes
    <3> QED
      BY <3>1, <3>2, <2>1, <2>2, <1>2
  <2>4. PICK b \in R : Rank(R, b) = q
    BY <2>3, <1>1, Sizes, RankReached, Zenon
  <2>5. Place(b, i) = k
    BY <2>2, <2>4 DEF Place, Rank, Before, R
  <2> QED
    BY <2>5
<1>6. ASSUME NEW k \in 1..m, NEW b \in R, NEW i \in 1..BlockSize, Place(b, i) = k
      PROVE  mtd_read_data(n)[k] = flash[b][i]
  <2>1. Place(b, i) <= n
    BY <1>2, <1>6
  <2> QED
    BY <2>1, <1>6, ReadAt
<1> HIDE DEF R, m
<1>7. \A k \in 1..m : \E b \in R, i \in 1..BlockSize :
          Place(b, i) = k /\ mtd_read_data(n)[k] = flash[b][i]
  BY <1>5, <1>6, Zenon
<1> QED
  BY <1>2, <1>3, <1>4, <1>7 DEF R

-----------------------------------------------------------------------------
(* The invariant.  g is the set of the good blocks, f the flash, c the MtdWriteContext. *)

InFlash(g, f) == g \in SUBSET Block /\ f \in [Block -> Chunk]

\* Block b has its part of the image.
Part(g, f, b) ==
    \A i \in 1..BlockSize :
        BlockSize * Rank(g, b) + i <= Len(Image) => f[b][i] = Image[BlockSize * Rank(g, b) + i]

\* The blocks before p, except the first one, have their parts.
Follows(g, f, p) ==
    \A b \in g : b < p /\ Rank(g, b) > 0 /\ BlockSize * Rank(g, b) < Len(Image) => Part(g, f, b)

\* The block holds a beginning of the image.
Begun(x) ==
    \E n \in 1..BlockSize, rest \in {"erased", "garbage"} :
        \A k \in 1..BlockSize : x[k] = IF k <= n THEN Image[k] ELSE rest

\* No block begins with the header; the first one is read and does not; the image is
\* complete after the first block, which is read, and begun in it if the header is there.
Untouched(g, f) == \A b \in g : f[b][1] # Image[1]
Differs(g, f) == \A b \in g : Rank(g, b) = 0 => ~AllZero(f[b]) /\ f[b][1] # Image[1]
Complete(g, f) ==
    /\ Len(Image) <= BlockSize * Cardinality(g) /\ Follows(g, f, Blocks + 1)
    /\ \A b \in g : Rank(g, b) = 0 => ~AllZero(f[b]) /\ (f[b][1] = Image[1] => Begun(f[b]))

Sound(g, f) == Untouched(g, f) \/ Differs(g, f) \/ Complete(g, f)

InBlock(c) == c.st \in {"erase", "write"}
Pos(c) == IF InBlock(c) THEN c.pos ELSE c.cur

Context(g, c) ==
    /\ c \in [st : {"closed", "open", "erase", "write", "failed"}, cur : 1..(Blocks + 1),
              pos : 0..Blocks, stored : Seq(Word), retry : {0, 1}]
    /\ InBlock(c) => c.pos \in g /\ Len(c.stored) = BlockSize /\ ~AllZero(c.stored)
    /\ c.st = "open" => Len(c.stored) < BlockSize

\* The chunks that are stored are those of the image, with zeros for the header.
Stored(g, c) ==
    /\ \A i \in 1..Len(c.stored) :
          BlockSize * Rank(g, Pos(c)) + i \in 2..Len(Image) =>
              c.stored[i] = Image[BlockSize * Rank(g, Pos(c)) + i]
    /\ Rank(g, Pos(c)) = 0 /\ c.stored # <<>> => c.stored[1] = "zero"

\* All but the header is being written, n is the next chunk.
InWrite(g, f, c, n) ==
    /\ n \in 1..(Len(Image) + 1)
    /\ c.st # "failed" =>
          /\ Stored(g, c) /\ Follows(g, f, Pos(c))
          /\ n <= BlockSize * Rank(g, Pos(c)) + Len(c.stored) + 1
          /\ n <= Len(Image) \/ (c.st = "open" /\ c.stored # <<>>) =>
                n = BlockSize * Rank(g, Pos(c)) + Len(c.stored) + 1
          /\ Rank(g, Pos(c)) > 0 \/ c.st = "write" => Differs(g, f)

\* The first block is being written again.
InHeader(g, f, c, n) ==
    /\ n \in 1..(BlockSize + 1) /\ Complete(g, f)
    /\ c.st # "failed" =>
          \/ c.st = "open" /\ c.stored = <<>> /\ (n = BlockSize + 1 \/ (n = 1 /\ c.cur = 1))
          \/ /\ c.stored # <<>> /\ Rank(g, Pos(c)) = 0 /\ n = Len(c.stored) + 1
             /\ \A i \in 1..Len(c.stored) : c.stored[i] = Image[i]

Writes(g, f, c, p) ==
    /\ InFlash(g, f) /\ Sound(g, f) /\ Context(g, c)
    /\ p \in [pc : {"start", "write", "header", "done", "died"}, next : Nat]
    /\ c.st = "closed" <=> p.pc \in {"start", "done", "died"}
    /\ p.pc = "write" => InWrite(g, f, c, p.next)
    /\ p.pc = "header" => InHeader(g, f, c, p.next)

\* A partition without the header of the image at its beginning reads so.
LEMMA OtherHeader ==
    ASSUME InFlash(Good, flash), Untouched(Good, flash) \/ Differs(Good, flash), bad \in SUBSET Block
    PROVE  mtd_read_data(1) # <<Image[1]>>
<1> SUFFICES ASSUME mtd_read_data(1) = <<Image[1]>> PROVE FALSE
  OBVIOUS
<1> DEFINE R == Readable
<1>1. R \in SUBSET (1..Blocks) /\ Good \in SUBSET (1..Blocks) /\ R \subseteq Good
  BY Sizes DEF Readable, Good
<1>2. PICK b \in R, i \in 1..BlockSize : Place(b, i) = 1 /\ Image[1] = flash[b][i]
  <2>1. 1 \in Nat /\ 1 \in DOMAIN mtd_read_data(1) /\ mtd_read_data(1)[1] = Image[1]
    OBVIOUS
  <2>2. \E b \in R, i \in 1..BlockSize : Place(b, i) = 1 /\ mtd_read_data(1)[1] = flash[b][i]
    BY <2>1, ReadFrom, Zenon
  <2> QED
    BY <2>1, <2>2, Zenon
<1>3. b \in Nat /\ Rank(R, b) \in Nat
  <2>1. b \in Nat
    BY <1>1
  <2> QED
    BY <2>1, <1>1, RankType, Sizes, Zenon
<1>4. Rank(R, b) = 0 /\ i = 1
  <2>1. BlockSize * Rank(R, b) + i = BlockSize * 0 + 1
    BY <1>2, Sizes DEF Place, Rank, Before
  <2> QED
    BY <2>1, <1>3, OnePlace, Sizes
<1>5. flash[b][1] = Image[1]
  BY <1>2, <1>4
<1>6. CASE Untouched(Good, flash)
  BY <1>1, <1>5, <1>6 DEF Untouched
<1>7. CASE Differs(Good, flash)
  <2>1. PICK a \in Good : \A c \in Good : a <= c
    <3>1. Good \subseteq Nat /\ Good # {}
      BY <1>1
    <3> QED
      BY <3>1, LeastNumber, Zenon
  <2>2. Rank(Good, a) = 0
    <3>1. \A c \in Good : ~(c < a)
      BY <2>1, <1>1
    <3>2. Before(Good, a) = {}
      BY <3>1, Zenon DEF Before
    <3> QED
      BY <3>2, FS_EmptySet DEF Rank
  <2>3. a \in R /\ flash[a][1] # Image[1]
    BY <2>2, <1>7, Zenon DEF Differs, Readable, Good
  <2>4. a # b
    BY <2>3, <1>5
  <2>5. a < b
    BY <2>1, <2>4, <1>1
  <2>6. Rank(R, a) < Rank(R, b)
    BY <2>3, <2>5, <1>1, <1>3, RankLess, Sizes, Zenon
  <2>7. Rank(R, a) \in Nat
    <3>1. a \in Nat
      BY <2>3, <1>1
    <3> QED
      BY <3>1, <1>1, RankType, Sizes, Zenon
  <2> QED
    BY <2>6, <2>7, <1>4
<1> QED
  BY <1>6, <1>7

\* A block of the image is not skipped.
LEMMA NotZero ==
    ASSUME BlockSize < Len(Image), NEW q \in Nat, BlockSize * q < Len(Image), NEW d,
           \A i \in 1..BlockSize : BlockSize * q + i \in 2..Len(Image) => d[i] = Image[BlockSize * q + i]
    PROVE  ~AllZero(d)
<1>1. q \in 0..Len(Image)
  <2>1. \A x \in Nat \ {0}, y \in Nat : y <= x * y /\ x * y \in Nat
    OBVIOUS
  <2>2. q <= BlockSize * q /\ BlockSize * q \in Nat
    BY <2>1, Sizes, Zenon
  <2> QED
    BY <2>2, Sizes, SMTT(30)
<1>2. PICK i \in 1..BlockSize : BlockSize * q + i \in 2..Len(Image) /\ Image[BlockSize * q + i] # "zero"
  BY <1>1, MtdAssumption, Zenon
<1> QED
  BY <1>2 DEF AllZero

\* The rank of a block before another.
LEMMA RankOrder ==
    ASSUME NEW g \in SUBSET Block, NEW p \in Nat, NEW b \in g
    PROVE  /\ b \in Nat /\ Rank(g, b) \in Nat /\ Rank(g, p) \in Nat
           /\ Rank(g, b) < Rank(g, p) <=> b < p
<1>1. g \in SUBSET (1..Blocks) /\ b \in Nat
  BY Sizes
<1>2. Rank(g, b) \in Nat /\ Rank(g, p) \in Nat
  BY <1>1, RankType, Sizes, Zenon
<1>3. b < p => Rank(g, b) < Rank(g, p)
  BY <1>1, RankLess, Sizes, Zenon
<1>4. p <= b => Rank(g, p) <= Rank(g, b)
  <2> HAVE p <= b
  <2>1. \A c \in g : c < p => c < b
    BY <1>1
  <2>2. Before(g, p) \subseteq Before(g, b)
    BY <2>1, Zenon DEF Before
  <2>3. IsFiniteSet(Before(g, b))
    BY <1>1, RankType, Sizes, Zenon
  <2> QED
    BY <2>2, <2>3, FS_Subset DEF Rank
<1> QED
  BY <1>1, <1>2, <1>3, <1>4

\* What comes out at k is a chunk of the good block that has it, if the good blocks before it are read.
LEMMA BlockAt ==
    ASSUME bad \in SUBSET Block, NEW n \in Nat, n <= BlockSize * Cardinality(Good),
           \A b \in Good : BlockSize * Rank(Good, b) < n => b \in Readable, NEW k \in 1..n
    PROVE  /\ k \in DOMAIN mtd_read_data(n)
           /\ \E b \in Good, i \in 1..BlockSize :
                 /\ BlockSize * Rank(Good, b) < n /\ BlockSize * Rank(Good, b) + i = k
                 /\ mtd_read_data(n)[k] = flash[b][i]
<1> DEFINE R == Readable
           G == Good
<1>1. R \in SUBSET (1..Blocks) /\ G \in SUBSET Block /\ G \in SUBSET (1..Blocks) /\ R \subseteq G
  BY Sizes DEF Readable, Good
<1>2. Cardinality(G) \in Nat /\ \A b \in G : b \in Nat /\ Rank(G, b) \in Nat
  <2>1. \A b \in G : b \in Nat
    BY <1>1
  <2> QED
    BY <2>1, <1>1, RankType, Sizes, Zenon
<1>3. n <= BlockSize * Cardinality(G) /\ \A b \in G : BlockSize * Rank(G, b) < n => b \in R
  BY Zenon
<1> HIDE DEF G, R
<1>4. PICK q \in Nat, i \in 1..BlockSize : BlockSize * q + i = k
  <2>1. k \in Nat \ {0}
    OBVIOUS
  <2> QED
    BY <2>1, SomePlace, Sizes, Zenon
<1>5. BlockSize * q \in Nat /\ BlockSize * q < n /\ i \in Nat \ {0}
  BY <1>4, Sizes
<1>6. q < Cardinality(G)
  <2> SUFFICES ASSUME ~(q < Cardinality(G)) PROVE FALSE
    OBVIOUS
  <2>1. BlockSize * Cardinality(G) <= BlockSize * q
    <3>1. CASE q = Cardinality(G)
      BY <3>1, <1>5
    <3>2. CASE Cardinality(G) < q
      <4>1. BlockSize * Cardinality(G) + BlockSize <= BlockSize * q /\ BlockSize * Cardinality(G) \in Nat
        BY <3>2, <1>2, MoreBlocks, Sizes, Zenon
      <4> QED
        BY <4>1, <1>5, Sizes
    <3> QED
      BY <3>1, <3>2, <1>2
  <2>2. BlockSize * Cardinality(G) \in Nat
    BY <1>2, Sizes
  <2> QED
    BY <1>3, <1>5, <2>1, <2>2
<1>7. PICK b \in G : Rank(G, b) = q
  BY <1>6, <1>1, Sizes, RankReached, Zenon
<1>8. Before(R, b) = Before(G, b)
  <2>1. ASSUME NEW c \in G, c < b PROVE c \in R
    <3>1. Rank(G, c) < q
      <4>1. b \in Nat
        BY <1>2
      <4> QED
        BY <4>1, <1>1, <1>7, <2>1, RankLess, Sizes, Zenon
    <3>2. BlockSize * Rank(G, c) + BlockSize <= BlockSize * q /\ BlockSize * Rank(G, c) \in Nat
      BY <3>1, <1>2, MoreBlocks, Sizes, Zenon
    <3>3. BlockSize * Rank(G, c) < n
      BY <3>2, <1>5, Sizes
    <3> QED
      BY <3>3, <1>3
  <2> QED
    BY <2>1, <1>1, Zenon DEF Before
<1>9. b \in R /\ Place(b, i) = k
  <2>1. b \in R
    BY <1>3, <1>5, <1>7
  <2>2. Place(b, i) = BlockSize * Rank(R, b) + i
    BY DEF Place, Rank, Before, R
  <2>3. Rank(R, b) = q
    BY <1>7, <1>8 DEF Rank
  <2> QED
    BY <2>1, <2>2, <2>3, <1>4
<1>10. k \in DOMAIN mtd_read_data(n) /\ mtd_read_data(n)[k] = flash[b][i]
  <2>1. Place(b, i) <= n /\ b \in Readable
    BY <1>9 DEF R
  <2> QED
    BY <2>1, <1>9, ReadAt
<1>11. b \in Good /\ BlockSize * Rank(Good, b) < n /\ BlockSize * Rank(Good, b) + i = k
  BY <1>4, <1>5, <1>7 DEF G
<1> QED
  BY <1>10, <1>11, Zenon

\* A partition that is complete after its first block reads so.
LEMMA CompleteRead ==
    ASSUME InFlash(Good, flash), Complete(Good, flash), bad \in SUBSET Block, BlockSize < Len(Image),
           NEW k \in 1..Len(Image)
    PROVE  /\ k \in DOMAIN mtd_read_data(Len(Image))
           /\ BlockSize < k => mtd_read_data(Len(Image))[k] = Image[k]
           /\ k <= BlockSize =>
                 \E b \in Readable : Rank(Good, b) = 0 /\ mtd_read_data(Len(Image))[k] = flash[b][k]
<1> DEFINE G == Good
<1>1. G \in SUBSET (1..Blocks) /\ Len(Image) \in Nat /\ Len(Image) <= BlockSize * Cardinality(G)
  BY Sizes DEF Complete, Good
<1>2. \A b \in G : b < Blocks + 1 /\ Rank(G, b) \in Nat
  <2>1. \A b \in G : b \in Nat /\ b < Blocks + 1
    BY <1>1, Sizes
  <2> QED
    BY <2>1, <1>1, RankType, Sizes, Zenon
<1>3. ASSUME NEW b \in Good, BlockSize * Rank(Good, b) < Len(Image)
      PROVE  b \in Readable
  <2>1. CASE Rank(Good, b) = 0
    BY <2>1, Zenon DEF Complete, Readable, Good
  <2>2. CASE Rank(Good, b) # 0
    <3>1. Rank(Good, b) > 0 /\ b < Blocks + 1 /\ Rank(Good, b) \in Nat
      BY <2>2, <1>2
    <3>2. Part(Good, flash, b)
      BY <3>1, <1>3 DEF Complete, Follows
    <3>3. \A i \in 1..BlockSize : BlockSize * Rank(Good, b) + i \in 2..Len(Image) =>
              flash[b][i] = Image[BlockSize * Rank(Good, b) + i]
      BY <3>2, Sizes DEF Part
    <3>4. ~AllZero(flash[b])
      BY <3>1, <3>3, <1>3, NotZero
    <3> QED
      BY <3>4 DEF Readable, Good
  <2> QED
    BY <2>1, <2>2
<1>4. /\ k \in DOMAIN mtd_read_data(Len(Image))
      /\ \E b \in Good, i \in 1..BlockSize :
            /\ BlockSize * Rank(Good, b) < Len(Image) /\ BlockSize * Rank(Good, b) + i = k
            /\ mtd_read_data(Len(Image))[k] = flash[b][i]
  BY <1>1, <1>3, BlockAt
<1>5. PICK b \in Good, i \in 1..BlockSize :
          /\ BlockSize * Rank(Good, b) < Len(Image) /\ BlockSize * Rank(Good, b) + i = k
          /\ mtd_read_data(Len(Image))[k] = flash[b][i]
  BY <1>4
<1>6. BlockSize < k => flash[b][i] = Image[k]
  <2> HAVE BlockSize < k
  <2>1. Rank(Good, b) > 0
    <3> SUFFICES ASSUME Rank(Good, b) = 0 PROVE FALSE
      BY <1>2
    <3>1. BlockSize * Rank(Good, b) = 0
      BY Sizes
    <3> QED
      BY <3>1, <1>5, Sizes
  <2>2. Part(Good, flash, b)
    BY <2>1, <1>2, <1>5 DEF Complete, Follows
  <2> QED
    BY <2>2, <1>5 DEF Part
<1>7. ASSUME k <= BlockSize PROVE Rank(Good, b) = 0 /\ i = k /\ b \in Readable
  <2>1. Rank(Good, b) \in Nat /\ BlockSize * Rank(Good, b) + i = BlockSize * 0 + k /\ k \in 1..BlockSize
    BY <1>2, <1>5, <1>7, Sizes
  <2>2. Rank(Good, b) = 0 /\ i = k
    <3>1. \A q, x \in Nat, j, y \in 1..BlockSize :
              BlockSize * q + j = BlockSize * x + y => q = x /\ j = y
      BY OnePlace, Sizes, Zenon
    <3> DEFINE q == Rank(Good, b)
    <3>2. q \in Nat /\ 0 \in Nat /\ i \in 1..BlockSize /\ k \in 1..BlockSize /\ BlockSize * q + i = BlockSize * 0 + k
      BY <2>1
    <3> HIDE DEF q
    <3>3. q = 0 /\ i = k
      BY <3>1, <3>2
    <3> QED
      BY <3>3 DEF q
  <2> QED
    BY <2>2, <1>3, <1>5
<1> QED
  BY <1>4, <1>5, <1>6, <1>7

\* Two good blocks of rank 0 are the same.
LEMMA OneFirst ==
    ASSUME NEW g \in SUBSET Block, NEW a \in g, NEW b \in g, Rank(g, a) = 0, Rank(g, b) = 0
    PROVE  a = b
<1>1. g \in SUBSET (1..Blocks) /\ a \in Nat /\ b \in Nat
  BY Sizes
<1>2. (a < b => Rank(g, a) < Rank(g, b)) /\ (b < a => Rank(g, b) < Rank(g, a))
  BY <1>1, RankLess, Sizes, Zenon
<1> QED
  BY <1>1, <1>2

\* A sound partition that begins with the header goes on with the image, but for the rest of
\* a first block that was only begun.
LEMMA SoundRead ==
    ASSUME BlockSize < Len(Image), InFlash(Good, flash), Sound(Good, flash), bad \in SUBSET Block,
           mtd_read_data(1) = <<Image[1]>>
    PROVE  \E n \in 1..BlockSize, rest \in {"erased", "garbage"} :
               mtd_read_data(Len(Image))
                   = [k \in 1..Len(Image) |-> IF n < k /\ k <= BlockSize THEN rest ELSE Image[k]]
<1> DEFINE l == Len(Image)
           r == mtd_read_data(l)
<1>1. l \in Nat \ {0} /\ BlockSize \in Nat \ {0} /\ Good \in SUBSET Block
  BY Sizes DEF InFlash
<1>2. Complete(Good, flash)
  BY OtherHeader DEF Sound
<1>3. \A k \in 1..l :
          /\ k \in DOMAIN r
          /\ BlockSize < k => r[k] = Image[k]
          /\ k <= BlockSize => \E b \in Readable : Rank(Good, b) = 0 /\ r[k] = flash[b][k]
  BY <1>2, CompleteRead
<1>4. DOMAIN r = 1..l /\ r = [k \in 1..l |-> r[k]]
  <2>1. Len(r) \in Nat /\ Len(r) <= l /\ DOMAIN r = 1..Len(r)
    BY <1>1, ReadFrom
  <2>2. l \in DOMAIN r
    BY <1>1, <1>3
  <2>3. Len(r) = l
    BY <1>1, <2>1, <2>2
  <2>4. DOMAIN r = 1..l
    BY <2>1, <2>3
  <2>5. r = [k \in DOMAIN r |-> r[k]]
    BY DEF mtd_read_data
  <2> QED
    BY <2>4, <2>5
<1>5. PICK b \in Readable : Rank(Good, b) = 0 /\ r[1] = flash[b][1]
  <2>1. 1 \in 1..l /\ 1 <= BlockSize
    BY <1>1
  <2> QED
    BY <1>3, <2>1
<1>6. b \in Good /\ Readable \subseteq Good
  BY DEF Readable, Good
<1>7. flash[b][1] = Image[1]
  <2>1. Rank(Readable, b) = 0
    <3>1. Before(Readable, b) \subseteq Before(Good, b) /\ IsFiniteSet(Before(Good, b)) /\ Cardinality(Before(Good, b)) = 0
      <4>1. Before(Readable, b) \subseteq Before(Good, b)
        BY <1>6, Zenon DEF Before
      <4>2. b \in Nat /\ Good \in SUBSET (1..Blocks)
        BY <1>1, <1>6, Sizes
      <4>3. IsFiniteSet(Before(Good, b))
        BY <4>2, RankType, Sizes, Zenon
      <4> QED
        BY <1>5, <4>1, <4>3 DEF Rank
    <3>2. Before(Good, b) = {}
      BY <3>1, FS_EmptySet
    <3>3. Before(Readable, b) = {}
      BY <3>1, <3>2
    <3> QED
      BY <3>3, FS_EmptySet DEF Rank
  <2>2. Place(b, 1) = 1
    <3>1. Place(b, 1) = BlockSize * Rank(Readable, b) + 1
      BY DEF Place, Rank, Before
    <3> QED
      BY <2>1, <3>1, <1>1
  <2>3. 1 \in Nat /\ 1 \in 1..BlockSize /\ Place(b, 1) <= 1
    BY <2>2, <1>1
  <2>4. mtd_read_data(1)[Place(b, 1)] = flash[b][1]
    BY <2>3, ReadAt
  <2> QED
    BY <2>2, <2>4
<1>8. PICK n \in 1..BlockSize, rest \in {"erased", "garbage"} :
          \A k \in 1..BlockSize : flash[b][k] = IF k <= n THEN Image[k] ELSE rest
  BY <1>2, <1>5, <1>6, <1>7, Zenon DEF Complete, Begun
<1> HIDE DEF r, l
<1>9. ASSUME NEW k \in 1..l PROVE r[k] = IF n < k /\ k <= BlockSize THEN rest ELSE Image[k]
  <2>1. CASE BlockSize < k
    <3>1. r[k] = Image[k] /\ ~(k <= BlockSize)
      BY <1>1, <1>3, <2>1
    <3> QED
      BY <3>1
  <2>2. CASE k <= BlockSize
    <3>1. k \in 1..BlockSize /\ (n < k <=> ~(k <= n))
      BY <1>1, <2>2
    <3>2. PICK a \in Readable : Rank(Good, a) = 0 /\ r[k] = flash[a][k]
      BY <1>3, <2>2
    <3>3. a = b
      BY <1>1, <1>5, <1>6, <3>2, OneFirst
    <3> QED
      BY <1>8, <2>2, <3>1, <3>2, <3>3
  <2> QED
    BY <1>1, <2>1, <2>2
<1>10. r = [k \in 1..l |-> IF n < k /\ k <= BlockSize THEN rest ELSE Image[k]]
  BY <1>4, <1>9, Zenon
<1> QED
  BY <1>10, Zenon DEF r, l

-----------------------------------------------------------------------------
(* One block changes. *)

\* Good, as a set of blocks.
LEMMA GoodBlocks == bad \in SUBSET Block => Good \in SUBSET Block
  BY DEF Good

\* The blocks that write_block() looks at next: it passes only blocks that are bad.
LEMMA NextGoodIs ==
    ASSUME bad \in SUBSET Block, NEW p \in 1..(Blocks + 1)
    PROVE  \/ NextGood(p) = Blocks + 1
           \/ /\ NextGood(p) \in Good /\ NextGood(p) <= Blocks
              /\ \A b \in Good : b < NextGood(p) <=> b < p
              /\ Rank(Good, NextGood(p)) = Rank(Good, p)
<1> DEFINE good == {b \in Block \ bad : b >= p}
<1>1. good \subseteq Nat /\ \A b \in Good : b \in 1..Blocks
  BY Sizes DEF Good
<1>2. CASE good = {}
  BY <1>2 DEF NextGood
<1>3. CASE good # {}
  <2>1. PICK m \in good : \A c \in good : m <= c
    BY <1>1, <1>3, LeastNumber, Zenon
  <2>2. NextGood(p) = CHOOSE b \in good : \A c \in good : b <= c
    BY <1>3 DEF NextGood
  <2> DEFINE n == NextGood(p)
  <2>3. n \in good /\ \A c \in good : n <= c
    BY <2>1, <2>2, Zenon
  <2> HIDE DEF n
  <2>4. n \in Good /\ n >= p /\ \A c \in Good : c >= p => n <= c
    BY <2>3 DEF Good
  <2>5. \A b \in Good : b < n <=> b < p
    BY <2>4, <1>1, Sizes
  <2>6. Before(Good, n) = Before(Good, p)
    BY <2>5, Zenon DEF Before
  <2>7. n <= Blocks
    BY <2>4, <1>1
  <2> QED
    BY <2>4, <2>5, <2>6, <2>7 DEF Rank, n
<1> QED
  BY <1>2, <1>3

\* A block of the flash is replaced.
Put(f, p, d) == [f EXCEPT ![p] = d]

\* Replacing a good block leaves a flash, and the other good blocks as they were.
LEMMA OneBlock ==
    ASSUME NEW g, NEW f, InFlash(g, f), NEW p \in g, NEW d \in Chunk
    PROVE  /\ InFlash(g, Put(f, p, d)) /\ Put(f, p, d)[p] = d
           /\ \A b \in g \ {p} : Put(f, p, d)[b] = f[b]
  BY Zenon DEF InFlash, Put

\* It is the first good block, or the first good block stays as it is.
LEMMA DiffersKept ==
    ASSUME NEW g, NEW f, InFlash(g, f), NEW p \in g, NEW d \in Chunk,
           Rank(g, p) = 0 => ~AllZero(d) /\ d[1] # Image[1],
           Rank(g, p) = 0 \/ Differs(g, f)
    PROVE  Differs(g, Put(f, p, d))
<1>1. g \in SUBSET Block
  BY DEF InFlash
<1>2. \A b \in g : Rank(g, b) = 0 /\ Rank(g, p) = 0 => b = p
  <2> SUFFICES ASSUME NEW b \in g, Rank(g, b) = 0, Rank(g, p) = 0 PROVE b = p
    OBVIOUS
  <2>1. b \in Nat /\ p \in Nat
    BY <1>1, Sizes
  <2>2. ~(b < p) /\ ~(p < b)
    BY <1>1, <2>1, RankOrder
  <2> QED
    BY <2>1, <2>2
<1>3. /\ Put(f, p, d)[p] = d
      /\ \A b \in g \ {p} : Put(f, p, d)[b] = f[b]
  BY OneBlock
<1> QED
  BY <1>2, <1>3 DEF Differs

\* The blocks before it stay as they are.
LEMMA FollowsKept ==
    ASSUME NEW g, NEW f, InFlash(g, f), NEW p \in g, NEW d \in Chunk, NEW q \in Nat,
           q <= p \/ Rank(g, p) = 0, Follows(g, f, q)
    PROVE  Follows(g, Put(f, p, d), q)
<1> SUFFICES ASSUME NEW b \in g, b < q, Rank(g, b) > 0, BlockSize * Rank(g, b) < Len(Image)
             PROVE  Part(g, Put(f, p, d), b)
  BY Zenon DEF Follows
<1>1. b # p
  <2>1. b \in Nat /\ p \in Nat
    BY Sizes DEF InFlash
  <2>2. Rank(g, p) = 0 => b # p
    OBVIOUS
  <2> QED
    BY <2>1, <2>2
<1>2. Put(f, p, d)[b] = f[b]
  BY <1>1, OneBlock
<1>3. Part(g, f, b)
  BY DEF Follows
<1> QED
  BY <1>2, <1>3, Zenon DEF Part

\* The image stays complete while the first block changes.
LEMMA CompleteKept ==
    ASSUME NEW g, NEW f, InFlash(g, f), NEW p \in g, NEW d \in Chunk, Rank(g, p) = 0, ~AllZero(d),
           d[1] = Image[1] => Begun(d), Complete(g, f)
    PROVE  Complete(g, Put(f, p, d))
<1>1. Follows(g, Put(f, p, d), Blocks + 1)
  <2>1. Blocks + 1 \in Nat
    BY Sizes
  <2> QED
    BY <2>1, FollowsKept, Zenon DEF Complete
<1>2. /\ Put(f, p, d)[p] = d
      /\ \A b \in g \ {p} : Put(f, p, d)[b] = f[b]
  BY OneBlock
<1> QED
  BY <1>1, <1>2, Zenon DEF Complete

\* What a block may hold.
LEMMA BlockContents ==
    /\ Erased \in Chunk /\ ~AllZero(Erased) /\ Erased[1] # Image[1]
    /\ Garbage \in Chunk /\ ~AllZero(Garbage) /\ Garbage[1] # Image[1]
    /\ Image[1] # "zero" /\ Image[1] # "erased"
<1>1. 1 \in 1..BlockSize /\ Image[1] \notin {"zero", "erased", "garbage"}
  BY MtdAssumption, Sizes
<1>2. Erased \in Chunk /\ Erased[1] = "erased"
  <2>1. "erased" \in Word
    BY DEF Word
  <2> QED
    BY <1>1, <2>1, Zenon DEF Erased, Chunk
<1>3. Garbage \in Chunk /\ Garbage[1] = "garbage"
  <2>1. "garbage" \in Word
    BY DEF Word
  <2> QED
    BY <1>1, <2>1, Zenon DEF Garbage, Chunk
<1> QED
  BY <1>1, <1>2, <1>3, Zenon DEF AllZero

-----------------------------------------------------------------------------
(* The context. *)

CtxType ==
    [st : {"closed", "open", "erase", "write", "failed"}, cur : 1..(Blocks + 1),
     pos : 0..Blocks, stored : Seq(Word), retry : {0, 1}]

\* The contexts that mtd_write_partition() and mtd_write_close() leave.
LEMMA NewContext ==
    ASSUME NEW g
    PROVE  /\ Context(g, Closed) /\ Closed.st = "closed"
           /\ Context(g, mtd_write_partition)
           /\ mtd_write_partition.st = "open" /\ mtd_write_partition.cur = 1 /\ mtd_write_partition.stored = <<>>
<1>1. 1 \in 1..(Blocks + 1) /\ 0 \in 0..Blocks /\ BlockSize > 0
  BY Sizes
<1>2. <<>> \in Seq(Word) /\ Len(<<>>) = 0
  OBVIOUS
<1>3. Closed \in CtxType /\ Closed.st = "closed"
  BY <1>1, <1>2 DEF Closed, CtxType
<1>4. /\ mtd_write_partition \in CtxType
      /\ mtd_write_partition.st = "open" /\ mtd_write_partition.cur = 1 /\ mtd_write_partition.stored = <<>>
  BY <1>1, <1>2, Zenon DEF Closed, mtd_write_partition, CtxType
<1> QED
  BY <1>1, <1>2, <1>3, <1>4 DEF Context, CtxType, InBlock

\* The fields of a context.
LEMMA ContextFields ==
    ASSUME NEW c \in CtxType
    PROVE  /\ c.st \in {"closed", "open", "erase", "write", "failed"} /\ c.cur \in 1..(Blocks + 1)
           /\ c.pos \in 0..Blocks /\ c.stored \in Seq(Word) /\ c.retry \in {0, 1}
  BY DEF CtxType

\* write_block() is entered with a full block.
LEMMA TryBlockIs ==
    ASSUME bad \in SUBSET Block, NEW c \in CtxType, Len(c.stored) = BlockSize, ~AllZero(c.stored), NEW d,
           d = TryBlock(c, c.cur)
    PROVE  /\ Context(Good, d) /\ d.st \in {"failed", "erase"} /\ d.stored = c.stored
           /\ d.st = "erase" => /\ Rank(Good, Pos(d)) = Rank(Good, c.cur)
                                /\ \A b \in Good : b < Pos(d) <=> b < c.cur
<1>0. c.cur \in 1..(Blocks + 1) /\ Blocks \in Nat
  BY ContextFields, Sizes
<1> DEFINE n == NextGood(c.cur)
<1>1. CASE n > Blocks
  <2>1. d = [c EXCEPT !.st = "failed", !.retry = 0]
    BY <1>1 DEF TryBlock
  <2>2. d \in CtxType /\ d.st = "failed" /\ d.stored = c.stored
    BY <2>1, Zenon DEF CtxType
  <2> QED
    BY <2>2 DEF Context, CtxType, InBlock
<1>2. CASE ~(n > Blocks)
  <2>1. n \in Good /\ n <= Blocks /\ (\A b \in Good : b < n <=> b < c.cur) /\ Rank(Good, n) = Rank(Good, c.cur)
    <3>1. n # Blocks + 1
      BY <1>0, <1>2
    <3> QED
      BY <1>0, <3>1, NextGoodIs
  <2>2. n \in 0..Blocks
    BY <2>1, Sizes DEF Good
  <2>3. d = [c EXCEPT !.st = "erase", !.pos = n, !.retry = 0]
    BY <1>2, Zenon DEF TryBlock
  <2> HIDE DEF n
  <2>4. d \in CtxType /\ d.st = "erase" /\ d.stored = c.stored /\ d.pos = n
    BY <2>2, <2>3, Zenon DEF CtxType
  <2>5. Context(Good, d) /\ Pos(d) = n
    BY <2>1, <2>4 DEF Context, CtxType, InBlock, Pos
  <2> QED
    BY <2>1, <2>4, <2>5
<1> QED
  BY <1>1, <1>2

\* What Writes says of a context and the place it is at.
LEMMA InWrites ==
    ASSUME NEW g, NEW f, NEW c, NEW p, Writes(g, f, c, p)
    PROVE  /\ g \in SUBSET Block /\ f \in [Block -> Chunk] /\ c \in CtxType
           /\ c.cur \in Nat /\ Pos(c) \in Nat /\ Len(c.stored) \in Nat /\ Rank(g, Pos(c)) \in Nat
           /\ BlockSize * Rank(g, Pos(c)) \in Nat /\ p.next \in Nat
<1>1. g \in SUBSET Block /\ f \in [Block -> Chunk] /\ c \in CtxType
  BY Zenon DEF Writes, InFlash, Context, CtxType
<1>2. c.cur \in Nat /\ c.pos \in Nat /\ Len(c.stored) \in Nat
  BY <1>1, ContextFields, Sizes
<1>3. Pos(c) \in Nat
  BY <1>2 DEF Pos
<1>4. Rank(g, Pos(c)) \in Nat
  BY <1>1, <1>3, RankType, Sizes, Zenon
<1>5. BlockSize * Rank(g, Pos(c)) \in Nat
  BY <1>4, Sizes
<1>6. p.next \in Nat
  BY DEF Writes
<1> QED
  BY <1>1, <1>2, <1>3, <1>4, <1>5, <1>6

\* What is stored in s is the image after its first m chunks, with zeros for the header.
Placed(m, s) ==
    /\ \A i \in 1..Len(s) : m + i \in 2..Len(Image) => s[i] = Image[m + i]
    /\ m = 0 /\ s # <<>> => s[1] = "zero"

\* Another chunk of the image is stored, at its place: s and t are what is stored before and after, m the
\* chunks of the blocks before.
LEMMA ChunkStored ==
    ASSUME NEW m \in Nat, NEW s \in Seq(Word), NEW x \in Word, Placed(m, s), NEW n, n = m + Len(s) + 1,
           n = 1 => x = "zero", n # 1 => x = Image[n]
    PROVE  Placed(m, Append(s, x))
<1> SUFFICES ASSUME NEW t, t = Append(s, x) PROVE Placed(m, t)
  BY Zenon
<1>1. t \in Seq(Word) /\ t # <<>> /\ Len(t) = Len(s) + 1 /\ t[Len(s) + 1] = x /\ \A i \in 1..Len(s) : t[i] = s[i]
  OBVIOUS
<1>2. Len(s) \in Nat /\ Len(Image) \in Nat
  BY Sizes
<1>3. ASSUME NEW i \in 1..Len(t), m + i \in 2..Len(Image)
      PROVE  t[i] = Image[m + i]
  <2>1. CASE i \in 1..Len(s)
    BY <1>1, <1>3, <2>1, Zenon DEF Placed
  <2>2. CASE i = Len(s) + 1
    <3>1. m + i = n /\ n # 1
      BY <1>2, <1>3, <2>2
    <3> QED
      BY <1>1, <2>2, <3>1
  <2> QED
    BY <1>1, <1>2, <2>1, <2>2
<1>4. ASSUME m = 0 PROVE t[1] = "zero"
  <2>1. CASE s = <<>>
    <3>1. n = 1 /\ Len(s) + 1 = 1
      BY <1>2, <1>4, <2>1
    <3> QED
      BY <1>1, <3>1
  <2>2. CASE s # <<>>
    <3>1. 1 \in 1..Len(s)
      BY <2>2
    <3> QED
      BY <1>1, <1>4, <2>2, <3>1, Zenon DEF Placed
  <2> QED
    BY <2>1, <2>2
<1> QED
  BY <1>3, <1>4, Zenon DEF Placed

\* flash_image stores a chunk of the image, and write_block() is entered when a block is full.
LEMMA WriteStores ==
    ASSUME bad \in SUBSET Block, BlockSize < Len(Image), Writes(Good, flash, ctx, fi),
           fi.pc = "write", ctx.st = "open", fi.next <= Len(Image), WriteAllButHeader(Image[fi.next]), flash' = flash,
           Goto("write", fi.next + 1)
    PROVE  Writes(Good, flash', ctx', fi')
<1> DEFINE q == Rank(Good, ctx.cur)
           n == fi.next
           x == IF n = 1 THEN "zero" ELSE Image[n]
           t == Append(ctx.stored, x)
           c == [ctx EXCEPT !.stored = t]
<1>1. /\ ctx \in CtxType /\ ctx.cur \in Nat /\ q \in Nat /\ BlockSize * q \in Nat /\ n \in Nat
      /\ Pos(ctx) = ctx.cur /\ ctx.stored \in Seq(Word)
  <2>1. Pos(ctx) = ctx.cur
    BY DEF Pos, InBlock
  <2> QED
    BY <2>1, InWrites, ContextFields
<1>2. /\ InWrite(Good, flash, ctx, n) /\ Sound(Good, flash) /\ InFlash(Good, flash) /\ Len(ctx.stored) < BlockSize
  BY ZenonT(30) DEF Writes, Context
<1>3. /\ n \in 1..Len(Image) /\ n = BlockSize * q + Len(ctx.stored) + 1 /\ Follows(Good, flash, ctx.cur)
      /\ q > 0 => Differs(Good, flash)
  <2>1. n \in 1..(Len(Image) + 1)
    BY <1>2 DEF InWrite
  <2>2. n \in 1..Len(Image)
    BY <2>1, Sizes
  <2> QED
    BY <1>1, <1>2, <2>2 DEF InWrite
<1>4. /\ \A i \in 1..Len(ctx.stored) : BlockSize * q + i \in 2..Len(Image) => ctx.stored[i] = Image[BlockSize * q + i]
      /\ q = 0 /\ ctx.stored # <<>> => ctx.stored[1] = "zero"
  BY <1>1, <1>2, Zenon DEF InWrite, Stored
<1>5. x \in Word
  BY <1>3 DEF Word
<1>6. ctx' = IF Len(c.stored) = BlockSize THEN TryBlock(c, c.cur) ELSE c
  BY Zenon DEF WriteAllButHeader, mtd_write_data
<1> HIDE DEF x, q, n
<1>7. /\ t \in Seq(Word) /\ t # <<>> /\ Len(t) = Len(ctx.stored) + 1 /\ n + 1 = BlockSize * q + Len(t) + 1
      /\ \A i \in 1..Len(t) : BlockSize * q + i \in 2..Len(Image) => t[i] = Image[BlockSize * q + i]
      /\ q = 0 => t[1] = "zero"
  <2>1. (n = 1 => x = "zero") /\ (n # 1 => x = Image[n])
    BY DEF x
  <2>2. t = Append(ctx.stored, x)
    OBVIOUS
  <2> DEFINE m == BlockSize * q
  <2>3. m \in Nat /\ (m = 0 <=> q = 0)
    BY <1>1, Sizes
  <2>4. /\ n = m + Len(ctx.stored) + 1 /\ n \in 1..Len(Image)
        /\ Placed(m, ctx.stored)
    BY <1>3, <1>4, <2>3, Zenon DEF Placed
  <2> HIDE DEF t, m
  <2>5. /\ t \in Seq(Word) /\ t # <<>> /\ Len(t) = Len(ctx.stored) + 1 /\ n + 1 = m + Len(t) + 1
        /\ Placed(m, t)
    <3>1. m \in Nat /\ ctx.stored \in Seq(Word) /\ x \in Word
      BY <1>1, <1>5, <2>3, Zenon
    <3>2. Placed(m, t)
      BY <2>1, <2>2, <2>4, <3>1, ChunkStored, Zenon
    <3>3. t \in Seq(Word) /\ t # <<>> /\ Len(t) = Len(ctx.stored) + 1 /\ Len(ctx.stored) \in Nat
      BY <2>2, <3>1
    <3>4. n + 1 = m + Len(t) + 1
      BY <2>4, <3>1, <3>3
    <3> QED
      BY <3>2, <3>3, <3>4, Zenon
  <2> QED
    BY <2>3, <2>5, Zenon DEF m, Placed
<1>8. c \in CtxType /\ c.stored = t /\ c.cur = ctx.cur /\ c.st = "open"
  <2> HIDE DEF t
  <2> QED
    BY <1>1, <1>7, Zenon DEF CtxType
<1>9. n + 1 \in 1..(Len(Image) + 1) /\ n + 1 \in Nat
  BY <1>3, Sizes
<1>10. fi' = [pc |-> "write", next |-> n + 1]
  BY DEF Goto, n
<1> HIDE DEF t, c
<1>11. ASSUME Context(Good, ctx'), ctx'.st # "closed", InWrite(Good, flash', ctx', n + 1)
       PROVE  Writes(Good, flash', ctx', fi')
  BY <1>2, <1>9, <1>10, <1>11 DEF Writes
<1>12. CASE Len(t) = BlockSize
  <2>1. ctx' = TryBlock(c, c.cur)
    BY <1>6, <1>8, <1>12
  <2>2. ~AllZero(t)
    <3>1. BlockSize * q < Len(Image)
      <4>1. Len(Image) \in Nat /\ n <= Len(Image)
        BY <1>3, Sizes
      <4>2. Len(ctx.stored) \in Nat
        BY <1>1
      <4> QED
        BY <1>1, <1>3, <4>1, <4>2
    <3> QED
      BY <1>1, <1>7, <1>12, <3>1, NotZero, Zenon
  <2>3. /\ Context(Good, ctx') /\ ctx'.st \in {"failed", "erase"} /\ ctx'.stored = t
        /\ ctx'.st = "erase" => /\ Rank(Good, Pos(ctx')) = q
                                /\ \A b \in Good : b < Pos(ctx') <=> b < ctx.cur
    BY <1>8, <1>12, <2>1, <2>2, TryBlockIs DEF q
  <2>4. InWrite(Good, flash', ctx', n + 1)
    <3>1. CASE ctx'.st = "failed"
      BY <1>9, <3>1 DEF InWrite
    <3>2. CASE ctx'.st = "erase"
      <4>1. Follows(Good, flash', Pos(ctx'))
        BY <1>3, <2>3, <3>2 DEF Follows
      <4>2. Stored(Good, ctx')
        BY <1>7, <2>3, <3>2 DEF Stored
      <4>3. n + 1 = BlockSize * Rank(Good, Pos(ctx')) + Len(ctx'.stored) + 1
        BY <1>7, <2>3, <3>2, Zenon
      <4>4. Rank(Good, Pos(ctx')) > 0 => Differs(Good, flash')
        BY <1>3, <2>3, <3>2, Zenon
      <4>5. ctx'.st # "failed" /\ ctx'.st # "write" /\ n + 1 <= n + 1
        BY <1>9, <3>2
      <4> QED
        BY <1>9, <4>1, <4>2, <4>3, <4>4, <4>5, Zenon DEF InWrite
    <3> QED
      BY <2>3, <3>1, <3>2, ZenonT(30)
  <2> QED
    BY <1>11, <2>3, <2>4
<1>13. CASE Len(t) # BlockSize
  <2>1. ctx' = c
    BY <1>6, <1>8, <1>13
  <2>2. Context(Good, ctx') /\ Pos(ctx') = ctx.cur /\ ctx'.st = "open" /\ ctx'.stored = t
    <3>1. Len(t) < BlockSize
      BY <1>1, <1>2, <1>7, <1>13, Sizes
    <3> QED
      BY <1>8, <2>1, <3>1 DEF Context, CtxType, Pos, InBlock
  <2>3. Stored(Good, ctx')
    BY <1>7, <2>2, Zenon DEF Stored, q
  <2>4. InWrite(Good, flash', ctx', n + 1)
    BY <1>3, <1>7, <1>9, <2>2, <2>3, SMTT(30) DEF InWrite, q
  <2> QED
    BY <1>11, <2>2, <2>4
<1> QED
  BY <1>12, <1>13

\* mtd_write_close() writes what is stored, with zeros after it.
LEMMA CloseFlushes ==
    ASSUME bad \in SUBSET Block, BlockSize < Len(Image), Writes(Good, flash, ctx, fi),
           fi.pc = "write", ctx.st = "open", fi.next > Len(Image), ctx.stored # <<>>, FlushStored,
           flash' = flash, fi' = fi
    PROVE  Writes(Good, flash', ctx', fi')
<1> DEFINE q == Rank(Good, ctx.cur)
           n == fi.next
           s == ctx.stored
           t == Padded(s)
           c == [ctx EXCEPT !.stored = t]
<1>1. /\ ctx \in CtxType /\ q \in Nat /\ BlockSize * q \in Nat /\ n \in Nat
      /\ Pos(ctx) = ctx.cur /\ s \in Seq(Word) /\ Len(s) \in Nat
  <2>1. Pos(ctx) = ctx.cur
    BY DEF Pos, InBlock
  <2> QED
    BY <2>1, InWrites, ContextFields
<1>2. /\ InWrite(Good, flash, ctx, n) /\ Len(s) < BlockSize
  BY Zenon DEF Writes, Context
<1>3. /\ n \in 1..(Len(Image) + 1) /\ n = BlockSize * q + Len(s) + 1 /\ Follows(Good, flash, ctx.cur)
      /\ q > 0 => Differs(Good, flash)
  BY <1>1, <1>2 DEF InWrite
<1>4. n = Len(Image) + 1
  BY <1>3, Sizes
<1>5. /\ \A i \in 1..Len(s) : BlockSize * q + i \in 2..Len(Image) => s[i] = Image[BlockSize * q + i]
      /\ q = 0 => s[1] = "zero"
  BY <1>1, <1>2 DEF InWrite, Stored
<1>6. ctx' = TryBlock(c, ctx.cur)
  BY Zenon DEF FlushStored
<1> HIDE DEF q, n, s
<1>7. /\ t \in Seq(Word) /\ Len(t) = BlockSize /\ \A i \in 1..BlockSize : i <= Len(s) => t[i] = s[i]
  <2>1. \A i \in 1..BlockSize : (IF i <= Len(s) THEN s[i] ELSE "zero") \in Word
    <3>1. "zero" \in Word
      BY DEF Word
    <3>2. \A i \in 1..Len(s) : s[i] \in Word
      BY <1>1
    <3>3. \A i \in 1..BlockSize : i <= Len(s) => i \in 1..Len(s)
      BY <1>1
    <3> QED
      BY <3>1, <3>2, <3>3, Zenon
  <2>2. t = [i \in 1..BlockSize |-> IF i <= Len(s) THEN s[i] ELSE "zero"]
    BY DEF Padded
  <2>3. t \in [1..BlockSize -> Word] /\ \A i \in 1..BlockSize : i <= Len(s) => t[i] = s[i]
    BY <2>1, <2>2, Zenon
  <2> HIDE DEF t
  <2> QED
    BY <2>3, Sizes
<1> HIDE DEF t
<1>8. \A i \in 1..BlockSize : BlockSize * q + i \in 2..Len(Image) => t[i] = Image[BlockSize * q + i]
  <2> SUFFICES ASSUME NEW i \in 1..BlockSize, BlockSize * q + i \in 2..Len(Image)
               PROVE  t[i] = Image[BlockSize * q + i]
    OBVIOUS
  <2>1. Len(Image) = BlockSize * q + Len(s) /\ Len(Image) \in Nat
    BY <1>1, <1>3, <1>4, Sizes
  <2>2. i <= Len(s) /\ i \in 1..Len(s)
    BY <1>1, <2>1
  <2> QED
    BY <1>5, <1>7, <2>2
<1>9. q = 0 => t[1] = "zero"
  <2>1. 1 \in 1..BlockSize /\ 1 <= Len(s)
    BY <1>1, Sizes DEF s
  <2> QED
    BY <1>5, <1>7, <2>1
<1>10. BlockSize * q < Len(Image)
  <2>1. Len(s) > 0
    BY <1>1 DEF s
  <2>2. Len(Image) = BlockSize * q + Len(s) /\ Len(Image) \in Nat
    BY <1>1, <1>3, <1>4, Sizes, SMTT(30)
  <2> QED
    BY <1>1, <2>1, <2>2
<1>11. ~AllZero(t)
  BY <1>1, <1>8, <1>10, NotZero, Zenon
<1>12. c \in CtxType /\ c.stored = t /\ c.cur = ctx.cur
  BY <1>1, <1>7, Zenon DEF CtxType
<1> HIDE DEF c
<1>13. /\ Context(Good, ctx') /\ ctx'.st \in {"failed", "erase"} /\ ctx'.stored = t
       /\ ctx'.st = "erase" => /\ Rank(Good, Pos(ctx')) = q
                               /\ \A b \in Good : b < Pos(ctx') <=> b < ctx.cur
  BY <1>6, <1>7, <1>11, <1>12, TryBlockIs DEF q
<1>14. InWrite(Good, flash', ctx', n)
  <2>1. CASE ctx'.st = "failed"
    BY <1>3, <2>1 DEF InWrite
  <2>2. CASE ctx'.st = "erase"
    <3>1. Follows(Good, flash', Pos(ctx'))
      BY <1>3, <1>13, <2>2 DEF Follows
    <3>2. Stored(Good, ctx')
      BY <1>7, <1>8, <1>9, <1>13, <2>2, Zenon DEF Stored
    <3>3. n <= BlockSize * q + BlockSize + 1 /\ ~(n <= Len(Image))
      <4>1. Len(s) < BlockSize /\ BlockSize \in Nat /\ Len(Image) \in Nat
        BY <1>2, Sizes DEF s
      <4> QED
        BY <1>1, <1>3, <1>4, <4>1
    <3> QED
      BY <1>3, <1>7, <1>13, <2>2, <3>1, <3>2, <3>3, Zenon DEF InWrite
  <2> QED
    BY <1>13, <2>1, <2>2
<1> QED
  BY <1>13, <1>14 DEF Writes, n

\* The partition is opened again when the file is written: all but its first block is there.
LEMMA CloseReopens ==
    ASSUME bad \in SUBSET Block, BlockSize < Len(Image), Writes(Good, flash, ctx, fi),
           fi.pc = "write", ctx.st = "open", fi.next > Len(Image), ctx.stored = <<>>,
           ctx' = mtd_write_partition, flash' = flash, fi' = [pc |-> "header", next |-> 1]
    PROVE  Writes(Good, flash', ctx', fi')
<1> DEFINE q == Rank(Good, ctx.cur)
<1>1. ctx.cur \in Nat /\ q \in Nat /\ Pos(ctx) = ctx.cur /\ Good \in SUBSET Block /\ BlockSize * q \in Nat
  <2>1. Pos(ctx) = ctx.cur
    BY Zenon DEF Pos, InBlock
  <2> QED
    BY <2>1, InWrites
<1>2. /\ Follows(Good, flash, ctx.cur) /\ (q > 0 => Differs(Good, flash))
      /\ fi.next \in 1..(Len(Image) + 1) /\ fi.next <= BlockSize * q + 0 + 1
  BY <1>1 DEF Writes, InWrite
<1>3. Len(Image) <= BlockSize * q /\ Len(Image) \in Nat \ {0}
  BY <1>1, <1>2, Sizes
<1>4. Cardinality(Good) \in Nat /\ q <= Cardinality(Good)
  BY <1>1, RankType, Sizes, Zenon
<1>5. q > 0
  BY <1>1, <1>3, Sizes
<1> HIDE DEF q
<1>6. Len(Image) <= BlockSize * Cardinality(Good)
  <2>1. CASE q = Cardinality(Good)
    BY <1>3, <2>1
  <2>2. CASE q < Cardinality(Good)
    <3>1. BlockSize * q + BlockSize <= BlockSize * Cardinality(Good) /\ BlockSize * Cardinality(Good) \in Nat
      BY <1>1, <1>4, <2>2, MoreBlocks, Sizes, Zenon
    <3> QED
      BY <1>1, <1>3, <3>1, Sizes
  <2> QED
    BY <1>1, <1>4, <2>1, <2>2
<1>7. Follows(Good, flash, Blocks + 1)
  <2> SUFFICES ASSUME NEW b \in Good, Rank(Good, b) > 0, BlockSize * Rank(Good, b) < Len(Image)
               PROVE  Part(Good, flash, b)
    BY Zenon DEF Follows
  <2>1. b \in Nat /\ Rank(Good, b) \in Nat /\ (Rank(Good, b) < q <=> b < ctx.cur)
    BY <1>1, RankOrder DEF q
  <2>2. Rank(Good, b) < q
    <3> SUFFICES ASSUME ~(Rank(Good, b) < q) PROVE FALSE
      OBVIOUS
    <3>1. CASE Rank(Good, b) = q
      BY <1>1, <1>3, <3>1
    <3>2. CASE q < Rank(Good, b)
      <4>1. BlockSize * q + BlockSize <= BlockSize * Rank(Good, b) /\ BlockSize * Rank(Good, b) \in Nat
        BY <1>1, <2>1, <3>2, MoreBlocks, Sizes, Zenon
      <4> QED
        BY <1>1, <1>3, <4>1, Sizes
    <3> QED
      BY <1>1, <2>1, <3>1, <3>2
  <2> QED
    BY <1>2, <2>1, <2>2, Zenon DEF Follows
<1>8. Complete(Good, flash)
  BY <1>2, <1>5, <1>6, <1>7, Zenon DEF Complete, Differs
<1>9. /\ Context(Good, ctx') /\ ctx'.st = "open" /\ ctx'.cur = 1 /\ ctx'.stored = <<>>
  BY NewContext
<1>10. InHeader(Good, flash', ctx', 1)
  <2>1. 1 \in 1..(BlockSize + 1)
    BY Sizes
  <2> QED
    BY <1>8, <1>9, <2>1, Zenon DEF InHeader
<1> QED
  BY <1>9, <1>10 DEF Writes

\* The header, and the chunks after it in the first block, are stored again.
LEMMA HeaderStores ==
    ASSUME bad \in SUBSET Block, BlockSize < Len(Image), Writes(Good, flash, ctx, fi),
           fi.pc = "header", ctx.st = "open", fi.next <= BlockSize, mtd_write_data(Image[fi.next]), flash' = flash,
           Goto("header", fi.next + 1)
    PROVE  Writes(Good, flash', ctx', fi')
<1> DEFINE n == fi.next
           s == ctx.stored
           t == Append(s, Image[n])
           c == [ctx EXCEPT !.stored = t]
<1>1. ctx \in CtxType /\ n \in Nat /\ s \in Seq(Word) /\ Len(s) \in Nat /\ ctx.cur \in Nat /\ Good \in SUBSET Block
  BY InWrites, ContextFields
<1>2. /\ InHeader(Good, flash, ctx, n) /\ Sound(Good, flash) /\ InFlash(Good, flash) /\ Len(s) < BlockSize
  BY DEF Writes, Context
<1>3. n \in 1..BlockSize /\ Image[n] \in Word
  <2>1. n \in 1..BlockSize /\ n \in 1..Len(Image)
    <3>1. n \in 1..(BlockSize + 1) /\ n <= BlockSize
      BY <1>2, Zenon DEF InHeader
    <3> QED
      BY <3>1, Sizes
  <2> QED
    BY <2>1 DEF Word
<1>4. n = Len(s) + 1 /\ Rank(Good, ctx.cur) = 0 /\ \A i \in 1..Len(s) : s[i] = Image[i]
  <2>1. Pos(ctx) = ctx.cur
    BY DEF Pos, InBlock
  <2>2. CASE s = <<>>
    <3>1. n = 1 /\ ctx.cur = 1
      BY <1>2, <1>3, <2>2, Sizes DEF InHeader
    <3>2. Before(Good, 1) = {}
      <4>1. \A b \in Good : ~(b < 1)
        BY <1>1, Sizes
      <4> QED
        BY <4>1, Zenon DEF Before
    <3>3. Rank(Good, 1) = 0
      BY <3>2, FS_EmptySet, Zenon DEF Rank
    <3> QED
      BY <2>2, <3>1, <3>3
  <2>3. CASE s # <<>>
    BY <1>2, <2>1, <2>3 DEF InHeader
  <2> QED
    BY <2>2, <2>3
<1>5. ctx' = IF Len(c.stored) = BlockSize THEN TryBlock(c, c.cur) ELSE c
  BY Zenon DEF mtd_write_data
<1>6. fi' = [pc |-> "header", next |-> n + 1] /\ n + 1 \in 1..(BlockSize + 1) /\ n + 1 \in Nat
  BY <1>3, Sizes DEF Goto
<1> HIDE DEF n, s
<1>7. t \in Seq(Word) /\ Len(t) = n /\ t # <<>> /\ \A i \in 1..n : t[i] = Image[i]
  <2>1. t \in Seq(Word) /\ Len(t) = Len(s) + 1 /\ t[Len(s) + 1] = Image[n] /\ \A i \in 1..Len(s) : t[i] = s[i]
    BY <1>1, <1>3
  <2> HIDE DEF t
  <2>2. \A i \in 1..n : i \in 1..Len(s) \/ i = Len(s) + 1
    BY <1>1, <1>4
  <2>3. \A i \in 1..n : t[i] = Image[i]
    BY <1>4, <2>1, <2>2
  <2>4. t # <<>>
    BY <1>1, <2>1
  <2> QED
    BY <1>4, <2>1, <2>3, <2>4
<1> HIDE DEF t
<1>8. c \in CtxType /\ c.stored = t /\ c.cur = ctx.cur /\ c.st = "open"
  BY <1>1, <1>7, Zenon DEF CtxType
<1> HIDE DEF c
<1>9. ASSUME Context(Good, ctx'), ctx'.st # "closed", InHeader(Good, flash', ctx', n + 1)
      PROVE  Writes(Good, flash', ctx', fi')
  BY <1>2, <1>6, <1>9, Zenon DEF Writes
<1>10. Complete(Good, flash')
  BY <1>2 DEF InHeader
<1>11. CASE Len(t) = BlockSize
  <2>1. ~AllZero(t)
    <3>1. 1 \in 1..n /\ 1 \in 1..BlockSize
      BY <1>3, Sizes
    <3> QED
      BY <1>7, <3>1, BlockContents DEF AllZero
  <2>2. /\ Context(Good, ctx') /\ ctx'.st \in {"failed", "erase"} /\ ctx'.stored = t
        /\ ctx'.st = "erase" => Rank(Good, Pos(ctx')) = Rank(Good, ctx.cur)
    BY <1>5, <1>8, <1>11, <2>1, TryBlockIs
  <2>3. InHeader(Good, flash', ctx', n + 1)
    BY <1>4, <1>6, <1>7, <1>10, <2>2 DEF InHeader
  <2> QED
    BY <1>9, <2>2, <2>3
<1>12. CASE Len(t) # BlockSize
  <2>1. ctx' = c
    BY <1>5, <1>8, <1>12
  <2>2. Context(Good, ctx') /\ Pos(ctx') = ctx.cur /\ ctx'.st = "open" /\ ctx'.stored = t
    <3>1. Len(t) < BlockSize
      BY <1>3, <1>7, <1>12, Sizes
    <3> QED
      BY <1>8, <2>1, <3>1 DEF Context, CtxType, Pos, InBlock
  <2>3. InHeader(Good, flash', ctx', n + 1)
    BY <1>4, <1>6, <1>7, <1>10, <2>2, Zenon DEF InHeader
  <2> QED
    BY <1>9, <2>2, <2>3
<1> QED
  BY <1>11, <1>12

-----------------------------------------------------------------------------
(* Writing a block. *)

\* A block that is written to is sound while it holds d, in each phase.
LEMMA BlockSound ==
    ASSUME NEW g, NEW f, NEW c, NEW p, Writes(g, f, c, p), InBlock(c), NEW d \in Chunk, ~AllZero(d),
           p.pc = "write" /\ Rank(g, c.pos) = 0 => d[1] # Image[1],
           p.pc = "header" /\ d[1] = Image[1] => Begun(d)
    PROVE  /\ c.pos \in g /\ InFlash(g, Put(f, c.pos, d)) /\ p.pc \in {"write", "header"}
           /\ p.pc = "write" => Differs(g, Put(f, c.pos, d)) /\ Follows(g, Put(f, c.pos, d), c.pos)
           /\ p.pc = "header" => Complete(g, Put(f, c.pos, d)) /\ Rank(g, c.pos) = 0
<1>1. InFlash(g, f) /\ c.pos \in g /\ p.pc \in {"write", "header"} /\ Pos(c) = c.pos /\ c.st # "failed"
  BY DEF Writes, Context, InBlock, Pos
<1>2. InFlash(g, Put(f, c.pos, d))
  BY <1>1, OneBlock
<1>3. c.pos \in Nat /\ c.pos <= c.pos /\ Rank(g, c.pos) \in Nat
  BY <1>1, InWrites
<1>4. ASSUME p.pc = "write" PROVE Differs(g, Put(f, c.pos, d)) /\ Follows(g, Put(f, c.pos, d), c.pos)
  <2>1. InWrite(g, f, c, p.next)
    BY <1>4 DEF Writes
  <2>2. Follows(g, f, c.pos) /\ (Rank(g, c.pos) > 0 => Differs(g, f))
    BY <1>1, <2>1 DEF InWrite
  <2>3. Rank(g, c.pos) = 0 \/ Differs(g, f)
    BY <1>3, <2>2
  <2>4. Differs(g, Put(f, c.pos, d))
    BY <1>1, <1>4, <2>3, DiffersKept, Zenon
  <2>5. Follows(g, Put(f, c.pos, d), c.pos)
    BY <1>1, <1>3, <2>2, FollowsKept, Zenon
  <2> QED
    BY <2>4, <2>5
<1>5. ASSUME p.pc = "header" PROVE Complete(g, Put(f, c.pos, d)) /\ Rank(g, c.pos) = 0
  <2>1. InHeader(g, f, c, p.next)
    BY <1>5 DEF Writes
  <2>2. Complete(g, f) /\ Rank(g, c.pos) = 0
    BY <1>1, <2>1 DEF InHeader, InBlock
  <2> QED
    BY <1>1, <1>5, <2>2, CompleteKept, Zenon
<1> QED
  BY <1>1, <1>2, <1>4, <1>5, Zenon

\* write_block() goes on with the same block, which holds d: it was erased, or is tried again.
LEMMA BlockGoesOn ==
    ASSUME NEW g, NEW f, NEW c, NEW p, Writes(g, f, c, p), InBlock(c), NEW d \in Chunk, ~AllZero(d),
           p.pc = "write" /\ Rank(g, c.pos) = 0 => d[1] # Image[1],
           p.pc = "header" /\ d[1] = Image[1] => Begun(d),
           NEW e, Context(g, e), InBlock(e), e.pos = c.pos, e.stored = c.stored
    PROVE  Writes(g, Put(f, c.pos, d), e, p)
<1>1. /\ c.pos \in g /\ InFlash(g, Put(f, c.pos, d)) /\ p.pc \in {"write", "header"}
      /\ p.pc = "write" => Differs(g, Put(f, c.pos, d)) /\ Follows(g, Put(f, c.pos, d), c.pos)
      /\ p.pc = "header" => Complete(g, Put(f, c.pos, d)) /\ Rank(g, c.pos) = 0
  BY BlockSound
<1>2. Pos(c) = c.pos /\ Pos(e) = c.pos /\ c.st \notin {"failed", "open", "closed"} /\ e.st \notin {"failed", "open", "closed"}
  BY Zenon DEF InBlock, Pos
<1> DEFINE f2 == Put(f, c.pos, d)
<1> HIDE DEF f2
<1>3. ASSUME p.pc = "write" PROVE InWrite(g, f2, e, p.next)
  <2>1. InWrite(g, f, c, p.next) /\ Differs(g, f2) /\ Follows(g, f2, c.pos)
    BY <1>1, <1>3, ZenonT(30) DEF Writes, f2
  <2>2. Stored(g, e)
    BY <1>2, <2>1, Zenon DEF InWrite, Stored
  <2> QED
    BY <1>2, <2>1, <2>2 DEF InWrite
<1>4. ASSUME p.pc = "header" PROVE InHeader(g, f2, e, p.next)
  <2>1. InHeader(g, f, c, p.next) /\ Complete(g, f2)
    BY <1>1, <1>4, Zenon DEF Writes, f2
  <2> QED
    BY <1>2, <2>1, Zenon DEF InHeader
<1>5. Sound(g, f2) /\ InFlash(g, f2)
  BY <1>1 DEF Sound, f2
<1> QED
  BY <1>1, <1>2, <1>3, <1>4, <1>5, ZenonT(30) DEF Writes, f2

\* An erase that failed leaves the block, and is tried again.
LEMMA EraseAgain ==
    ASSUME NEW g, NEW f, NEW c, NEW p, Writes(g, f, c, p), c.st = "erase",
           NEW e, Context(g, e), e.st = "erase", e.pos = c.pos, e.stored = c.stored
    PROVE  Writes(g, f, e, p)
<1>1. Pos(c) = c.pos /\ Pos(e) = c.pos
  BY DEF InBlock, Pos
<1>2. ASSUME InWrite(g, f, c, p.next) PROVE InWrite(g, f, e, p.next)
  <2>1. Stored(g, e)
    BY <1>1, <1>2 DEF InWrite, Stored
  <2> QED
    BY <1>1, <1>2, <2>1, Zenon DEF InWrite
<1>3. ASSUME InHeader(g, f, c, p.next) PROVE InHeader(g, f, e, p.next)
  BY <1>1, <1>3 DEF InHeader
<1> QED
  BY <1>2, <1>3 DEF Writes

\* A full block is a row of chunks.
LEMMA FullBlock ==
    ASSUME NEW W, NEW s \in Seq(W), Len(s) = BlockSize
    PROVE  s \in [1..BlockSize -> W]
  OBVIOUS

\* A block that was written and verified has its part of the image.
LEMMA BlockWritten ==
    ASSUME NEW g, NEW f, NEW c, NEW p, Writes(g, f, c, p), c.st = "write", BlockSize < Len(Image),
           NEW e, Context(g, e), e.st = "open", e.cur = c.pos + 1, e.stored = <<>>
    PROVE  Writes(g, Put(f, c.pos, c.stored), e, p)
<1> DEFINE s == c.stored
           q == Rank(g, c.pos)
           f2 == Put(f, c.pos, s)
<1>1. InBlock(c) /\ Pos(c) = c.pos /\ Pos(e) = c.pos + 1
  BY DEF InBlock, Pos
<1>2. g \in SUBSET Block /\ c.pos \in Nat /\ q \in Nat /\ BlockSize * q \in Nat /\ p.next \in Nat /\ s \in Seq(Word)
  <2>1. /\ g \in SUBSET Block /\ c \in CtxType /\ Pos(c) \in Nat /\ Rank(g, Pos(c)) \in Nat
        /\ BlockSize * Rank(g, Pos(c)) \in Nat /\ p.next \in Nat
    BY InWrites, Zenon
  <2>2. s \in Seq(Word)
    BY <2>1, ContextFields, Zenon
  <2> QED
    BY <1>1, <2>1, <2>2, Zenon
<1>3. c.pos \in g /\ Len(s) = BlockSize /\ ~AllZero(s) /\ InFlash(g, f)
  BY <1>1 DEF Writes, Context
<1>4. s \in Chunk
  <2> HIDE DEF s, q, f2
  <2> QED
    BY <1>2, <1>3, FullBlock, Zenon DEF Chunk
<1>5. s # <<>>
  BY <1>3, Sizes
<1>6. ASSUME p.pc = "write" PROVE InWrite(g, f, c, p.next) /\ Stored(g, c)
  BY <1>6, Zenon DEF Writes, InWrite
<1>7. /\ p.pc = "write" /\ q = 0 => s[1] # Image[1]
      /\ p.pc = "header" /\ s[1] = Image[1] => Begun(s)
  <2>1. p.pc = "write" /\ q = 0 => s[1] # Image[1]
    BY <1>1, <1>5, <1>6, BlockContents DEF Stored
  <2>2. ASSUME p.pc = "header" PROVE Begun(s)
    <3>1. \A i \in 1..BlockSize : s[i] = Image[i]
      BY <1>3, <1>5, <2>2, Zenon DEF Writes, InHeader
    <3>2. BlockSize \in 1..BlockSize /\ \A k \in 1..BlockSize : k <= BlockSize
      BY Sizes
    <3> QED
      BY <3>1, <3>2, Zenon DEF Begun
  <2> QED
    BY <2>1, <2>2
<1>8. /\ InFlash(g, f2) /\ p.pc \in {"write", "header"}
      /\ p.pc = "write" => Differs(g, f2) /\ Follows(g, f2, c.pos)
      /\ p.pc = "header" => Complete(g, f2) /\ q = 0
  BY <1>1, <1>3, <1>4, <1>7, BlockSound, Zenon
<1>9. f2[c.pos] = s
  <2>1. f \in [Block -> Chunk] /\ c.pos \in Block
    BY <1>2, <1>3, Zenon DEF InFlash
  <2> QED
    BY <2>1 DEF Put
<1> HIDE DEF f2
<1>10. Rank(g, c.pos + 1) = q + 1
  BY <1>2, <1>3, RankNext, Sizes, Zenon
<1>11. ASSUME p.pc = "write" PROVE InWrite(g, f2, e, p.next)
  <2>1. Part(g, f2, c.pos) \/ q = 0
    <3> SUFFICES ASSUME q # 0, NEW i \in 1..BlockSize, BlockSize * q + i <= Len(Image)
                 PROVE  s[i] = Image[BlockSize * q + i]
      BY <1>9, ZenonT(30) DEF Part
    <3>1. q >= 1
      <4> HIDE DEF q, s
      <4> QED
        BY <1>2
    <3>2. BlockSize * q >= 1
      BY <1>2, <3>1, Sizes, MoreBlocks
    <3> DEFINE m == BlockSize * q
    <3>3. m + i \in 2..Len(Image)
      <4> HIDE DEF m, q
      <4>1. m \in Nat /\ m >= 1 /\ m + i <= Len(Image)
        BY <1>2, <3>2 DEF m
      <4> QED
        BY <4>1, Sizes
    <3> QED
      BY <1>1, <1>3, <1>6, <1>11, <3>3 DEF Stored
  <2>2. Follows(g, f2, c.pos + 1)
    <3> SUFFICES ASSUME NEW b \in g, b < c.pos + 1, Rank(g, b) > 0, BlockSize * Rank(g, b) < Len(Image)
                 PROVE  Part(g, f2, b)
      BY Zenon DEF Follows
    <3>1. CASE b = c.pos
      BY <2>1, <3>1
    <3>2. CASE b # c.pos
      <4>1. b < c.pos
        BY <1>2, <3>2, Sizes
      <4> QED
        BY <1>8, <1>11, <4>1 DEF Follows
    <3> QED
      BY <3>1, <3>2
  <2>3. Stored(g, e)
    BY DEF Stored
  <2>4. BlockSize * (q + 1) = BlockSize * q + BlockSize
    BY <1>2, Sizes
  <2>5. /\ p.next \in 1..(Len(Image) + 1) /\ p.next <= BlockSize * q + BlockSize + 1
        /\ p.next <= Len(Image) => p.next = BlockSize * q + BlockSize + 1
    BY <1>1, <1>3, <1>6, <1>11, Zenon DEF InWrite
  <2> DEFINE m == BlockSize * (q + 1)
  <2>6. /\ p.next <= m + Len(e.stored) + 1
        /\ p.next <= Len(Image) => p.next = m + Len(e.stored) + 1
    <3>1. Len(e.stored) = 0
      OBVIOUS
    <3> HIDE DEF m, q
    <3>2. m \in Nat /\ m = BlockSize * q + BlockSize
      BY <1>2, <2>4, Sizes DEF m
    <3> QED
      BY <2>5, <3>1, <3>2
  <2>7. InWrite(g, f2, e, p.next)
    BY <1>1, <1>8, <1>10, <1>11, <2>2, <2>3, <2>5, <2>6, ZenonT(30) DEF InWrite
  <2> QED
    BY <2>7
<1>12. ASSUME p.pc = "header" PROVE InHeader(g, f2, e, p.next)
  <2>1. InHeader(g, f, c, p.next)
    BY <1>12, Zenon DEF Writes
  <2>2. p.next = BlockSize + 1 /\ p.next \in 1..(BlockSize + 1)
    BY <1>3, <2>1, Zenon DEF InHeader
  <2> QED
    BY <1>8, <1>12, <2>2, Zenon DEF InHeader
<1>13. Sound(g, f2)
  BY <1>8 DEF Sound
<1>14. p \in [pc : {"start", "write", "header", "done", "died"}, next : Nat]
  BY DEF Writes
<1> QED
  BY <1>8, <1>11, <1>12, <1>13, <1>14, ZenonT(30) DEF Writes, f2

\* A block that a part of what is stored was written to.
LEMMA PartlyWritten ==
    ASSUME NEW g, NEW f, NEW c, NEW p, Writes(g, f, c, p), c.st = "write",
           NEW n \in 0..BlockSize, NEW rest \in {"erased", "garbage"}
    PROVE  /\ Partly(c.stored, n, rest) \in Chunk /\ ~AllZero(Partly(c.stored, n, rest))
           /\ p.pc = "write" /\ Rank(g, c.pos) = 0 => Partly(c.stored, n, rest)[1] # Image[1]
           /\ p.pc = "header" /\ Partly(c.stored, n, rest)[1] = Image[1] => Begun(Partly(c.stored, n, rest))
<1> DEFINE s == c.stored
           torn == Partly(s, n, rest)
<1>1. InBlock(c) /\ Pos(c) = c.pos
  BY DEF InBlock, Pos
<1>2. s \in Seq(Word) /\ Len(s) = BlockSize /\ ~AllZero(s) /\ s # <<>>
  <2>1. c \in CtxType
    BY InWrites
  <2>2. s \in Seq(Word) /\ Len(s) = BlockSize /\ ~AllZero(s)
    BY <1>1, <2>1, ContextFields DEF Writes, Context
  <2> QED
    BY <2>2, Sizes, Zenon
<1>3. /\ torn = [i \in 1..BlockSize |-> IF i <= n THEN s[i] ELSE rest]
      /\ \A i \in 1..BlockSize : torn[i] = IF i <= n THEN s[i] ELSE rest
  BY DEF Partly
<1> HIDE DEF torn
<1>4. torn \in Chunk
  <2>1. rest \in Word
    BY DEF Word
  <2>2. \A i \in 1..BlockSize : s[i] \in Word
    BY <1>2
  <2> QED
    BY <1>3, <2>1, <2>2, ZenonT(30) DEF Chunk
<1>5. ~AllZero(torn)
  <2>1. CASE n = BlockSize
    <3>1. \A i \in 1..BlockSize : torn[i] = s[i]
      BY <1>3, <2>1, Sizes
    <3> QED
      BY <1>2, <3>1, Zenon DEF AllZero
  <2>2. CASE n # BlockSize
    <3>1. BlockSize \in 1..BlockSize /\ ~(BlockSize <= n)
      BY <2>2, Sizes
    <3>2. torn[BlockSize] = rest
      BY <1>3, <3>1, Zenon
    <3> QED
      BY <3>1, <3>2 DEF AllZero
  <2> QED
    BY <2>1, <2>2
<1>6. 1 \in 1..BlockSize /\ torn[1] = IF 1 <= n THEN s[1] ELSE rest
  BY <1>3, Sizes
<1>7. Image[1] \notin {"zero", "erased", "garbage"}
  BY MtdAssumption
<1>8. ASSUME p.pc = "write", Rank(g, c.pos) = 0 PROVE torn[1] # Image[1]
  <2>1. s[1] = "zero"
    BY <1>1, <1>2, <1>8 DEF Writes, InWrite, Stored
  <2> QED
    BY <1>6, <1>7, <2>1
<1>9. ASSUME p.pc = "header", torn[1] = Image[1] PROVE Begun(torn)
  <2>1. \A i \in 1..BlockSize : s[i] = Image[i]
    BY <1>2, <1>9, Zenon DEF Writes, InHeader
  <2>2. n \in 1..BlockSize
    <3>1. 1 <= n
      BY <1>6, <1>7, <1>9
    <3> QED
      BY <3>1, Sizes
  <2> QED
    BY <1>3, <2>1, <2>2, Zenon DEF Begun
<1> QED
  BY <1>4, <1>5, <1>8, <1>9 DEF torn

\* Power fails: a block that is being written may have a part of what is stored.
LEMMA TornSound ==
    ASSUME bad \in SUBSET Block, Writes(Good, flash, ctx, fi), BlockSize < Len(Image), NEW f \in TornFlash
    PROVE  InFlash(Good, f) /\ Sound(Good, f)
<1>1. CASE ctx.st # "write"
  <2>1. f = flash
    BY <1>1 DEF TornFlash
  <2> QED
    BY <2>1 DEF Writes
<1>2. CASE ctx.st = "write"
  <2> DEFINE torn(n) == Partly(ctx.stored, n, "erased")
  <2>1. PICK n \in 0..BlockSize : f = [flash EXCEPT ![ctx.pos] = torn(n)]
    BY <1>2, Zenon DEF TornFlash
  <2>2. InBlock(ctx)
    BY <1>2 DEF InBlock
  <2>3. /\ torn(n) \in Chunk /\ ~AllZero(torn(n))
        /\ fi.pc = "write" /\ Rank(Good, ctx.pos) = 0 => torn(n)[1] # Image[1]
        /\ fi.pc = "header" /\ torn(n)[1] = Image[1] => Begun(torn(n))
    BY <1>2, PartlyWritten, Zenon
  <2>4. f = Put(flash, ctx.pos, torn(n))
    BY <2>1, Zenon DEF Put
  <2> HIDE DEF torn
  <2>5. /\ InFlash(Good, f) /\ fi.pc \in {"write", "header"}
        /\ fi.pc = "write" => Differs(Good, f)
        /\ fi.pc = "header" => Complete(Good, f)
    BY <2>2, <2>3, <2>4, BlockSound, Zenon
  <2> QED
    BY <2>5 DEF Sound
<1> QED
  BY <1>1, <1>2

\* write_block() keeps the invariant unless it gives a block up.
LEMMA BlockStep ==
    ASSUME bad \in SUBSET Block, BlockSize < Len(Image), Writes(Good, flash, ctx, fi), write_block, ~gaveUp'
    PROVE  Writes(Good, flash', ctx', fi')
<1>1. fi' = fi /\ InBlock(ctx) /\ ctx.st # "failed"
  BY DEF write_block, write_block_erase, write_block_write, InBlock
<1>2. ctx \in CtxType /\ flash \in [Block -> Chunk] /\ Good \in SUBSET Block
  BY InWrites
<1>3. ctx.pos \in Good /\ Len(ctx.stored) = BlockSize /\ ~AllZero(ctx.stored) /\ ctx.retry \in {0, 1}
  BY <1>1, <1>2, ContextFields, Zenon DEF Writes, Context
<1>4. ASSUME NEW e \in CtxType, e.stored = ctx.stored, e.pos = ctx.pos, InBlock(e) PROVE Context(Good, e)
  BY <1>3, <1>4 DEF Context, CtxType, InBlock
<1>5. CASE ctx.st = "erase" /\ ctx' = [ctx EXCEPT !.st = "write"] /\ flash' = [flash EXCEPT ![ctx.pos] = Erased]
  <2>1. ctx' \in CtxType /\ ctx'.st = "write" /\ ctx'.stored = ctx.stored /\ ctx'.pos = ctx.pos
    BY <1>2, <1>5, Zenon DEF CtxType
  <2>2. InBlock(ctx')
    BY <2>1, Zenon DEF InBlock
  <2>3. Writes(Good, Put(flash, ctx.pos, Erased), ctx', fi)
    BY <1>1, <1>4, <2>1, <2>2, BlockContents, BlockGoesOn, ZenonT(30)
  <2> QED
    BY <1>1, <1>5, <2>3 DEF Put
<1>6. ASSUME NEW c \in CtxType, c.pos = ctx.pos, c.stored = ctx.stored, c.retry = ctx.retry, NEW b, NextTry(c, b)
      PROVE  /\ flash' = [flash EXCEPT ![ctx.pos] = b] /\ Context(Good, ctx')
             /\ ctx'.st = "erase" /\ ctx'.pos = ctx.pos /\ ctx'.stored = ctx.stored
  <2>1. ctx.retry < 1 /\ ctx' = [c EXCEPT !.st = "erase", !.retry = @ + 1] /\ flash' = [flash EXCEPT ![ctx.pos] = b]
    BY <1>6, Zenon DEF NextTry
  <2>2. c.retry + 1 \in {0, 1}
    BY <1>3, <1>6, <2>1
  <2>3. ctx' \in CtxType /\ ctx'.st = "erase" /\ ctx'.stored = c.stored /\ ctx'.pos = c.pos
    BY <2>1, <2>2, Zenon DEF CtxType
  <2>4. InBlock(ctx')
    BY <2>3 DEF InBlock
  <2> QED
    BY <1>4, <1>6, <2>1, <2>3, <2>4, Zenon
<1>7. CASE ctx.st = "erase" /\ NextTry(ctx, flash[ctx.pos])
  <2>1. flash' = [flash EXCEPT ![ctx.pos] = flash[ctx.pos]] /\ Context(Good, ctx')
        /\ ctx'.st = "erase" /\ ctx'.pos = ctx.pos /\ ctx'.stored = ctx.stored
    BY <1>2, <1>6, <1>7, Zenon
  <2>2. flash' = flash
    BY <1>2, <2>1
  <2> QED
    BY <1>1, <1>7, <2>1, <2>2, EraseAgain
<1> DEFINE after == [ctx EXCEPT !.cur = ctx.pos + 1]
<1>8. /\ after \in CtxType /\ after.pos = ctx.pos /\ after.stored = ctx.stored /\ after.retry = ctx.retry
      /\ after.cur = ctx.pos + 1
  <2>1. ctx.pos + 1 \in 1..(Blocks + 1)
    <3>1. ctx.pos \in 1..Blocks
      BY <1>2, <1>3, Zenon DEF Block
    <3> QED
      BY <3>1, Sizes
  <2> QED
    BY <1>2, <2>1, Zenon DEF CtxType
<1>9. CASE /\ ctx.st = "write" /\ flash' = [flash EXCEPT ![ctx.pos] = ctx.stored]
           /\ ctx' = [after EXCEPT !.st = "open", !.stored = <<>>, !.retry = 0]
  <2> HIDE DEF after
  <2>1. ctx' \in CtxType /\ ctx'.st = "open" /\ ctx'.stored = <<>> /\ ctx'.cur = after.cur
    <3>1. <<>> \in Seq(Word)
      OBVIOUS
    <3> QED
      BY <1>8, <1>9, <3>1, Zenon DEF CtxType
  <2>2. Context(Good, ctx')
    BY <2>1, Sizes DEF Context, CtxType, InBlock
  <2>3. Writes(Good, Put(flash, ctx.pos, ctx.stored), ctx', fi)
    BY <1>8, <1>9, <2>1, <2>2, BlockWritten, Zenon
  <2> QED
    BY <1>1, <1>9, <2>3 DEF Put
<1>10. ASSUME ctx.st = "write", NEW n \in 0..BlockSize, NextTry(after, Partly(ctx.stored, n, "garbage"))
       PROVE  Writes(Good, flash', ctx', fi')
  <2> DEFINE d == Partly(ctx.stored, n, "garbage")
  <2> HIDE DEF after
  <2>1. flash' = [flash EXCEPT ![ctx.pos] = d] /\ Context(Good, ctx')
        /\ ctx'.st = "erase" /\ ctx'.pos = ctx.pos /\ ctx'.stored = ctx.stored
    BY <1>6, <1>8, <1>10, Zenon
  <2>2. InBlock(ctx')
    BY <2>1 DEF InBlock
  <2>3. /\ d \in Chunk /\ ~AllZero(d)
        /\ fi.pc = "write" /\ Rank(Good, ctx.pos) = 0 => d[1] # Image[1]
        /\ fi.pc = "header" /\ d[1] = Image[1] => Begun(d)
    BY <1>10, PartlyWritten, Zenon
  <2> HIDE DEF d
  <2>4. Writes(Good, Put(flash, ctx.pos, d), ctx', fi)
    BY <1>1, <2>1, <2>2, <2>3, BlockGoesOn, Zenon
  <2> QED
    BY <1>1, <2>1, <2>4 DEF Put
<1> QED
  BY <1>5, <1>7, <1>9, <1>10, ZenonT(30) DEF write_block, write_block_erase, write_block_write

-----------------------------------------------------------------------------
(* flash_image. *)

\* Between its runs, at its end and after die() nothing is open.
LEMMA Rests ==
    ASSUME NEW g, NEW f, InFlash(g, f), Sound(g, f), NEW pc \in {"start", "done", "died"}
    PROVE  Writes(g, f, Closed, [pc |-> pc, next |-> 1])
  BY NewContext, Zenon DEF Writes

\* mtd_write_partition(): the first chunk goes to the first good block.
LEMMA Opens ==
    ASSUME NEW g, NEW f, InFlash(g, f), Sound(g, f)
    PROVE  Writes(g, f, mtd_write_partition, [pc |-> "write", next |-> 1])
<1> DEFINE c == mtd_write_partition
<1>1. Context(g, c) /\ c.st = "open" /\ c.cur = 1 /\ c.stored = <<>>
  BY NewContext
<1> HIDE DEF c
<1>2. Pos(c) = 1
  BY <1>1 DEF Pos, InBlock
<1>3. \A b \in g : ~(b < 1)
  BY Sizes DEF InFlash
<1>4. Rank(g, 1) = 0
  <2>1. Before(g, 1) = {}
    BY <1>3, Zenon DEF Before
  <2> QED
    BY <2>1, FS_EmptySet, Zenon DEF Rank
<1>5. Follows(g, f, 1)
  BY <1>3, Zenon DEF Follows
<1>6. Stored(g, c)
  BY <1>1 DEF Stored
<1>7. InWrite(g, f, c, 1)
  <2>1. BlockSize * 0 = 0 /\ Len(c.stored) = 0 /\ 1 \in 1..(Len(Image) + 1)
    BY <1>1, Sizes
  <2> QED
    BY <1>1, <1>2, <1>4, <1>5, <1>6, <2>1 DEF InWrite
<1> QED
  BY <1>1, <1>7, Zenon DEF Writes, c

\* Each step of flash_image keeps the invariant.
LEMMA FlashImageStep ==
    ASSUME bad \in SUBSET Block, BlockSize < Len(Image), Writes(Good, flash, ctx, fi), flash_image
    PROVE  Writes(Good, flash', ctx', fi')
<1>1. InFlash(Good, flash) /\ Sound(Good, flash) /\ ctx.st \in {"closed", "open", "erase", "write", "failed"}
  BY InWrites, ContextFields DEF Writes
<1>2. CASE die
  BY <1>1, <1>2, Rests DEF die, Goto
<1>3. CASE CheckHeader
  <2>1. CASE Goto("done", 1) /\ UNCHANGED <<flash, ctx>>
    BY <1>3, <2>1 DEF CheckHeader, Goto, Writes
  <2>2. CASE Goto("write", 1) /\ ctx' = mtd_write_partition /\ flash' = flash
    BY <1>1, <2>2, Opens DEF Goto
  <2> QED
    BY <1>2, <1>3, <2>1, <2>2, Zenon DEF CheckHeader
<1>4. CASE WriteImage
  <2>1. CASE ctx.st = "open" /\ fi.next <= Len(Image) /\ WriteAllButHeader(Image[fi.next])
             /\ Goto("write", fi.next + 1) /\ flash' = flash
    <3>1. fi.pc = "write"
      BY <1>4 DEF WriteImage
    <3> QED
      BY <2>1, <3>1, WriteStores
  <2> QED
    BY <1>2, <1>4, <2>1, Zenon DEF WriteImage
<1>5. CASE CloseImage
  <2>1. fi.pc = "write" /\ ctx.st = "open" /\ fi.next > Len(Image)
    BY <1>5, Zenon DEF CloseImage
  <2>2. CASE ctx.stored # <<>> /\ FlushStored /\ UNCHANGED <<fi, flash>>
    BY <2>1, <2>2, CloseFlushes, Zenon
  <2>3. CASE ctx.stored = <<>> /\ ctx' = mtd_write_partition /\ Goto("header", 1) /\ flash' = flash
    BY <2>1, <2>3, CloseReopens DEF Goto
  <2> QED
    BY <1>2, <1>5, <2>2, <2>3, Zenon DEF CloseImage
<1>6. CASE WriteHeader
  <2>1. fi.pc = "header"
    BY <1>6 DEF WriteHeader
  <2>2. CASE ctx.st = "open" /\ fi.next <= BlockSize /\ mtd_write_data(Image[fi.next])
             /\ Goto("header", fi.next + 1) /\ flash' = flash
    BY <2>1, <2>2, HeaderStores
  <2>3. CASE ctx' = Closed /\ Goto("done", 1) /\ flash' = flash
    BY <1>1, <2>3, Rests DEF Goto
  <2> QED
    BY <1>2, <1>6, <2>2, <2>3, Zenon DEF WriteHeader
<1>7. CASE flash_image_starts
  BY <1>7 DEF flash_image_starts, Goto, Writes
<1> QED
  BY <1>3, <1>4, <1>5, <1>6, <1>7, Zenon DEF flash_image

\* At first no block begins with the header: the old image does not have it, nor have the
\* blocks after it.
LEMMA FlashImageInit ==
    ASSUME MtdInit
    PROVE  bad \in SUBSET Block /\ Writes(Good, flash, ctx, fi)
<1>1. bad \in SUBSET Block
  BY MtdAssumption DEF MtdInit, Block
<1> DEFINE index(b) == Cardinality({c \in Block \ bad : c < b})
           part(b) == Chunks(OldImage, index(b) * BlockSize + 1, index(b) * BlockSize + BlockSize)
           old(b) == IF b \in bad THEN Garbage ELSE IF part(b) = <<>> THEN Erased ELSE Padded(part(b))
<1>2. flash = [b \in Block |-> old(b)]
  BY Zenon DEF MtdInit
<1>3. ASSUME NEW b \in Block PROVE old(b) \in Chunk /\ old(b)[1] # Image[1]
  <2>1. CASE b \in bad \/ part(b) = <<>>
    <3>1. old(b) \in {Garbage, Erased}
      BY <2>1
    <3> QED
      BY <3>1, BlockContents
  <2>2. CASE ~(b \in bad \/ part(b) = <<>>)
    <3> DEFINE m == index(b) * BlockSize + 1
               l == index(b) * BlockSize + BlockSize
               s == part(b)
    <3>1. index(b) \in Nat
      <4>1. Block \ bad \in SUBSET (1..Blocks) /\ b \in Nat /\ Blocks \in Nat
        BY Sizes
      <4>2. Rank(Block \ bad, b) \in Nat
        BY <4>1, RankType, Zenon
      <4> QED
        BY <4>2, Zenon DEF Rank, Before
    <3>2. m \in Nat \ {0} /\ l \in Nat
      <4> HIDE DEF index
      <4>1. index(b) * BlockSize \in Nat
        BY <3>1, Sizes
      <4> QED
        BY <4>1, Sizes
    <3>3. s = Chunks(OldImage, m, l) /\ s # <<>> /\ old(b) = Padded(s)
      BY <2>2, Zenon
    <3> HIDE DEF m, l, s, old, part, index
    <3>4. OldImage \in Seq(STRING) /\ \A k \in 1..Len(OldImage) : OldImage[k] # Image[1] /\ OldImage[k] \in Word
      BY MtdAssumption DEF Word
    <3>5. Len(s) \in Nat \ {0} /\ \A i \in 1..Len(s) : s[i] \in Word /\ s[i] # Image[1]
      <4> DEFINE k == IF l < Len(OldImage) THEN l ELSE Len(OldImage)
      <4>1. k \in Nat /\ k <= Len(OldImage) /\ s = SubSeq(OldImage, m, k)
        BY <3>2, <3>3, <3>4 DEF Chunks
      <4> HIDE DEF k
      <4>2. /\ s \in Seq(STRING) /\ Len(s) \in Nat /\ Len(s) = IF m <= k THEN k - m + 1 ELSE 0
            /\ \A i \in 1..Len(s) : s[i] = OldImage[m + i - 1]
        BY <3>2, <3>4, <4>1
      <4>3. Len(s) # 0
        BY <3>3, <4>2
      <4>4. \A i \in 1..Len(s) : m + i - 1 \in 1..Len(OldImage)
        BY <3>2, <3>4, <4>1, <4>2
      <4>5. \A i \in 1..Len(s) : s[i] \in Word /\ s[i] # Image[1]
        BY <3>4, <4>2, <4>4, Zenon
      <4> QED
        BY <4>2, <4>3, <4>5, Zenon
    <3>6. Padded(s) \in Chunk
      <4>1. "zero" \in Word
        BY DEF Word
      <4>2. \A i \in 1..BlockSize : (IF i <= Len(s) THEN s[i] ELSE "zero") \in Word
        BY <3>5, <4>1, Sizes
      <4> QED
        BY <4>2, Zenon DEF Padded, Chunk
    <3>7. Padded(s)[1] = s[1] /\ 1 \in 1..Len(s)
      BY <3>5, Sizes DEF Padded
    <3> QED
      BY <3>3, <3>5, <3>6, <3>7
  <2> QED
    BY <2>1, <2>2, Zenon
<1> HIDE DEF old
<1>4. InFlash(Good, flash) /\ Sound(Good, flash)
  <2>1. Good \in SUBSET Block
    BY <1>1, GoodBlocks
  <2>2. flash \in [Block -> Chunk] /\ \A b \in Block : flash[b][1] # Image[1]
    BY <1>2, <1>3, Zenon
  <2> QED
    BY <2>1, <2>2, Zenon DEF InFlash, Sound, Untouched
<1>5. Writes(Good, flash, ctx, fi)
  BY <1>4, Rests DEF MtdInit
<1> QED
  BY <1>1, <1>5

-----------------------------------------------------------------------------
(* Writing a file from the first chunk to the last, as write_raw_image() does. *)

\* No block of the file is all zeros, which mtd_read_data() would skip.
NoZeroBlock(d) ==
    \A j \in 0..Len(d) : BlockSize * j < Len(d) =>
        \E i \in 1..BlockSize : BlockSize * j + i <= Len(d) /\ d[BlockSize * j + i] # "zero"

\* What is stored of the file d are chunks of it, or zeros after them.
Words(d) == {d[k] : k \in 1..Len(d)} \cup {"zero"}

\* The context in which the file d is written.
FileContext(d) ==
    [st : {"closed", "open", "erase", "write", "failed"}, cur : 1..(Blocks + 1), pos : 0..Blocks,
     stored : Seq(Words(d)), retry : {0, 1}]

\* Block b, one of the good blocks g, holds what of the file d belongs there.
Holds(g, f, d, b) ==
    \A i \in 1..BlockSize : BlockSize * Rank(g, b) + i <= Len(d) => f[b][i] = d[BlockSize * Rank(g, b) + i]

\* The good blocks before p hold the file, s is what comes next, and chunk n comes after it.
\* Where the file has ended, s may have been filled up with zeros.
Copied(g, f, p, s, d, n) ==
    /\ \A b \in g : b < p /\ BlockSize * Rank(g, b) < Len(d) => Holds(g, f, d, b)
    /\ \A i \in 1..Len(s) : BlockSize * Rank(g, p) + i <= Len(d) => s[i] = d[BlockSize * Rank(g, p) + i]
    /\ n <= BlockSize * Rank(g, p) + Len(s) + 1
    /\ n <= Len(d) \/ (s # <<>> /\ Len(s) < BlockSize) => n = BlockSize * Rank(g, p) + Len(s) + 1

\* The context in the middle of it.
Copies(g, f, c, d, n) ==
    /\ c \in FileContext(d) /\ n \in 1..(Len(d) + 1) /\ Len(c.stored) <= BlockSize
    /\ InBlock(c) => c.pos \in g
    /\ c.st \in {"erase", "write", "failed"} => Len(c.stored) = BlockSize
    /\ Copied(g, f, Pos(c), c.stored, d, n)

\* Zeros and the chunks of the file are among them.
LEMMA WordsOf ==
    ASSUME NEW d
    PROVE  "zero" \in Words(d) /\ \A k \in 1..Len(d) : d[k] \in Words(d)
  BY Zenon DEF Words

\* What Copies says of a context and the place it is at.
LEMMA InCopy ==
    ASSUME NEW g \in SUBSET Block, NEW f, NEW c, NEW d \in Seq(STRING), NEW n, Copies(g, f, c, d, n)
    PROVE  /\ c.st \in {"closed", "open", "erase", "write", "failed"} /\ c.cur \in 1..(Blocks + 1)
           /\ c.pos \in 0..Blocks /\ c.stored \in Seq(Words(d)) /\ c.retry \in {0, 1}
           /\ Len(c.stored) \in Nat /\ Pos(c) \in Nat /\ Rank(g, Pos(c)) \in Nat
           /\ BlockSize * Rank(g, Pos(c)) \in Nat /\ n \in Nat \ {0} /\ Len(d) \in Nat
<1>1. c \in FileContext(d) /\ n \in 1..(Len(d) + 1)
  BY Zenon DEF Copies
<1>2. /\ c.st \in {"closed", "open", "erase", "write", "failed"} /\ c.cur \in 1..(Blocks + 1)
      /\ c.pos \in 0..Blocks /\ c.stored \in Seq(Words(d)) /\ c.retry \in {0, 1}
  BY <1>1 DEF FileContext
<1>3. Len(c.stored) \in Nat /\ n \in Nat \ {0} /\ Len(d) \in Nat /\ c.pos \in Nat /\ c.cur \in Nat
  BY <1>1, <1>2, Sizes, SMTT(30)
<1>4. Pos(c) \in Nat
  BY <1>3 DEF Pos
<1>5. Rank(g, Pos(c)) \in Nat
  BY <1>4, RankType, Sizes, Zenon
<1>6. BlockSize * Rank(g, Pos(c)) \in Nat
  BY <1>5, Sizes
<1> QED
  BY <1>2, <1>3, <1>4, <1>5, <1>6

\* The partition is opened: nothing is written, and the first chunk comes first.
LEMMA CopyBegins ==
    ASSUME NEW g \in SUBSET Block, NEW f, NEW d \in Seq(STRING)
    PROVE  Copies(g, f, mtd_write_partition, d, 1) /\ mtd_write_partition.stored = <<>>
<1> DEFINE c == mtd_write_partition
<1>1. 1 \in 1..(Blocks + 1) /\ 0 \in 0..Blocks /\ BlockSize > 0 /\ 1 \in 1..(Len(d) + 1) /\ 0 <= BlockSize
  BY Sizes
<1>2. <<>> \in Seq(Words(d)) /\ Len(<<>>) = 0
  OBVIOUS
<1>3. c \in FileContext(d) /\ c.st = "open" /\ c.cur = 1 /\ c.stored = <<>>
  BY <1>1, <1>2, Zenon DEF Closed, mtd_write_partition, FileContext
<1> HIDE DEF c
<1>4. ~InBlock(c) /\ Pos(c) = 1 /\ c.st \notin {"erase", "write", "failed"}
  BY <1>3 DEF InBlock, Pos
<1>5. \A b \in g : ~(b < 1)
  BY Sizes
<1>6. Rank(g, 1) = 0
  <2>1. Before(g, 1) = {}
    BY <1>5, Zenon DEF Before
  <2> QED
    BY <2>1, FS_EmptySet, Zenon DEF Rank
<1>7. BlockSize * Rank(g, 1) = 0
  BY <1>6, Sizes
<1>8. Copied(g, f, 1, <<>>, d, 1)
  BY <1>2, <1>5, <1>7 DEF Copied
<1> QED
  BY <1>1, <1>2, <1>3, <1>4, <1>8 DEF Copies, c

\* What Copied says does not depend on the place but for the good blocks before it.
LEMMA CopiedAt ==
    ASSUME NEW g, NEW f, NEW p, NEW q, NEW s, NEW d, NEW n, Copied(g, f, p, s, d, n),
           Rank(g, q) = Rank(g, p), \A b \in g : b < q <=> b < p
    PROVE  Copied(g, f, q, s, d, n)
  BY Zenon DEF Copied

\* write_block() is entered with a full block.
LEMMA CopyFull ==
    ASSUME bad \in SUBSET Block, NEW f, NEW c, NEW d \in Seq(STRING), NEW n, Copies(Good, f, c, d, n),
           c.st = "open", Len(c.stored) = BlockSize, NEW e, e = TryBlock(c, c.cur)
    PROVE  Copies(Good, f, e, d, n) /\ e.st # "open"
<1>0. /\ c.cur \in 1..(Blocks + 1) /\ Blocks \in Nat /\ Good \in SUBSET Block
  BY InCopy, Sizes, GoodBlocks, Zenon
<1>1. /\ c \in FileContext(d) /\ n \in 1..(Len(d) + 1) /\ Copied(Good, f, c.cur, c.stored, d, n)
      /\ Len(c.stored) <= BlockSize
  BY Zenon DEF Copies, Pos, InBlock
<1> DEFINE k == NextGood(c.cur)
<1>2. CASE k > Blocks
  <2>1. e = [c EXCEPT !.st = "failed", !.retry = 0]
    BY <1>2 DEF TryBlock
  <2>2. e \in FileContext(d) /\ e.st = "failed" /\ e.stored = c.stored /\ e.cur = c.cur
    BY <1>1, <2>1, ZenonT(30) DEF FileContext
  <2>3. ~InBlock(e) /\ Pos(e) = c.cur
    BY <2>2, Zenon DEF InBlock, Pos
  <2> QED
    BY <1>1, <2>2, <2>3 DEF Copies
<1>3. CASE ~(k > Blocks)
  <2>1. k \in Good /\ k <= Blocks /\ (\A b \in Good : b < k <=> b < c.cur) /\ Rank(Good, k) = Rank(Good, c.cur)
    <3>1. k # Blocks + 1
      BY <1>0, <1>3
    <3> QED
      BY <1>0, <3>1, NextGoodIs
  <2>2. k \in 0..Blocks
    BY <2>1, Sizes DEF Good
  <2>3. e = [c EXCEPT !.st = "erase", !.pos = k, !.retry = 0]
    BY <1>3, Zenon DEF TryBlock
  <2> HIDE DEF k
  <2>4. e \in FileContext(d) /\ e.st = "erase" /\ e.stored = c.stored /\ e.pos = k
    BY <1>1, <2>2, <2>3, Zenon DEF FileContext
  <2>5. InBlock(e) /\ Pos(e) = k
    BY <2>4 DEF InBlock, Pos
  <2>6. Copied(Good, f, k, c.stored, d, n)
    BY <1>1, <2>1, CopiedAt
  <2> QED
    BY <1>1, <2>1, <2>4, <2>5, <2>6, Zenon DEF Copies
<1> QED
  BY <1>2, <1>3, Zenon

\* Another chunk is stored, at its place.
LEMMA CopiedChunk ==
    ASSUME NEW g, NEW f, NEW p, NEW d \in Seq(STRING), NEW s \in Seq(Words(d)), NEW n \in 1..Len(d),
           BlockSize * Rank(g, p) \in Nat, Copied(g, f, p, s, d, n), NEW t, t = Append(s, d[n])
    PROVE  Copied(g, f, p, t, d, n + 1)
<1> DEFINE m == BlockSize * Rank(g, p)
<1>1. /\ \A b \in g : b < p /\ BlockSize * Rank(g, b) < Len(d) => Holds(g, f, d, b)
      /\ \A i \in 1..Len(s) : m + i <= Len(d) => s[i] = d[m + i]
  BY Zenon DEF Copied
<1>2. m \in Nat /\ n \in Nat /\ Len(s) \in Nat /\ Len(d) \in Nat /\ n <= Len(d)
  OBVIOUS
<1>3. n = m + Len(s) + 1
  BY <1>2, Zenon DEF Copied
<1> HIDE DEF m
<1>4. Len(t) = Len(s) + 1 /\ t[Len(s) + 1] = d[n] /\ \A i \in 1..Len(s) : t[i] = s[i]
  <2>1. d[n] \in Words(d)
    BY WordsOf, Zenon
  <2> QED
    BY <2>1
<1>5. ASSUME NEW i \in 1..Len(t), m + i <= Len(d) PROVE t[i] = d[m + i]
  <2>1. CASE i \in 1..Len(s)
    BY <1>1, <1>4, <1>5, <2>1, ZenonT(30)
  <2>2. CASE i = Len(s) + 1
    <3>1. m + i = n
      BY <1>2, <1>3, <2>2
    <3> QED
      BY <1>4, <2>2, <3>1
  <2> QED
    BY <1>2, <1>4, <2>1, <2>2
<1>6. n + 1 = m + Len(t) + 1 /\ n + 1 <= m + Len(t) + 1
  BY <1>2, <1>3, <1>4
<1> QED
  BY <1>1, <1>5, <1>6, Zenon DEF Copied, m

\* What is stored is filled up with zeros at the end of the file.
LEMMA CopiedPadded ==
    ASSUME NEW g, NEW f, NEW p, NEW d \in Seq(STRING), NEW s \in Seq(Words(d)), NEW n, n = Len(d) + 1,
           BlockSize * Rank(g, p) \in Nat, Copied(g, f, p, s, d, n), s # <<>>, Len(s) <= BlockSize,
           NEW t, t = Padded(s)
    PROVE  Copied(g, f, p, t, d, n) /\ t \in Seq(Words(d)) /\ Len(t) = BlockSize
<1> DEFINE m == BlockSize * Rank(g, p)
<1>1. /\ \A b \in g : b < p /\ BlockSize * Rank(g, b) < Len(d) => Holds(g, f, d, b)
      /\ \A i \in 1..Len(s) : m + i <= Len(d) => s[i] = d[m + i]
      /\ n <= m + Len(s) + 1 /\ (Len(s) < BlockSize => n = m + Len(s) + 1)
  BY Zenon DEF Copied
<1>2. m \in Nat /\ n \in Nat /\ Len(s) \in Nat /\ Len(d) \in Nat /\ BlockSize \in Nat
  BY Sizes
<1> HIDE DEF m
<1>3. t \in Seq(Words(d)) /\ Len(t) = BlockSize /\ \A i \in 1..BlockSize : i <= Len(s) => t[i] = s[i]
  <2>1. \A i \in 1..BlockSize : (IF i <= Len(s) THEN s[i] ELSE "zero") \in Words(d)
    <3>1. \A i \in 1..Len(s) : s[i] \in Words(d)
      OBVIOUS
    <3>2. \A i \in 1..BlockSize : i <= Len(s) => i \in 1..Len(s)
      BY <1>2
    <3> QED
      BY <3>1, <3>2, WordsOf, Zenon
  <2>2. t = [i \in 1..BlockSize |-> IF i <= Len(s) THEN s[i] ELSE "zero"]
    BY DEF Padded
  <2>3. t \in [1..BlockSize -> Words(d)] /\ \A i \in 1..BlockSize : i <= Len(s) => t[i] = s[i]
    BY <2>1, <2>2, Zenon
  <2> QED
    BY <2>3, <1>2
<1>4. ASSUME NEW i \in 1..Len(t), m + i <= Len(d) PROVE t[i] = d[m + i]
  <2>1. i \in 1..BlockSize /\ i <= Len(s) /\ i \in 1..Len(s)
    BY <1>1, <1>2, <1>3, <1>4
  <2> QED
    BY <1>1, <1>3, <1>4, <2>1, Zenon
<1>5. n <= m + Len(t) + 1 /\ ~(n <= Len(d)) /\ ~(Len(t) < BlockSize)
  BY <1>1, <1>2, <1>3
<1> QED
  BY <1>1, <1>3, <1>4, <1>5, Zenon DEF Copied, m

\* mtd_write_data() of the next chunk.
LEMMA CopyChunk ==
    ASSUME bad \in SUBSET Block, NEW d \in Seq(STRING), NEW n, Copies(Good, flash, ctx, d, n), ctx.st = "open",
           n <= Len(d), Len(ctx.stored) < BlockSize, mtd_write_data(d[n])
    PROVE  /\ Copies(Good, flash, ctx', d, n + 1)
           /\ ctx'.st = "open" => Len(ctx'.stored) < BlockSize
<1> DEFINE t == Append(ctx.stored, d[n])
           c == [ctx EXCEPT !.stored = t]
<1>0. Good \in SUBSET Block
  BY GoodBlocks
<1>1. /\ ctx.cur \in 1..(Blocks + 1) /\ ctx.stored \in Seq(Words(d)) /\ Len(ctx.stored) \in Nat
      /\ n \in Nat \ {0} /\ Len(d) \in Nat
  BY <1>0, InCopy, Zenon
<1>2. Pos(ctx) = ctx.cur
  BY DEF Pos, InBlock
<1>3. ctx \in FileContext(d) /\ Copied(Good, flash, ctx.cur, ctx.stored, d, n)
  BY <1>2 DEF Copies
<1>4. BlockSize * Rank(Good, ctx.cur) \in Nat
  BY <1>0, <1>2, InCopy
<1>5. n \in 1..Len(d) /\ n + 1 \in 1..(Len(d) + 1)
  BY <1>1
<1>6. t \in Seq(Words(d)) /\ Len(t) = Len(ctx.stored) + 1 /\ Len(t) <= BlockSize
  <2>1. d[n] \in Words(d)
    BY <1>5, WordsOf
  <2> QED
    BY <1>1, <2>1, Sizes
<1>7. Copied(Good, flash, ctx.cur, t, d, n + 1)
  BY <1>1, <1>3, <1>4, <1>5, CopiedChunk, Zenon
<1>8. ctx' = IF Len(c.stored) = BlockSize THEN TryBlock(c, c.cur) ELSE c
  BY Zenon DEF mtd_write_data
<1> HIDE DEF t
<1>9. c \in FileContext(d) /\ c.stored = t /\ c.cur = ctx.cur /\ c.st = "open"
  BY <1>3, <1>6, Zenon DEF FileContext
<1> HIDE DEF c
<1>10. ~InBlock(c) /\ Pos(c) = ctx.cur /\ c.st \notin {"erase", "write", "failed"}
  BY <1>9 DEF InBlock, Pos
<1>11. Copies(Good, flash, c, d, n + 1)
  BY <1>5, <1>6, <1>7, <1>9, <1>10, Zenon DEF Copies
<1>12. CASE Len(t) = BlockSize
  BY <1>8, <1>9, <1>11, <1>12, CopyFull, Zenon
<1>13. CASE Len(t) # BlockSize
  <2>1. Len(t) < BlockSize
    BY <1>1, <1>6, <1>13, Sizes, SMTT(30)
  <2> QED
    BY <1>8, <1>9, <1>11, <1>13, <2>1, Zenon
<1> QED
  BY <1>12, <1>13

\* mtd_erase_blocks() or mtd_write_close() of what is stored.
LEMMA CopyFlush ==
    ASSUME bad \in SUBSET Block, NEW d \in Seq(STRING), NEW n, Copies(Good, flash, ctx, d, n), ctx.st = "open",
           n = Len(d) + 1, ctx.stored # <<>>, FlushStored
    PROVE  Copies(Good, flash, ctx', d, n)
<1> DEFINE t == Padded(ctx.stored)
           c == [ctx EXCEPT !.stored = t]
<1>0. Good \in SUBSET Block
  BY GoodBlocks
<1>1. /\ ctx.cur \in 1..(Blocks + 1) /\ ctx.stored \in Seq(Words(d)) /\ Len(ctx.stored) \in Nat
      /\ n \in Nat \ {0} /\ Len(d) \in Nat
  BY <1>0, InCopy, Zenon
<1>2. Pos(ctx) = ctx.cur
  BY DEF Pos, InBlock
<1>3. /\ ctx \in FileContext(d) /\ Copied(Good, flash, ctx.cur, ctx.stored, d, n) /\ Len(ctx.stored) <= BlockSize
      /\ n \in 1..(Len(d) + 1)
  BY <1>2 DEF Copies
<1>4. BlockSize * Rank(Good, ctx.cur) \in Nat
  BY <1>0, <1>2, InCopy
<1>5. Copied(Good, flash, ctx.cur, t, d, n) /\ t \in Seq(Words(d)) /\ Len(t) = BlockSize
  BY <1>1, <1>3, <1>4, CopiedPadded, Zenon
<1>6. ctx' = TryBlock(c, ctx.cur)
  BY Zenon DEF FlushStored
<1> HIDE DEF t
<1>7. c \in FileContext(d) /\ c.stored = t /\ c.cur = ctx.cur /\ c.st = "open"
  BY <1>3, <1>5, Zenon DEF FileContext
<1> HIDE DEF c
<1>8. ~InBlock(c) /\ Pos(c) = ctx.cur /\ c.st \notin {"erase", "write", "failed"}
  BY <1>7 DEF InBlock, Pos
<1>9. Len(t) <= BlockSize
  BY <1>5, Sizes
<1>10. Copies(Good, flash, c, d, n)
  BY <1>3, <1>5, <1>7, <1>8, <1>9 DEF Copies
<1> QED
  BY <1>5, <1>6, <1>7, <1>10, CopyFull, ZenonT(30)

\* Blocks from p on are changed.
LEMMA CopiedBelow ==
    ASSUME NEW g, NEW f, NEW h, NEW p, NEW s, NEW d, NEW n, Copied(g, f, p, s, d, n),
           \A b \in g : b < p => h[b] = f[b]
    PROVE  Copied(g, h, p, s, d, n)
<1>1. /\ \A b \in g : b < p /\ BlockSize * Rank(g, b) < Len(d) => Holds(g, f, d, b)
      /\ \A i \in 1..Len(s) : BlockSize * Rank(g, p) + i <= Len(d) => s[i] = d[BlockSize * Rank(g, p) + i]
      /\ n <= BlockSize * Rank(g, p) + Len(s) + 1
      /\ n <= Len(d) \/ (s # <<>> /\ Len(s) < BlockSize) => n = BlockSize * Rank(g, p) + Len(s) + 1
  BY Zenon DEF Copied
<1>2. ASSUME NEW b \in g, b < p, BlockSize * Rank(g, b) < Len(d) PROVE Holds(g, h, d, b)
  <2>1. Holds(g, f, d, b) /\ h[b] = f[b]
    BY <1>1, <1>2, ZenonT(30)
  <2> QED
    BY <2>1, Zenon DEF Holds
<1> QED
  BY <1>1, <1>2, Zenon DEF Copied

\* Block p is written.
LEMMA CopiedBlock ==
    ASSUME NEW g \in SUBSET Block, NEW f, NEW h, NEW p \in g, NEW d \in Seq(STRING), NEW s \in Seq(Words(d)),
           NEW n \in 1..(Len(d) + 1), Copied(g, f, p, s, d, n), Len(s) = BlockSize,
           h[p] = s, \A b \in g : b < p => h[b] = f[b]
    PROVE  Copied(g, h, p + 1, <<>>, d, n)
<1> DEFINE m == BlockSize * Rank(g, p)
           k == BlockSize * Rank(g, p + 1)
<1>1. p \in Nat /\ Rank(g, p) \in Nat /\ \A b \in g : b \in Nat
  <2>1. p \in Nat /\ g \in SUBSET (1..Blocks) /\ \A b \in g : b \in Nat
    BY Sizes
  <2> QED
    BY <2>1, RankType, Sizes, Zenon
<1>2. Rank(g, p + 1) = Rank(g, p) + 1
  BY RankNext, Sizes, Zenon
<1>3. m \in Nat /\ k = m + BlockSize /\ k \in Nat
  <2>1. \A r \in Nat : BlockSize * r \in Nat /\ BlockSize * (r + 1) = BlockSize * r + BlockSize
    BY Sizes
  <2>2. m \in Nat /\ k = m + BlockSize
    BY <1>1, <1>2, <2>1, Zenon
  <2> QED
    BY <2>2, Sizes
<1>4. /\ \A b \in g : b < p /\ BlockSize * Rank(g, b) < Len(d) => Holds(g, f, d, b)
      /\ \A i \in 1..BlockSize : m + i <= Len(d) => s[i] = d[m + i]
      /\ n <= m + BlockSize + 1 /\ (n <= Len(d) => n = m + BlockSize + 1)
  BY Zenon DEF Copied
<1>5. Holds(g, h, d, p)
  BY <1>4, Zenon DEF Holds
<1> HIDE DEF m, k
<1>6. ASSUME NEW b \in g, b < p + 1, BlockSize * Rank(g, b) < Len(d) PROVE Holds(g, h, d, b)
  <2>1. CASE b = p
    BY <1>5, <2>1
  <2>2. CASE b # p
    <3>1. b < p
      BY <1>1, <1>6, <2>2
    <3>2. Holds(g, f, d, b) /\ h[b] = f[b]
      BY <1>4, <1>6, <3>1, Zenon
    <3> QED
      BY <3>2, Zenon DEF Holds
  <2> QED
    BY <2>1, <2>2, Zenon
<1>7. n <= k + Len(<<>>) + 1 /\ (n <= Len(d) => n = k + Len(<<>>) + 1)
  <2>1. Len(<<>>) = 0
    OBVIOUS
  <2> QED
    BY <1>3, <1>4, <2>1, Sizes
<1>8. \A i \in 1..Len(<<>>) : FALSE
  OBVIOUS
<1> QED
  BY <1>6, <1>7, <1>8 DEF Copied, k

\* A step of write_block() that does not give the block up.
LEMMA CopyBlock ==
    ASSUME bad \in SUBSET Block, flash = [b \in Block |-> flash[b]], NEW d \in Seq(STRING), NEW n,
           Copies(Good, flash, ctx, d, n), write_block, ~gaveUp'
    PROVE  /\ Copies(Good, flash', ctx', d, n)
           /\ ctx'.st = "open" => ctx'.stored = <<>>
<1> DEFINE p == ctx.pos
           after == [ctx EXCEPT !.cur = p + 1]
<1>0. Good \in SUBSET Block
  BY GoodBlocks
<1>1. InBlock(ctx) /\ Pos(ctx) = p /\ ctx.st \in {"erase", "write", "failed"}
  BY DEF write_block, write_block_erase, write_block_write, InBlock, Pos
<1>2. /\ ctx \in FileContext(d) /\ p \in Good /\ Copied(Good, flash, p, ctx.stored, d, n)
      /\ Len(ctx.stored) = BlockSize /\ n \in 1..(Len(d) + 1) /\ Len(ctx.stored) <= BlockSize
  BY <1>1 DEF Copies
<1>3. ctx.stored \in Seq(Words(d)) /\ ctx.retry \in {0, 1}
  BY <1>2, Zenon DEF FileContext
<1>4. p + 1 \in 1..(Blocks + 1) /\ p \in Block /\ p \in Nat /\ \A b \in Good : b \in Block /\ (b < p => b # p)
  BY <1>0, <1>2, Sizes, SMTT(30)
<1>5. after \in FileContext(d)
  BY <1>2, <1>4, Zenon DEF FileContext
<1>6. ASSUME NEW x, flash' = [flash EXCEPT ![p] = x]
      PROVE  flash'[p] = x /\ \A b \in Good : b < p => flash'[b] = flash[b]
  BY <1>4, <1>6, Zenon
<1>7. ASSUME NEW x, flash' = [flash EXCEPT ![p] = x], ctx' \in FileContext(d), ctx'.st \in {"erase", "write"},
             ctx'.pos = p, ctx'.stored = ctx.stored
      PROVE  Copies(Good, flash', ctx', d, n) /\ ctx'.st # "open"
  <2>1. InBlock(ctx') /\ Pos(ctx') = p /\ ctx'.st # "open"
    BY <1>7 DEF InBlock, Pos
  <2>2. Copied(Good, flash', p, ctx.stored, d, n)
    <3>1. \A b \in Good : b < p => flash'[b] = flash[b]
      BY <1>6, <1>7, Zenon
    <3> QED
      BY <1>2, <3>1, CopiedBelow, Zenon
  <2> QED
    BY <1>2, <1>7, <2>1, <2>2, Zenon DEF Copies
<1>8. ASSUME NEW c \in FileContext(d), c.pos = p, c.stored = ctx.stored, c.retry = ctx.retry, NEW x, NextTry(c, x)
      PROVE  Copies(Good, flash', ctx', d, n) /\ ctx'.st # "open"
  <2>1. ctx.retry < 1
    BY <1>8, Zenon DEF NextTry
  <2>2. ctx' = [c EXCEPT !.st = "erase", !.retry = c.retry + 1] /\ flash' = [flash EXCEPT ![p] = x]
    BY <1>8, <2>1, Zenon DEF NextTry
  <2>3. c.retry + 1 \in {0, 1}
    BY <1>3, <1>8, <2>1
  <2>4. ctx' \in FileContext(d) /\ ctx'.st = "erase" /\ ctx'.pos = p /\ ctx'.stored = ctx.stored
    BY <1>8, <2>2, <2>3, Zenon DEF FileContext
  <2> QED
    BY <1>7, <2>2, <2>4, Zenon
<1>9. CASE write_block_erase
  <2>1. CASE ctx' = [ctx EXCEPT !.st = "write"] /\ flash' = [flash EXCEPT ![p] = Erased]
    <3>1. ctx' \in FileContext(d) /\ ctx'.st = "write" /\ ctx'.pos = p /\ ctx'.stored = ctx.stored
      BY <1>2, <2>1, Zenon DEF FileContext
    <3> QED
      BY <1>7, <2>1, <3>1, Zenon
  <2>2. CASE NextTry(ctx, flash[p])
    BY <1>2, <1>8, <2>2, Zenon
  <2> QED
    BY <1>9, <2>1, <2>2, Zenon DEF write_block_erase
<1>10. CASE write_block_write
  <2>1. CASE ctx' = [after EXCEPT !.st = "open", !.stored = <<>>, !.retry = 0] /\ flash' = [flash EXCEPT ![p] = ctx.stored]
    <3>1. <<>> \in Seq(Words(d)) /\ Len(<<>>) = 0 /\ 0 <= BlockSize
      BY Sizes
    <3>2. ctx' \in FileContext(d) /\ ctx'.st = "open" /\ ctx'.cur = p + 1 /\ ctx'.stored = <<>>
      BY <1>2, <1>4, <2>1, <3>1, Zenon DEF FileContext
    <3>3. ~InBlock(ctx') /\ Pos(ctx') = p + 1 /\ ctx'.st \notin {"erase", "write", "failed"}
      BY <3>2 DEF InBlock, Pos
    <3>4. Copied(Good, flash', p + 1, <<>>, d, n)
      BY <1>0, <1>2, <1>3, <1>6, <2>1, CopiedBlock, Zenon
    <3> QED
      BY <1>2, <3>1, <3>2, <3>3, <3>4, Zenon DEF Copies
  <2>2. ASSUME NEW k \in 0..BlockSize, NextTry(after, Partly(ctx.stored, k, "garbage"))
        PROVE  Copies(Good, flash', ctx', d, n) /\ ctx'.st # "open"
    <3>1. after.pos = p /\ after.stored = ctx.stored /\ after.retry = ctx.retry
      BY <1>2, Zenon DEF FileContext
    <3> QED
      BY <1>5, <1>8, <2>2, <3>1, Zenon
  <2>3. \/ ctx' = [after EXCEPT !.st = "open", !.stored = <<>>, !.retry = 0] /\ flash' = [flash EXCEPT ![p] = ctx.stored]
        \/ \E k \in 0..BlockSize : NextTry(after, Partly(ctx.stored, k, "garbage"))
    BY <1>10, Zenon DEF write_block_write
  <2> QED
    BY <2>1, <2>2, <2>3, Zenon
<1> QED
  BY <1>9, <1>10 DEF write_block

\* mtd_erase_blocks() or mtd_write_close() go on after write_block() found no block.
LEMMA CopyReopened ==
    ASSUME NEW g, NEW f, NEW c, NEW d, NEW n, Copies(g, f, c, d, n), c.st = "failed",
           NEW e, e = [c EXCEPT !.st = "open"]
    PROVE  Copies(g, f, e, d, n)
<1>1. c \in FileContext(d) /\ ~InBlock(c) /\ Pos(c) = c.cur
  BY Zenon DEF Copies, InBlock, Pos
<1>2. e \in FileContext(d) /\ e.st = "open" /\ e.cur = c.cur /\ e.stored = c.stored
  BY <1>1, Zenon DEF FileContext
<1>3. ~InBlock(e) /\ Pos(e) = c.cur /\ e.st \notin {"erase", "write", "failed"}
  BY <1>2 DEF InBlock, Pos
<1> QED
  BY <1>1, <1>2, <1>3, Zenon DEF Copies

\* mtd_erase_blocks() erases the rest of the partition.
LEMMA CopyRest ==
    ASSUME bad \in SUBSET Block, NEW d \in Seq(STRING), NEW n, Copies(Good, flash, ctx, d, n), ctx.st = "open",
           NEW e, EraseRest(e)
    PROVE  Copies(Good, flash', ctx, d, n)
<1>1. ctx.cur \in Nat /\ Good \in SUBSET Block
  BY GoodBlocks, InCopy, Sizes, SMTT(30)
<1>2. ~InBlock(ctx) /\ Pos(ctx) = ctx.cur
  BY DEF InBlock, Pos
<1>3. \A b \in Good : b \in Block /\ (b < ctx.cur => ~(b >= ctx.cur))
  BY <1>1, Sizes
<1>4. \A b \in Good : b < ctx.cur => flash'[b] = flash[b]
  BY <1>3, Zenon DEF EraseRest
<1>5. Copied(Good, flash, ctx.cur, ctx.stored, d, n)
  BY <1>2, Zenon DEF Copies
<1>6. Copied(Good, flash', ctx.cur, ctx.stored, d, n)
  BY <1>4, <1>5, CopiedBelow, Zenon
<1> QED
  BY <1>2, <1>6, Zenon DEF Copies

\* When the file has ended and nothing is stored, the file is read back.
LEMMA CopyReads ==
    ASSUME bad \in SUBSET Block, NEW d \in Seq(STRING), Copies(Good, flash, ctx, d, Len(d) + 1), ctx.st = "open",
           ctx.stored = <<>>, NoZeroBlock(d)
    PROVE  mtd_read_data(Len(d)) = d
<1> DEFINE r == Rank(Good, ctx.cur)
           N == Cardinality(Good)
<1>1. Good \in SUBSET Block /\ Good \in SUBSET (1..Blocks)
  BY GoodBlocks, Sizes
<1>2. ctx.cur \in Nat /\ Pos(ctx) = ctx.cur /\ r \in Nat /\ BlockSize * r \in Nat /\ Len(d) \in Nat
  <2>1. Pos(ctx) = ctx.cur
    BY DEF InBlock, Pos
  <2>2. Pos(ctx) \in Nat /\ Rank(Good, Pos(ctx)) \in Nat /\ BlockSize * Rank(Good, Pos(ctx)) \in Nat /\ Len(d) \in Nat
    BY <1>1, InCopy, Zenon
  <2> QED
    BY <2>1, <2>2, Zenon
<1>3. r <= N /\ N \in Nat
  BY <1>1, <1>2, RankType, Sizes, Zenon
<1>4. Copied(Good, flash, ctx.cur, <<>>, d, Len(d) + 1)
  BY <1>2, Zenon DEF Copies
<1>5. Len(d) <= BlockSize * r
  <2>1. Len(d) + 1 <= BlockSize * r + Len(<<>>) + 1 /\ Len(<<>>) = 0
    BY <1>4 DEF Copied
  <2> HIDE DEF r
  <2> QED
    BY <1>2, <2>1
<1>6. Len(d) <= BlockSize * N
  <2> HIDE DEF r, N
  <2>1. CASE r = N
    BY <1>5, <2>1
  <2>2. CASE r < N
    <3>1. BlockSize * r + BlockSize <= BlockSize * N /\ BlockSize * N \in Nat
      BY <1>2, <1>3, <2>2, MoreBlocks, Sizes, Zenon
    <3> QED
      BY <1>2, <1>5, <3>1, Sizes
  <2> QED
    BY <1>2, <1>3, <2>1, <2>2
<1>7. ASSUME NEW b \in Good, BlockSize * Rank(Good, b) < Len(d)
      PROVE  Holds(Good, flash, d, b) /\ b \in Readable
  <2> DEFINE q == Rank(Good, b)
  <2>1. b \in Nat /\ q \in Nat /\ (q < r <=> b < ctx.cur)
    BY <1>1, <1>2, RankOrder, Zenon
  <2>2. BlockSize * q \in Nat /\ BlockSize * q < Len(d)
    BY <1>7, <2>1, Sizes
  <2>3. q < r
    <3> HIDE DEF q, r
    <3> SUFFICES ASSUME ~(q < r) PROVE FALSE
      OBVIOUS
    <3>1. CASE q = r
      BY <1>2, <1>5, <2>2, <3>1
    <3>2. CASE r < q
      <4>1. BlockSize * r + BlockSize <= BlockSize * q
        BY <1>2, <2>1, <3>2, MoreBlocks, Sizes, Zenon
      <4> QED
        BY <1>2, <1>5, <2>2, <4>1, Sizes
    <3> QED
      BY <1>2, <2>1, <3>1, <3>2
  <2>4. Holds(Good, flash, d, b)
    BY <1>4, <1>7, <2>1, <2>3, Zenon DEF Copied
  <2>5. q \in 0..Len(d)
    <3> HIDE DEF q
    <3>1. q <= BlockSize * q
      BY <2>1, Sizes
    <3> QED
      BY <1>2, <2>1, <2>2, <3>1
  <2>6. PICK i \in 1..BlockSize : BlockSize * q + i <= Len(d) /\ d[BlockSize * q + i] # "zero"
    BY <2>2, <2>5, Zenon DEF NoZeroBlock
  <2>7. flash[b][i] # "zero"
    BY <2>4, <2>6, Zenon DEF Holds
  <2>8. b \in Readable
    BY <2>7, Zenon DEF AllZero, Readable, Good
  <2> QED
    BY <2>4, <2>8
<1>8. ASSUME NEW k \in 1..Len(d)
      PROVE  k \in DOMAIN mtd_read_data(Len(d)) /\ mtd_read_data(Len(d))[k] = d[k]
  <2>1. /\ k \in DOMAIN mtd_read_data(Len(d))
        /\ \E b \in Good, i \in 1..BlockSize :
              /\ BlockSize * Rank(Good, b) < Len(d) /\ BlockSize * Rank(Good, b) + i = k
              /\ mtd_read_data(Len(d))[k] = flash[b][i]
    BY <1>2, <1>6, <1>7, BlockAt, Zenon
  <2>2. PICK b \in Good, i \in 1..BlockSize :
            /\ BlockSize * Rank(Good, b) < Len(d) /\ BlockSize * Rank(Good, b) + i = k
            /\ mtd_read_data(Len(d))[k] = flash[b][i]
    BY <2>1, ZenonT(30)
  <2>3. BlockSize * Rank(Good, b) + i <= Len(d)
    BY <2>2
  <2>4. flash[b][i] = d[BlockSize * Rank(Good, b) + i]
    BY <1>7, <2>2, <2>3, Zenon DEF Holds
  <2> QED
    BY <2>1, <2>2, <2>4, Zenon
<1>9. mtd_read_data(Len(d)) = [k \in DOMAIN mtd_read_data(Len(d)) |-> mtd_read_data(Len(d))[k]]
      /\ DOMAIN mtd_read_data(Len(d)) \subseteq 1..Len(d)
  <2> DEFINE all == BlockSize * Cardinality(Readable)
             from(k) == CHOOSE p \in Readable \X (1..BlockSize) : Place(p[1], p[2]) = k
             m == IF Len(d) < all THEN Len(d) ELSE all
  <2>1. mtd_read_data(Len(d)) = [k \in 1..m |-> flash[from(k)[1]][from(k)[2]]]
    BY Zenon DEF mtd_read_data
  <2>2. 1..m \subseteq 1..Len(d)
    <3>1. Readable \in SUBSET (1..Blocks) /\ 0 \in Nat
      BY Sizes DEF Readable
    <3>2. Cardinality(Readable) \in Nat
      BY <3>1, RankType, Sizes, Zenon
    <3>3. all \in Nat
      BY <3>2, Sizes
    <3> HIDE DEF all
    <3> QED
      BY <1>2, <3>3
  <2> HIDE DEF m, from
  <2> QED
    BY <2>1, <2>2, Zenon
<1>10. DOMAIN mtd_read_data(Len(d)) = 1..Len(d)
  BY <1>8, <1>9, Zenon
<1>11. d = [k \in 1..Len(d) |-> d[k]]
  OBVIOUS
<1> QED
  BY <1>8, <1>9, <1>10, <1>11, Zenon

-----------------------------------------------------------------------------
(* What a function of a script keeps between its steps. *)

\* The function that is under way has its fields.
WorkRecord(w) == w \in [op : {w.op}, step : {w.step}, next : {w.next}, data : {w.data}]

\* Another step.
LEMMA WorkSteps ==
    ASSUME NEW w, WorkRecord(w), NEW x, NEW v, v = [w EXCEPT !.step = x]
    PROVE  WorkRecord(v) /\ v.op = w.op /\ v.step = x /\ v.next = w.next /\ v.data = w.data
<1>1. v \in [op : {w.op}, step : {x}, next : {w.next}, data : {w.data}]
  BY Zenon DEF WorkRecord
<1> QED
  BY <1>1 DEF WorkRecord

\* A function begins its work.
LEMMA WorkBegins ==
    ASSUME NEW o, NEW k, NEW x
    PROVE  LET w == [op |-> o, step |-> k, next |-> 1, data |-> x]
           IN  WorkRecord(w) /\ w.op = o /\ w.step = k /\ w.next = 1 /\ w.data = x
  BY DEF WorkRecord

\* A flash of which one block changes still has all blocks.
LEMMA AllBlocks ==
    ASSUME NEW f, f = [b \in Block |-> f[b]], NEW g, NEW p, g = f \/ \E x : g = [f EXCEPT ![p] = x]
    PROVE  g = [b \in Block |-> g[b]]
<1>1. DOMAIN f = Block
  BY Zenon
<1>2. CASE \E x : g = [f EXCEPT ![p] = x]
  <2>1. g = [b \in DOMAIN f |-> g[b]]
    BY <1>2, Zenon
  <2> QED
    BY <1>1, <2>1, Zenon
<1> QED
  BY <1>2, Zenon
=============================================================================
