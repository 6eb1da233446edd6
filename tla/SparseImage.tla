---------------------------- MODULE SparseImage ----------------------------
(***************************************************************************)
(* Android sparse containers: the encoder, raw_to_sparse                   *)
(* (core/src/sparse.rs), which may be killed at any time, and the reader,  *)
(* Image (core/src/reader/source.rs).                                      *)
(*                                                                         *)
(* The content of an image is a sequence of units, 0 for zeros.  A         *)
(* container is [blocks, count, chunks]: the two counts of its header and  *)
(* what follows.  A chunk is [kind, blocks, data]; the one value of a FILL *)
(* chunk is a unit.                                                        *)
(***************************************************************************)
EXTENDS Integers, Sequences

CONSTANTS
  BlockUnits, \* units of a block
  MaxRun,     \* MAX_RAW_RUN, in units
  MaxChunks,  \* the most chunks that parse_sparse accepts
  Contents,   \* contents that are encoded
  Foreign     \* containers of other tools: [raw, file]

ASSUME SparseAssumption == BlockUnits \in Nat \ {0} /\ MaxRun \in Nat /\ MaxChunks \in Nat

VARIABLES
  raw,  \* the content; never changes
  file, \* the container
  enc   \* the encoder: [st, at, run, care]

RAW == "raw"
FILL == "fill"
DONT_CARE == "dont care"
CRC == "crc"

Chunk(kind, blocks, data) == [kind |-> kind, blocks |-> blocks, data |-> data]

Least(m, n) == IF m < n THEN m ELSE n
Zeros(n) == [i \in 1 .. n |-> 0]
Slice(s, at, len) == SubSeq(s, at + 1, at + len)

----------------------------------------------------------------------------
\* Containers.

ChunkType == [kind : {RAW, FILL, DONT_CARE, CRC}, blocks : Nat, data : Seq(Nat)]

\* The position at which chunk i ends.
ChunkEnds(chunks) ==
  LET end[i \in 0 .. Len(chunks)] == IF i = 0 THEN 0 ELSE end[i - 1] + chunks[i].blocks * BlockUnits
  IN end

\* What the reader asks of each chunk.
ChunkValid(c) ==
  CASE c.kind = RAW -> Len(c.data) = c.blocks * BlockUnits
    [] c.kind = FILL -> Len(c.data) = 1
    [] c.kind = DONT_CARE -> c.data = <<>>
    [] c.kind = CRC -> TRUE

\* Unit k of what a chunk stands for.
Unit(c, k) ==
  CASE c.kind = RAW -> c.data[k]
    [] c.kind = FILL -> c.data[1]
    [] c.kind \in {DONT_CARE, CRC} -> 0

\* The chunks stand for the beginning of s.
Spells(chunks, s) ==
  \A i \in DOMAIN chunks : \A k \in 1 .. chunks[i].blocks * BlockUnits :
    s[ChunkEnds(chunks)[i - 1] + k] = Unit(chunks[i], k)

\* A complete container of s.
WholeOf(f, s) ==
  /\ f.chunks \in Seq(ChunkType) /\ \A i \in DOMAIN f.chunks : ChunkValid(f.chunks[i])
  /\ f.count = Len(f.chunks) /\ f.blocks \in Nat
  /\ ChunkEnds(f.chunks)[f.count] = f.blocks * BlockUnits /\ f.blocks * BlockUnits = Len(s)
  /\ Spells(f.chunks, s)

\* raw_to_sparse refuses an image that is empty or not in blocks.
ASSUME ContentsAssumption ==
  \A s \in Contents : s \in Seq(Nat) /\ Len(s) > 0 /\ Len(s) % BlockUnits = 0
ASSUME ForeignAssumption ==
  \A x \in Foreign : x.raw \in Seq(Nat) /\ WholeOf(x.file, x.raw)

----------------------------------------------------------------------------
\* The encoder: one action per block.  Runs of zero blocks and of others are
\* collected, and become a chunk when they end, or are too long.

RawBlocks == Len(raw) \div BlockUnits

SparseInit ==
  \/ /\ raw \in Contents
     /\ file = [blocks |-> RawBlocks, count |-> 0, chunks |-> <<>>]
     /\ enc = [st |-> "encoding", at |-> 0, run |-> <<>>, care |-> 0]
  \/ /\ \E x \in Foreign : raw = x.raw /\ file = x.file
     /\ enc = [st |-> "foreign", at |-> 0, run |-> <<>>, care |-> 0]

FlushRaw(f, run) ==
  IF run = <<>> THEN f
  ELSE [f EXCEPT !.chunks = Append(@, Chunk(RAW, Len(run) \div BlockUnits, run))]

FlushCare(f, care) ==
  IF care = 0 THEN f ELSE [f EXCEPT !.chunks = Append(@, Chunk(DONT_CARE, care, <<>>))]

\* Mutant of EncodeZero: the blocks before it are written later.
EncodeZeroLate ==
  /\ file' = file
  /\ enc' = [enc EXCEPT !.at = @ + 1, !.care = @ + 1]

EncodeZero ==
  /\ file' = FlushRaw(file, enc.run)
  /\ enc' = [enc EXCEPT !.at = @ + 1, !.run = <<>>, !.care = @ + 1]

EncodeData(block) ==
  LET run == enc.run \o block
      cared == FlushCare(file, enc.care)
  IN /\ file' = IF Len(run) >= MaxRun THEN FlushRaw(cared, run) ELSE cared
     /\ enc' = [enc EXCEPT !.at = @ + 1, !.care = 0, !.run = IF Len(run) >= MaxRun THEN <<>> ELSE run]

EncodeBlock ==
  LET block == Slice(raw, enc.at * BlockUnits, BlockUnits)
  IN /\ enc.st = "encoding" /\ enc.at < RawBlocks
     /\ IF \A i \in DOMAIN block : block[i] = 0 THEN EncodeZero ELSE EncodeData(block)
     /\ UNCHANGED raw

\* The last run is flushed; the header's chunk count is still 0.
EncodeEnd ==
  /\ enc.st = "encoding" /\ enc.at = RawBlocks
  /\ file' = FlushCare(FlushRaw(file, enc.run), enc.care)
  /\ enc' = [enc EXCEPT !.st = "patching", !.run = <<>>, !.care = 0]
  /\ UNCHANGED raw

PatchHeader ==
  /\ enc.st = "patching"
  /\ file' = [file EXCEPT !.count = Len(file.chunks)]
  /\ enc' = [enc EXCEPT !.st = "encoded"]
  /\ UNCHANGED raw

StopEncoder ==
  /\ enc.st \in {"encoding", "patching"}
  /\ enc' = [enc EXCEPT !.st = "stopped"]
  /\ UNCHANGED <<raw, file>>

Encode == EncodeBlock \/ EncodeEnd \/ PatchHeader

----------------------------------------------------------------------------
\* The reader.  An open image is [size, chunks], a raw file one chunk of it.
\* An option, or a result, is a set of at most one value.

\* parse_sparse: chunks in a row, as many as the header says, over as many
\* blocks as it says.
ParseSparse(f) ==
  LET end == ChunkEnds(f.chunks)
      Placed(i) == [kind |-> f.chunks[i].kind, start |-> end[i - 1], data |-> f.chunks[i].data,
                    len |-> f.chunks[i].blocks * BlockUnits]
  IN IF /\ f.count <= MaxChunks /\ f.count <= Len(f.chunks)
        /\ \A i \in 1 .. f.count : ChunkValid(f.chunks[i])
        /\ end[f.count] = f.blocks * BlockUnits
     THEN {[size |-> end[f.count], chunks |-> [i \in 1 .. f.count |-> Placed(i)]]}
     ELSE {}

RawImage(s) ==
  [size |-> Len(s), chunks |-> <<[kind |-> RAW, start |-> 0, data |-> s, len |-> Len(s)]>>]

\* Mutant of FindChunk: the last position of a chunk belongs to the next one.
FindChunkEarly(chunks, p) ==
  LET search[w \in (0 .. Len(chunks)) \X (0 .. Len(chunks))] ==
        LET lo == w[1]
            hi == w[2]
            mid == lo + (hi - lo) \div 2
            c == chunks[mid + 1]
        IN IF lo >= hi THEN {}
           ELSE IF p < c.start THEN search[<<lo, mid>>]
           ELSE IF p >= c.start + c.len - 1 THEN search[<<mid + 1, hi>>]
           ELSE {c}
  IN search[<<0, Len(chunks)>>]

\* find_chunk: binary search.
FindChunk(chunks, p) ==
  LET search[w \in (0 .. Len(chunks)) \X (0 .. Len(chunks))] ==
        LET lo == w[1]
            hi == w[2]
            mid == lo + (hi - lo) \div 2
            c == chunks[mid + 1]
        IN IF lo >= hi THEN {}
           ELSE IF p < c.start THEN search[<<lo, mid>>]
           ELSE IF p >= c.start + c.len THEN search[<<mid + 1, hi>>]
           ELSE {c}
  IN search[<<0, Len(chunks)>>]

Piece(c, p, n) ==
  CASE c.kind = RAW -> Slice(c.data, p - c.start, n)
    [] c.kind = FILL -> [i \in 1 .. n |-> c.data[1]]
    [] c.kind \in {DONT_CARE, CRC} -> Zeros(n)

\* read_at: chunk after chunk, nothing past the end of the image.
ReadAt(img, at, len) ==
  LET end == at + len
      read[p \in at .. end] ==
        IF p = end THEN {<<>>}
        ELSE UNION {LET n == Least(c.start + c.len, end) - p
                    IN {Piece(c, p, n) \o rest : rest \in read[p + n]} :
                    c \in FindChunk(img.chunks, p)}
  IN IF end > img.size THEN {} ELSE read[at]

----------------------------------------------------------------------------
\* A container opens if and only if it is complete (and has no more chunks
\* than the reader takes): one that a killed encoder left never passes for a
\* shorter or emptier image.  One that opens reads as the content it was
\* made from, at every place, for every length, whatever chunks that crosses.
OpensIffWhole ==
  /\ ParseSparse(file) # {} <=>
       enc.st \in {"encoded", "foreign"} /\ Len(file.chunks) <= MaxChunks
  /\ \A img \in ParseSparse(file) :
       \A at \in 0 .. Len(raw) : \A len \in 0 .. Len(raw) - at :
         ReadAt(img, at, len) = {Slice(raw, at, len)}
=============================================================================
