# A verification project for the deduplicating, compressing encoder

The repository holds a file compressor in two programs. The *encoder* receives a
file over UDP from a *client*, cuts it into content-defined chunks, drops chunks
it has seen (by SHA-256), compresses the others with LZW and writes an archive.
The *decoder* restores the file from the archive. The encoder exists in software
(`src/Server/encoder.cpp`) and as an OpenCL host (`src/hls/Host.cpp`) that leaves
LZW to an FPGA kernel (`src/Server/lzw_hw.cpp`). Beside them lie a hash map
(`src/Server/robin_hood.h`), the first LZW encoder (`src/Server/lzw_old.cpp`) and,
with the export of the kernel (`src/new_lzw`), a driver that programs its control
registers.

These modules say what the programs do, what they promise, and where they break
that promise. TLC checks the promises on small instances; TLAPS proves the most
important ones for every value of the constants.

## 1. Inventory

| component | source | state | operations | what makes it correct |
|---|---|---|---|---|
| client | `Client/client.cpp` | block counter, socket | send full blocks, last block, remainder, with a done bit | every byte of the file is sent once, in order, the last packet is marked |
| server and receive loop | `Server/server.cpp`, `Server/encoder.cpp` 305-398, `hls/Host.cpp` 117-203 | ring of input buffers, `writer`, `file_buffer`, `offset`, `done` | receive, decode header, append or skip, stop at done | the buffer is the file; it never overflows; no stale bytes |
| chunking | `Server/cdc.cpp` | gear hash, chunk start, positions | scan a byte, cut | chunks tile the file, have bounded size, depend on their content only |
| SHA-256 | `Server/sha256.cpp`, `sha256_hw.cpp` | block buffer, lengths, state; schedule and working variables | init, update, final; the transform in three forms | exactly the padded message is hashed; the three forms agree, and with the standard |
| deduplication | `Server/deduplication.cpp` | digest -> index map, next index | look up or enter | an index names the same chunk for the decoder |
| LZW encoder | `Server/lzw.cpp`, `lzw_hw.cpp` | dictionary (global), code words, bit buffer | search, emit, grow, pack | what the decoder makes of the block is the chunk |
| first LZW encoder | `Server/lzw_old.cpp` | hash table, associative memory, next code | look up, insert or refuse, emit | a string once inserted is found, with its code; the codes stand for the input |
| encoder loop | `Server/encoder.cpp` 102-303, `hls/Host.cpp` 247-381 | output stream, counters | duplicate, new chunk | the stream decodes to the file; the statistics are true |
| archive file | `encoder.cpp` 422-442, `Host.cpp` 390-409 | the file on disk | write | - |
| OpenCL queue | `hls/Host.cpp` 98, 292-379 | command queue, device buffers | write, migrate, launch, read | a kernel sees its own chunk and the host its own result |
| kernel driver | `new_lzw/.../xlzw_encode_hw.c`, `xlzw_encode_hw_linux.c`; registers in `lzw_encode_hw_control_s_axi.v`, `lzw_encode_hw.v` | control, interrupt and argument registers, kernel state | open, set arguments, start, continue, auto restart, interrupts | the kernel runs on whole arguments; no run, start or interrupt is lost or invented |
| hash map | `Server/robin_hood.h` | nodes, info bytes, counters, hash multiplier | find, insert (with growth), erase, iterate, clear, reserve, compact, copy, move | it is the map it is meant to be, whatever its table looks like |
| decoder | `Decoder/Decoder.cpp` | stream position, restored chunks, code table, counters | block, reference, reject | restores the file or says that it did not |

How they interact: client and server share only datagrams; server loop and
chunking share `file_buffer`; the encoder loop calls SHA-256, deduplication and
LZW chunk by chunk, synchronously; encoder and decoder share only the archive.
There are no threads in the live code (`NUM_THREADS` and `sha256_compute_parallel`
are in comments). Concurrency exists in three places: the network between client
and server, the out-of-order command queue between host and FPGA, and the
registers that the kernel, the program and its interrupt handler all write.

What is hard: the index and the position in the stream are kept by both ends
independently, and nothing in the format repairs a disagreement; the LZW
dictionary outlives calls; loops end by arithmetic on bit positions; failures
(`recvfrom`, `enqueueTask`, `fwrite`) are noticed late or never; registers are
rewritten from what was read before; info bytes of three to eight bits carry both
distance and hash. `PROJECT.json` lists each hazard at its line.

## 2. Modules

| module | models | main variables |
|---|---|---|
| `ArchiveFormat` | the archive: headers, blocks | - |
| `ChunkEncoder` | the loop of `process_packet` with `dedup`, from the digest on | `chunk_hash_map`, `lzw_chunk_index`, `output_data`, `stats` (the globals of encoder.cpp 22-26), `mark` (history) |
| `ChunkDecoder` | the loop of the decoder's `main` | `pos`, `Chunks`, `Output`, the three counters |
| `Archive` | both, with the file between them | `phase` |
| `FileCopy` | abstract: what encoding and decoding together promise | `copy`, `damaged`, `verdict` |
| `ArchiveInvariant`, `ArchiveProofs` | the inductive invariant and the proofs | - |
| `Chunking`, `ChunkingProofs` | `content_defined_chunking` and the reading of the positions | `hash`, `chunk_start`, `chunk_positions`, `fed` |
| `LzwFormat`, `LzwEncoder`, `LzwDecoder`, `Lzw` | `lzw_encode`, `Decompress`, and calls of one after the other | `dictionary`, `code_words`, `bit_buffer`, `Code_table`, `Input_position` |
| `LzwInvariant`, `LzwProofs` | the inductive invariant and the proofs | - |
| `LzwOld` | the first `lzw_encode` | `hash_table`, `assoc_mem`, `next_code`, `output_codes` |
| `LzwOldInvariant` (proofs in `LzwProofs`) | the inductive invariant of it | - |
| `LzwVersions` | a program linked with the one or the other | - |
| `Sha256` | `sha256_init`, `_update`, `_final` | `data`, `datalen`, `bitlen`, `transformed` |
| `Sha256Words`, `Sha256Transform` | words and their functions; the transform with NEON instructions, rolled up, and scalar | `sched`, `cur`, `n`, `state`, `hashes` |
| `Sha256Proofs` | SHA-256 as FIPS 180-4 defines it, the inductive invariant and the proofs | - |
| `Transfer` | client, UDP, receive loop | `wire`, `input_buffers`, `writer`, `file_buffer` |
| `TransferProofs` | proofs about `Transfer` | - |
| `HostQueue` | what `Host.cpp` does with its command queue for each new chunk | `queue`, `pc`, host and device side of the buffers |
| `KernelCalls` | abstract: what the loop takes the FPGA for | `results` |
| `KernelRegisters` | the control registers and the first and last states of the kernel, cycle by cycle | `int_ap_start`, `int_auto_restart`, `int_isr`, `ap_done_reg`, `state` |
| `KernelDriver` | the driver's functions above them, called by two processes | `main`, `handler` (the call under way of each) |
| `KernelProofs` | proofs about `HostQueue` and `KernelDriver` | - |
| `RobinHood` | `detail::Table` and what single calls do to one | a table is a record of its members |
| `RobinHoodMap` | the calls, with growth and rehashing step by step | `table`, `pending`, `moving`, `it` |
| `PartialMap` | abstract: a map, calls that change it, and what a failing one loses | `map`, `away` |
| `RobinHoodInvariant`, `RobinHoodProofs` | the inductive invariant and the proofs | - |
| `Induction` | theorems for the proofs: induction and primitive recursion on the naturals | - |

The `MC` modules give the constants values that a `.cfg` cannot.

The layers meet where one module's property is the next one's assumption:

* `Transfer` delivers the file (`EventuallyReceived`, `ReceivedIsFile`), `Chunking`
  starts from a file;
* `Chunking` feeds chunks of 1 to `MAX_CHUNK_SIZE` bytes (`SizesBounded`), `Lzw`
  compresses chunks of that kind;
* `Sha256` shows that digests are made of the right bytes and `Sha256Transform` that
  they are SHA-256's; that different chunks then have different digests is
  `DigestAssumption` of `ArchiveFormat`;
* `HostQueue` shows that the host gets, chunk by chunk, the block of this chunk or
  an empty one (`CompressesInTurn`); that is what `EncodeNew` and `EncodeFailed` of
  `ChunkEncoder` take for granted;
* `Lzw` shows that a block restores its chunk and that the decoder reads exactly
  the bytes of the block (`RoundTrip`, `BlockConsumed`); `Archive` takes a block
  as such a unit: `Decompressed` returns the chunk when the block is all there.

`RobinHoodMap`, `LzwOld` and `KernelDriver` stand beside these layers, as their code
does: the live programs use `std::unordered_map`, the later LZW encoder, and OpenCL.

Each definition named "Mutation of X" is a plausible mistake in X; it is not part
of the model. `PROJECT.json` names, for every property, a mutation that breaks it.

### Choices worth knowing

* A header is one cell of the stream although it has four bytes: the decoder
  treats a header cut short exactly as the end of the file. Blocks have one cell
  per byte, so that a wrong size would misplace everything after it. Taken as a
  header, a byte of a block may be any word (`Words`).
* Widths: headers wrap at `HeaderSpan`, chunk sizes at `U16Span`, the gear hash at
  `HashSpan`, the bit buffer at `Power[BufferBits]`, packet lengths and done bit share
  two bytes of `ByteSpan` values, info bytes end at `InfoByte`. The words of SHA-256
  have all their 32 bits, as pairs of halves because TLC's integers end at 2^31; the
  bit operations are tabulated for bytes, bit by bit.
* Undefined behaviour is a choice: what `Decompress` makes of a block that is not
  all there (`Garbage` or any chunk, or the crash of `DecodeOutOfTable`), the header
  in an input buffer that was never written, the bytes of an uninitialized context,
  the bytes behind the client's buffer (`Junk`).
* The first `AlphabetSize` rows of the LZW dictionary are written once and never
  searched; they are left out. The HLS kernel differs from the software in pragmas,
  in the declaration of the dictionary and in messages; one module stands for both.
* A kernel run that fails leaves `compressed_size` at 0: the host writes 0 before
  each launch and checks neither the launch nor the event. `KernelMayFail`
  tells the host from the software encoder.
* In `HostQueue` a command takes effect at one moment between its enqueueing and
  its completion; `NoOverlap` is why nothing finer could be seen. A buffer has a
  host side and a device side, because `Host.cpp` migrates; a read leaves what it
  read on the host side. The buffers start with anything in them. Launches and
  reads of the size may fail; for a failure of the other commands the code has no
  answer at all, and the hazard at `Host.cpp:327` says what happens then.
* In `KernelRegisters` a step is a clock cycle; a register access takes its cycle
  and the next one for its response, which is why the idle bit, a cycle late, is
  never seen wrong. `input_data` stands for all three arguments. The two callers
  follow what the driver's functions are for: they start after `IsReady`, continue
  after `IsDone`, and clear what the status said; a driver function that reads a
  register and writes it back is two steps.
* In `RobinHoodMap` a hash is any function of multiplier and key (`Hash`): only
  where keys meet matters. An insertion is a loop whose passes are steps; a rehash
  moves one node a step, because each move may throw and leave the rest behind;
  `moving` has them under their old slots, whose order is the order of the moves.
  Copying and moving go on with one of the two tables, each in turn.
* In `LzwOld` the hash is any function as well, from keys to slots. What the encoder
  loses (a zero byte after a single character, whose key is that of the character
  itself) is recorded in `kept`, and `OldRoundTrip` says that it loses nothing else: of
  the strings that the codes stand for (`OldString`), and of what a decoder restores
  (`OldDecoder`) as long as no insertion was refused. Keys and codes do not wrap: a
  code needs an entry, and the tables have room for 8256 of them.

## 3. Runs

| run | question | bounds | states |
|---|---|---|---|
| `MCArchive` | does the archive decode whole, and what is left when any kernel run may fail unnoticed? | files of up to 5 chunks over 3, fair steps | 21 846 |
| `MCArchiveShort` | what survives a short write? | 4 chunks, cut anywhere | 9 517 |
| `MCArchiveShortWhole` | is a block that was cut ever taken for a good one? | 3 chunks | violated |
| `MCChunking` | is chunking lossless, bounded, content-defined? | all files of up to 8 bytes over 2 values, MAX 4 | 6 209 |
| `MCLzw` | do chunks come back, out of exactly their own bytes? what does the first encoder lose? | 2 calls, chunks of up to 6 bytes over 2 values, 5 codes, 10-bit codes; old: one call, up to 6 bytes over 3 values, 6 slots and 1 overflow entry | 173 284 |
| `MCTransfer` | does the server receive the file, and do losses, repeats, swaps, skips and failing receives mix bytes of packets or overflow the file buffer? | 3-byte blocks, 2 faults, files of 3 to 14 bytes, room for 11 | 37 217 |
| `MCTransferSmall` | and a file smaller than a block? | 1 or 2 bytes | violated |
| `MCTransferFail` | and a receive that fails? | 1 failure | violated |
| `MCHostQueue` | does each chunk come back as its own block, whatever order the queue takes and whichever launches and reads of the size fail? | up to 2 chunks of up to 3 bytes over 2 values, room for 2; any number of failures | 12 326 |
| `MCSha256` | is the padded message hashed, and is it SHA-256, in all three forms? | real block size and words; 16 messages of 0 to 129 bytes around every boundary, 3 with published digests | 9 660 |
| `MCRobinHood` | is the table a map, through growth, exhaustion, erasure, iteration and moves, and what does an overflow cost it? | 4 keys, 3 multipliers, tables of 4 slots and more, 3-bit info bytes, 3 attempts | 17 971 |
| `MCKernelDriver` | can two callers and the kernel, between any two register accesses, lose or invent a run, a start, an argument or an interrupt? | 2 arguments, runs of any length | 146 096 |

Why the bounds are enough. Archive: five chunks over three give every pattern of
first and repeated occurrences in which a reference skips over another new chunk
or a failed one; block sizes differ from each other so that a misread length
shows; a run in which no launch fails is among them. Chunking: the two gear values
make the hash wrap and cut after one, two, three and four bytes as well as by size
alone. LZW: the alphabet is small enough for the dictionary of five codes to fill
up, for codes that the decoder has not got yet, and for stale rows of the first
call to match strings of the second; ten bits leave every even remainder in the
bit buffer, none included (which the real thirteen bits do once in eight codes).
For the first encoder keys collide in pairs, the associative memory fills, and
insertions are refused. Transfer: three input buffers wrap after two packets, so
that a short packet lands in a buffer that held a long one; the longest files do
not fit. HostQueue: two chunks of different lengths leave a longer chunk, size and
block behind for a shorter one to be mixed up with, and a chunk of three bytes is
refused. SHA-256: every fill of the last block on both sides of the room for the
length, in the first block and in the second. RobinHood: all homes are at the
end of the table, so that the extra slots, the sentinel and the end of the info
bits are reached with four keys. KernelDriver: nothing in it counts.

Deadlock is not checked in runs whose system ends (a chunked file, a hashed
message, a received file); `Archive` and `HostQueue` have a step for having
stopped, and `RobinHoodMap` and `KernelDriver` always go on.

Fairness. The programs are sequential and do not wait, except in `recvfrom`: weak
fairness on their next step says that a process that can go on does. In `Transfer`
the server's `Receive` is fair because a datagram that has arrived is returned;
in `HostQueue` the device works its queue off, which is what an OpenCL device
does; nothing is fair about the network, and `EventuallyReceived` speaks of
behaviours without faults only. If the packet with the done bit is lost, the
server waits for ever. In `KernelDriver` the clock ticks, the kernel's loops end
(they are bounded by its input), and the handler keeps polling and acknowledging;
`IsDone` and `Continue` are strongly fair because main's accesses may keep the bus
from the handler again and again, but not for ever. Nothing is fair about main:
it need not start, and it may close the device.

### Disagreements found

1. `MCArchiveShortWhole`: a block cut by a short write is decoded from bytes that
   are not there and counted as successful (`Decoder.cpp:117`).
2. `MCTransferSmall`: for a file smaller than a block the client first sends a
   block of bytes beyond its buffer (`client.cpp:173`).
3. `MCTransferFail`: after a failed `recvfrom` the receive loop appends what the
   input buffer held before (`server.cpp:65`).

Comments that the modelling found to be untrue, without a run of their own:
`robin_hood.h:1362` says "wrapping around", which nothing does; the header of the
register map (`xlzw_encode_hw_hw.h:21-22`) calls the interrupt status clear-on-read
beside toggle-on-write, and only the second is what the HDL does; `lzw_old.cpp:132`
says that single characters have the prefix 0, while the line gives them the
character 0, and so a zero byte after one is swallowed.

## 4. Proofs

`ArchiveProofs` (for every set of chunks, block sizes and bound on the file, with
`KernelMayFail` and `WriteMayBeShort` either way except where said, under the named
assumptions of `ArchiveFormat`):

* `ArchiveInvariance`: `ArchiveInv` is inductive. The properties are not: that a
  reference resolves to the right chunk depends on what lies in the stream and on
  how many indices were handed out before each entry. So the encoder's half
  (`EncoderInv`) says for every entry where it starts and which of three forms it
  has (`IsNew`, `IsFailed`, `IsDuplicate`), and the decoder's half (`DecoderInv`) says
  that the decoder is between two entries (`InTurn`): `pos` is the start of the entry
  after those it has counted and, as long as nothing failed, it holds exactly the
  chunks these entries stand for; or that it has come to a cut inside a block
  (`CutShort`), where only what it made of that block can be wrong. `Written` says
  what the disk has of the stream. `mark` is a history variable for this.
* `TypeCorrect`, `StaysInStep`, `SeesEveryEntry` from the invariant, and, for archives
  written whole (`~WriteMayBeShort`; a short write is reported, but the decoder
  cannot see it), `SuccessIsWhole` and `IndicesAgree`. (No run checks the type
  invariant, `IndexAgreement` and `EveryEntrySeen` by themselves: the run checks
  `ArchiveInv`, and they follow.)
* `NothingIsRejected`: an entry is rejected only if a kernel run has failed. It
  takes one step more than the invariant: a rejected entry is one of the failed
  form (`RejectedForFailure`), and failures do not go away.
* `DamageAtTheEnd`: where no kernel run fails (`~KernelMayFail`, as the run that
  checks it has it), a cut spoils the last entry at most, wherever it is. No
  header is then taken for a failure (`NoneFailsStep`: no size and no index gives
  the header of size 0), so nothing is rejected and `InTurn` or `CutShort` says the
  rest.
* `StatisticsAddUp`: what each entry adds to the counters is what it adds to the
  stream and to the file. `StatsInv` has the sums in a form to which one element can
  be added (`SumIs` of `Induction`); `StatsFromInv` shows that they are the folds of
  the property.
* `ImplementsFileCopy`: the safety part of the refinement that `MCArchive`
  checks with fairness, for archives written whole.

`ChunkingProofs` (for every file, gear table and limits with
`MAX_CHUNK_SIZE < U16Span`): `ChunkSizesBounded`, `ChunksTile`, `ChunksFedWhole`, from
the inductive conjunction of these with the type invariant; the type invariant
carries the one fact they need of the scan, that the open chunk is shorter than
`MAX_CHUNK_SIZE`. `ChunksContentDefined`, too: the hash of the open chunk is `HashOf` its
bytes, and with what `Boundary` says of every chunk that was cut, a chunk's end
depends on nothing before it. That `HashOf`, a recursive function, takes the step
of the scan for every byte is its lemma.

`KernelProofs` has two parts. The first is about `HostQueue` (for all chunks and
buffer sizes with `13 * INPUT_SIZE + 7 <= 8 * OUTPUT_SIZE`, and with launches
and reads of the size failing or not): `ImplementsKernelCalls`, the safety part
of `CompressesInTurn`, with `CommandsApart`, `QueueInvariance` and
`TypeCorrect`. The queue alone says nothing about the data, so `QueueInv`
follows three things through the buffers: the chunk on its way to the device
(`Loaded`), the zero that stands for a failure (`Zeroed`) and the block on its
way back (`Answered`); `Paced` says that the queue holds at most the command
enqueued last.

`TransferProofs` (for all block, header and buffer sizes, files and faults that
`TransferAssumption` allows): `TypeCorrect` and `NeverOverflows`. `WithinBuffer` is
not inductive by itself: the first packet is not checked, so the proof needs that
no header can announce as much as `Capacity` (`LengthBound`) and that nothing has
been copied before the first packet.

Its second part (the same, but for files of at least one block, `NoSmallFile`; for
smaller ones it is not true, which `MCTransferSmall` shows) has `PacketsStayWhole`,
`PrefixReceived` and `ReceivedIsFile`. Their inductive invariant `WholeInv` numbers the
client's datagrams. Everything in flight is one of them (`SendingInv`); an input
buffer that was ever filled holds all of the one whose header it has, whatever
longer packet left its end behind it (`BuffersInv`), so that a stale buffer brings
a whole packet, too; and without faults what is in flight is what lies between
the counts of the two ends, in order (`InTurn`). That two bytes of header give
length and done bit back (`HeaderSays`) and that a packet put behind whole packets
leaves them whole (`PacketFits`) are the lemmas that carry it.

`LzwProofs` (for every alphabet, width of code words of at least nine bits, bound on
the dictionary and number of calls), from `LzwInv`, which is proved as
`LzwInvariant` and has three layers:

* Sizes (`CodeInv`, `BitInv`, `PositionInv`): how many code words there are for the bytes
  read, how many of their bits are in block and bit buffer, and that the decoder is
  between two of them. `BlocksFit` and `BlocksConsumed` follow. `MoreCodesRight` is the
  arithmetic of the loop's condition: fewer than eight bits of padding can be left,
  a code word has more, and so the comparison with `Size - 1` ends exactly after the
  last.
* Bits (`StreamInv`): the bits of the block, of the bit buffer and of the byte being
  finished are those of the code words, one after the other; the buffer keeps bits
  of code words already extracted above those it still owes, and wraps. `CodeAt`
  therefore reads the code words that were packed, one after the other.
* Codes (`ParseInv`): there is a parse of the bytes read into strings, one for each code
  word, such that each new row is the string before with the first byte of the next
  (`RowsFollow`), the code words name these strings (`Covers`), and each names a row
  older than the one added after it (`CodesKnown`): rows that an earlier call left
  behind are beyond `dict_size` and not searched. When the decoder reads a code word
  it has entered all those rows but the last, whose string is the case that
  `Symbols` treats apart.

From these: `ChunksComeBack` (`RoundTrip`), `CodesWithinReach` and `TablesTheSame`.

The last part of `LzwProofs` is about `LzwOld` (for every alphabet, hash function, size
of the two tables and length of the input), from `OldInv`:

* `Stored`: slots and places of the tables hold nothing but what was inserted, and
  each entry is where `lookup` comes by. A slot is never overwritten and the
  associative memory only grows, so what was found stays found.
  `OldLookupsAreRight` needs one thing more, that no key is inserted twice
  (`KeysApart`): a string is inserted only when it was not found.
* `OldStrings`: each code has one string, that of its prefix with the character of its
  key. A code of a single character has an entry under the key of that character
  and a 0, or none, if it was refused: a hit on it drops the 0, which is
  what `kept` leaves out.
* `OldCovers`: the strings of the codes, the open one included, make up `kept`.
* `OldFollows`: as long as nothing was refused there is a code for each code put out,
  and its string is the string put out with the first character of the next. With
  it the decoder has the string of every code, or can make it from the one before.

From these: `OldLookupsAreRight` and `OldCodesComeBack` (`OldRoundTrip`). The run has both
encoders in one specification, `VersionsSpec`, linked in turn; `EitherVersion` proves of
it all that the run checks, as every behaviour of it is one of either encoder
(`VersionsApart`).

`Sha256Proofs` (for every set of messages of bytes, of any length, which for a chunk is
far below what the code's counters hold, and whatever the bytes of an uninitialized
context are) states SHA-256 itself, `SHA256`, as sections 5
and 6.2 of FIPS 180-4 do: the blocks of the padded message (`Block`), the 64 words
that a block is stretched to (`Schedule`), the 64 rounds (`Rounds`), and the chain
through the blocks (`Chain`). `HashInvariance` is its inductive invariant:

* `PaddedSoFar`: the blocks so far are those of the padded message, and the buffer
  holds the beginning of the next one as far as the stage has come. The properties
  speak of the ends only; between them the last one or two blocks are put together
  by four stages, and `Remaining` says what each leaves to the next: the bytes behind
  `datalen` are whatever they were, and so are the last eight until the length is
  written. That the padding has one block or two to fill, and that a block is full
  when it is transformed, is the arithmetic of `BlocksAre`.
* `ChainedSoFar`: the state is the chain's after the blocks compressed; during a
  transform, the one before.
* `CompressedSoFar`: how far the transform has come, for each form of it. The scalar
  code has words and rounds as the standard has them (`ScalarSoFar`). The NEON code has
  four words in a vector and the state in two; `NextVector` shows that
  `vsha256su0q` and `vsha256su1q` make the next four words, two of which depend on the
  other two, and `HashedIs` that `vsha256hq` and `vsha256h2q` do four rounds. The forms add
  up in another order, so this needs that addition of words, which are pairs of
  halves with a carry, commutes and associates (`AddAssociates`). The rolled-up form
  keeps the last four vectors only, in a ring (`RolledSoFar`).

From it: `HashesThePadding` (`HashesPadding`), `MethodsAgree` (`HashesAgree`), and what neither
says by itself, `ComputesSHA256`. Its definition of SHA-256 takes constants, functions
of words and the single round from the modules they are modelled in; that these
are the standard's is what the published digests of `HashesKnown` show.

`Induction` holds what these proofs need of induction over data. The theorems of the
library take an operator as a parameter, which the provers cannot instantiate; these
are about sets and functions instead (`InductiveSet`, `PrimitiveRecursion`) and
rest on `FiniteSetTheorems`. A recursive function is a `CHOOSE`: a proof shows that some
function satisfies its definition, hence that it does, and goes on by
`InductiveInterval`. The sum over a finite set is such a function, over its subsets; that
it may take the elements in any order, and grows by what is added to the set, is
shown by induction on the size of the subset (`SumInAnyOrder`, `SumGrows`). Recursion in the modules proved about (`HashOf`, `Power`, `CodeAt`)
is written in that way.

The second part of `KernelProofs` is about `KernelDriver` (for all arguments and
interrupt masks): `DriverInvariance` and, from it, `IdleIsHonest`,
`WholeArguments`, `RunsNoticed`, `RestartAsAsked` and `NoSpurious`. `DriverInv`
says what each thing that a caller has read is still worth while the kernel and
the other caller go on: that it is ready (`ArgumentInv`), that it is done
(`DoneInv`), and what will be written back (`RestartInv`). As nearly every step
is a cycle of the registers, what a cycle does is proved first, for any access,
and then each part for each step.

`RobinHoodProofs` (for every finite set of keys, hash function, number of hash
multipliers and of tries, size of info bytes, load factor, and insertions and sizes
called with; that the smallest table allows one element is the only thing assumed
that the code does not assert): `MapInvariance`, and from it `LookupsStayRight`,
`IterationComplete`, `InfoStaysHonest` and `TableIsMap`.

* What lookups need of a table is not that its info bytes are honest (`Honest`) but
  how its nodes are ordered: a node away from home has one before it that is at
  most one step nearer to its own home (`Ordered`). Going back from a node to its home,
  no info met is less than that of the search (`Behind`), so that no search stops too
  early, looking at one slot or at two at a time (`FindsIt`). The same shows that the
  search of an insertion, which stops by another condition, stops at the same slot
  (`DiffersIs`).
* Each operation keeps the order: putting a node before the first that is nearer to
  its home and moving those after it (`PutSound`), moving nodes back over a hole until
  one that is at home (`ShrunkSound`), halving all info bytes (`IncreaseSound`), and fresh
  and cleared tables (`FreshSound`, `ClearedSound`). Two bytes must be proved not to wrap:
  one that is full stops insertions until it has been halved (`Room`), and the new
  node's is at most a step above that of the node it displaces or follows
  (`PutSpot`). There is a free slot before the sentinel (`FreeSlot`) because fewer nodes
  than are allowed cannot fill the extra slots and the last home, or, where there
  are fewer extra slots than that, because no byte could say how far the last node is
  from home.
* Between the nodes of a rehash and the table that they move into, `Incoming` says
  that they are other keys' and that all of them are allowed; with this no step
  of a rehash has to look for its key.
* `TableIsMap` is the refinement that the run checks, `IsMap`: each step of a call is
  one of `PartialMap` or none (`StepImplements`). It needs no fairness. `Contents` are the
  nodes of the table and those on their way; that they have one node for each key
  makes `Entries` the map they are (`EntriesPut`, `EntriesLess`).
  `PartialMap` keeps the keys on their way as well, `away`, which start as all the keys
  and arrive one by one (`AllAway`, `ArriveImplements`). An overflow costs the map those
  and no other (`OverflowImplements`): an exception in the middle of a rehash loses the
  nodes it has not moved, and an insertion that gives up after 256 tries, whatever
  those did to the table, loses nothing.

The run checks `MapInv`, of which `InfoHonest` is the part that speaks of the info bytes
only.

## 5. Only model-checked

Liveness (`EventuallyLossless`, `EventuallyReceived`, `StartsTaken`, the fairness half
of `CopiesFile` and of `CompressesInTurn`): it is out of the prover's reach. So is
`HashesKnown`, which compares digests with three that were published and which only
evaluation decides.

## 6. Not modelled

The HLS pragmas and the datapath generated from `lzw_hw.cpp` (its source is
modelled, and its control); options, timers and printing; device discovery and the
loading of the FPGA binary; a client and a server started with different block
sizes.

Of `robin_hood.h`: the pool allocator of the node map (`BulkPoolAllocator`), the hash
functions and the type machinery. Of the driver: a failing `mmap`, which passes the
assertion that is to catch it, and calls after `Release`; both are undefined from
then on and stand in the list of hazards. `Get_compressed_size` reads an output
that has no valid bit: what it returns after the run is undefined in the HDL.

Superseded files: `encoder_old.cpp`, `encoder_hw.cpp` and `src/encoder.cpp` have the
loops of `encoder.cpp` and `Host.cpp` around older parts; `deduplication_old.cpp`
likewise. `cdc_old.cpp` has a rolling hash whose table of powers leaves one out, so
that it is not the hash that it rolls, and a loop bound that wraps for files
shorter than its window; nothing links it. The Mac client differs from the other
in nothing that is modelled.

## 7. Plan

What has been done, in the order of importance: `Archive` with `FileCopy` and its
proof; `Chunking`; `Lzw`; `Transfer` with its disagreements; `Sha256`; `HostQueue` with
`KernelCalls`; then the compression function of SHA-256, the hash map with
`PartialMap`, the driver above the registers, the first LZW encoder, and the proofs
about `KernelDriver`, about what `Transfer` receives, about blocks that restore their
chunks (`Lzw`), archives that were cut, statistics, content-defined cuts, the hash
map, the first LZW encoder, and SHA-256.

What is left:

* `BulkPoolAllocator`, if the node map is ever used.
