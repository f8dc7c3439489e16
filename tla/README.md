# VladBootin in TLA+

VladBootin (`src/`) is a bare-metal bootloader for the Raspberry Pi 2: it loads a
Linux kernel and a device tree over the serial line or from a FAT32 SD card,
patches the tree and jumps; without either it ends in a shell on the serial line
and a framebuffer. This directory models the parts of it that decide whether
Linux gets the right bytes and whether the program stays in its own memory, checks
them with TLC on small instances, and proves the main safety results for every
value of the constants with TLAPS.

Line numbers below are those of the files under `src/`.

## 1. The system

| Part | State it keeps | Operations | Talks to |
|---|---|---|---|
| Serial boot, device (`core/boot_mode/serial_boot.c`) | locals of `bootFromSerial`, the load regions in RAM | wait for SYN, two sizes, two files in chunks of 256 acknowledged bytes, magic, hand-off | UART, device tree updates, `linux_boot` |
| Serial boot, host (`Image_Loader/image.py`) | how far it has come | open, SYN, sizes, chunks, 2 s wait for each ACK, monitor, Ctrl-C | the line |
| UART (`driver/uart/uart.c`) | two 16-byte FIFOs | poll, get, put | the line |
| File boot (`core/boot_mode/file_boot.c`) | sizes found, load regions | three searches, two loads, magic, hand-off | FAT, heap |
| FAT (`fs/fat.c`) | `partitionlba`, `bpb`, one cached FAT sector, `lastFileDimension` | find the partition, search and list a directory, read a file | SD driver, heap |
| SD driver (`driver/sd/sd.c`) | `init`, `sd_rca`, `sd_scr`, `sd_err` | `sd_init`, `sd_readblock` over commands and polls | EMMC controller, card |
| Heap (`core/mm.c`) | `nextptr` | `alloc`, `reset_mem`, `mem_clear` | everyone who searches or reads |
| Shell and main (`main.c`) | line buffer, `sd_ret`, `DEBUG` | edit a line, dispatch of 20 commands; serial boot, then file boot, then shell | all of the above |
| Device tree updates (`lib/fdt.c`) | the tree in RAM | patch `/chosen/bootargs` and `memory@0/reg` in place | the two boot paths |
| Framebuffer console (`driver/framebuffer/lfb.c`), mailbox (`driver/mbox/mbox.c`) | geometry, cursor; message buffer | set-up, print, scroll, clear, pictures; one call at a time | GPU, printf |
| Signature check (`core/signature_check.c`, `lib/crypto/`) | none | SHA-256, RSA-2048 by Montgomery products, PKCS#1 | shell |
| Startup (`start.S`, `linker.ld`) | vectors, BSS, the parked cores | copy vectors, park cores 1-3, `prepare_boot`, `linux_boot` | main |
| Delays (`driver/delays/`) | deadline | busy waits | all drivers |

One core runs and interrupts only print, so there are no threads. What runs
concurrently with the program is outside it: the host, the line, the EMMC
controller and the card, the GPU. The hard behaviours are therefore

* the serial protocol: two programs that count bytes separately, a lossy FIFO, a
  host that gives up first, a user who interrupts and starts again;
* a card that fails at any step of a multi-step operation, with state left
  behind in the controller, in the FAT cache, in `partitionlba` or in a buffer;
* sizes and offsets chosen by the other side, in 32-bit arithmetic that wraps;
* a heap nobody gives back, which grows towards the load regions;
* state kept from one command to the next: the rest of a dropped line, `sd_ret`,
  a long name collected over directory entries, a cursor at the screen's edge.

What makes each part correct:

* **serial boot**: bytes received are only written inside a region that was checked to
  lie in RAM; kernel and tree do not overlap; the jump needs both complete and the
  magic; what is booted is what the host sent; a refused or timed-out attempt
  leaves nothing behind for the next;
* **file boot and heap**: Linux gets both files whole and as checked; the heap stays
  between its ends, and nothing but the rest of one sector behind its last block
  reaches the peripherals;
* **FAT**: the file found is the first of its name, under its long or its short
  name; the bytes delivered are the file's, in order; a failed read leaves no
  half-valid cache or partition; reads end on cyclic chains;
* **SD driver**: success means the right sectors; no answer is one to an earlier
  command; the card is left ready for the next (all this as long as no poll runs out
  unnoticed, section 4); every call returns;
* **device tree updates**: only the two values change, whatever the tree's layout,
  also in a tree that was not loaded whole (of what is no tree at all nothing holds,
  section 4);
* **shell**: the line that runs is the line on the terminal; a command uses the
  card only when it is there;
* **console**: the screen shows the end of what was printed; drawing, clearing and
  scrolling reach nothing beside the framebuffer;
* **signature**: the image passes exactly when PKCS#1 v1.5 says so.

## 2. The modules

| Module | Models | Composes |
|---|---|---|
| `BootAttempt` | abstract: what any attempt to load Linux promises about memory | |
| `SerialDevice` | `bootFromSerial` and the UART it polls, against any line | refines `BootAttempt` |
| `SerialHost` | `image.py` | |
| `SerialLink` | device, line, host, the person at the keyboard | `SerialDevice`, `SerialHost` |
| `Heap` | `alloc`, `reset_mem`, what clearing does to memory | |
| `FileBoot` | `bootFromFile` among the commands that use the heap | extends `Heap` |
| `FatVolume` | the card's layout, `fat_getpartition`, `fat_get_next_cluster` with its cache | |
| `FatRead` | `fat_readfile_to` | extends `FatVolume` |
| `FatDir` | `fat_getcluster_ex`, `fat_listdirectory` | extends `FatVolume` |
| `SdCard` | `sd_init`, `sd_readblock`, `sd_cmd`, the poll loops; controller and card | |
| `FdtTree` | the bytes of a device tree as the walkers read them, and as `dtc` writes them | |
| `Fdt` | `fdt_update_bootargs`, `fdt_update_memory` | extends `FdtTree` |
| `Console` | `lfb.c`, `mbox_call`, the GPU | |
| `Shell` | `vladBootin_main`, `handleMenu`, `parseCommand` | |
| `Signature` | `selfcheck_verify_signature` with SHA-256's padding, bignums, Montgomery products, PKCS#1 | |
| `*Proofs` | theorems (section 5) | extend the modules they are about (`FileBootProofs`: `FileBoot` and `Fdt`) |
| `MC*` | instances for TLC | |

How the models correspond to the code (PROJECT.json's `map` gives the lines):

**SerialDevice.** `pc` names the read in `bootFromSerial` that comes next; each
action is one byte received with everything the code does before the next poll
(store, pointer, chunk counter, ACK). `Expect` and `Refuse` are the size checks
with their replies. A size is two bytes of base `ByteBase` instead of four of
256, so an address is a number below `ByteBase`² and sums wrap there.
`c` starts with any value in `StackBytes`, because line 27 leaves it
uninitialised. The UART's FIFOs are sequences with a bound; `OtherReader` is the
shell or Linux reading the line when `bootFromSerial` is not running. What the two
device tree updates may change is `FdtCells`: if the blob is one of `Trees`, cells of it
behind the magic (`Fdt` says which); with any other blob that has the magic, cells
anywhere, because the walkers hold no offset of the header against `dtb_size`
(`fdt.c:17-37`, 178-204). The hash is only printed and left out.

**SerialHost / SerialLink.** `step` is the part of `image.py` that runs, `waiting`
is `wait_ack`. `Timeout` and `Interrupt` leave bytes on the wire. `Prompt` says
whether the 2 s and 0.5 s in `image.py` are long enough for what is under way to
arrive, `Overruns` whether the receive FIFO may overflow.

**Heap / FileBoot.** A cell of memory is one of `junk` (anything), `zero`, `heap`,
`kernel`, `dtb` (a tree), `fake` (has the magic and is no tree), `blob` (neither).
Every search allocates a directory buffer that is cleared and never
returned; `alloc` wraps as the C does. A read may fall short (return), or write up
to `Padding` cells, a sector but one, beyond the request (section 4, `fat.c:568`).
When the updates run on something with the magic that is no tree, or no longer one,
nothing is known of the memory afterwards (`Leave`).

**FatVolume / FatRead / FatDir.** A byte on the card is its own position, so what
is at `dest[k]` says where it came from. Every read may fail, a run of sectors
half-way. `NextCluster` includes the cached sector and its invalidation,
`GetPartition` the early setting of `partitionlba`. `dest`, `total_read`,
`bytes_remaining`, `run_start`, `run_clusters` are the C variables. All lookups a
call makes are actions of their own, so that failures come between them. Whether
a sector can be read is `sd_readblock`'s contract (nonzero: the sectors are
there); `SdCard` shows when the driver keeps it. In `FatDir` a directory entry is
a record of its kind (file, piece of a long name, deleted, label, end); one action
is one turn of the loop over the entries, `lfn_buf` the buffer the pieces are
collected in, with the index a piece's number gives it.

**SdCard.** A call is a script (`todo`) of commands, waits for the data path and
sectors to take, worked off from its head and given up at the first failure, as
every `if(sd_err) return` in the C does. `PollStep` is one turn of the loop of
`sd_status` or `sd_int`, with the unsigned post-decrement; `Refused` and `Passed`
are the tests after the loop, on registers that may have changed since. `Issue`
clears pending interrupts as line 244 does. Controller and card are external:
`Responds`, `NoAnswer`, `SectorArrives`, `TransferEnds`, `DataError`, `CardStops`
follow the SD state diagram as far as the driver depends on it, and any of them
may never happen. The history variable `late` is set when a poll loop ran out and
the driver went on without what it had waited for. As in the code, whether the card
is addressed by blocks is taken from every answer to ACMD41, also from one that says
the card is busy (`CcsOf`); that a busy card sets the bit only if it means it is assumed
(`CcsAssumption`). `sd_clk`'s counters
are signed and their exhaustion is noticed, so it is one step that works or
fails; pin set-up and the divider are left out.

**Fdt.** The tree is memory, byte by byte: a function from addresses to bytes,
with zeros behind it. A step is one token of the struct block; words have `W`
bytes, are read most significant byte first and wrap. `bootargs`' offset is
looked for in the strings byte by byte up to `SearchLimit` (4096 in the code), and
the walks take the bounds the code takes, from the header fields it takes them
from. `FdtTree` says what a tree is apart from its bytes (`LaidOut`): where its tokens
are, in which nodes each lies, and so which `reg` and which `bootargs` are meant. The
walkers use none of this; it is what their updates are compared with.

**Console.** Memory is counted in pixels; a pixel drawn for a character holds which
pixel of which glyph it is, so the screen can be compared with the text. Wrapping,
tabs, the scroll by one row and the addresses computed from `pitch` are those of
`lfb_putchar`. `outside` is set by every address beside the framebuffer that a
letter, a blank, the scroll (what it reads, what it writes and the row it clears),
`lfb_clear` or a picture reaches (`ScrollReached`, `ClearReached`, `Touch`); nothing is cut
off at the framebuffer's end first. `mbox_call` is two poll loops; the GPU empties and
answers the mailbox when it likes, with answers to others between.

**Shell.** An action is a key of `handleMenu` (a printable one, backspace, any key on
a full line, return) or one command of `parseCommand`'s dispatch. The cell behind
the buffer is part of `command`. The loaders are known by their return values,
which `SerialDevice`, `FileBoot` and `SdCard` model; commands that touch none of
this state are `other`.

**Signature.** The numbers of values of a byte and of bytes of a word are parameters.
`MontMul` goes row by row with every carry, as the C does; an action
is one block of the hash, one doubling towards R², one bit of the exponent. The
compression function is left out: of the blocks comes any digest.

## 3. What the runs check

| Run | Shows |
|---|---|
| `device` | for every byte sequence: `RegionsHold` (the write pointer is as far from the end of an admitted region as there are bytes to come), `ImplementsBootAttempt` (no received byte goes outside an admitted region, no jump without both files and the magic; the updates keep to the tree, if the blob is one) |
| `link` | the two ends stay in step under overruns, early timeouts, late answers, one Ctrl-C and one key typed before or after; only the host's files are booted; "transferred" is true when `image.py` says it; good files are never refused |
| `link_live` | two runs of `image.py`: good files boot, bad ones return, a refused or timed-out run leaves nothing for the next |
| `file_boot` | the heap stays between its ends, and only the rest of a sector of a text, behind the last block, reaches the peripherals (`SpillsOnlyASector`); if the heap ends below the tree Linux gets a blob with the magic, and both files whole if that is a tree |
| `fat_read` | delivered bytes are the file's, in order, at every moment; a short read is a prefix and only at a failure or the chain's end; the cache and `partitionlba` are never half-valid; no write behind the last sector; calls end on cyclic chains |
| `fat_dir` | a search finds the first file of the name, long or short, in whichever cluster it is; the listing is the directory; no letter of one name reaches another (nor leaves the buffer); walks end where the chain ends and the table can be read |
| `sd_card` | while no poll ran out unnoticed: success means the right sectors and a card ready for more, also after failed calls; `init` means selected and correctly addressed; answers are never stale; every call returns |
| `fdt` | only the two values change, also in a tree cut off while loading; `memory@0/reg` and no other node's is set; `bootargs` reads as the command line where the walk reaches it |
| `console` | the screen is, pixel by pixel, the end of what was printed, through wrapping, tabs, erasing and scrolling; no letter, scroll, clearing or picture reaches beside the framebuffer; the geometry is that of an answer to this call |
| `shell` | what runs is what the terminal shows, whatever was typed, rubbed out or thrown away before; only the terminating NUL goes past the buffer; once the card was tried, a command that looks at `sd_ret` reads it only if it is there; `boot` passes on the two words typed |
| `signature` | what is hashed is the image padded as FIPS 180-4 says; every round of the power agrees with plain modular arithmetic; an image passes exactly if its signature is a PKCS#1 v1.5 one |
| `shell_returns` (violation) | with no host and no card the program ends without a shell (section 4) |

Every property of a passing run has a mutant: a plausible change of one mapped
definition under which TLC finds that property violated. The type invariants that
no run lists (`FdtTypeOK`, `ConsoleTypeOK`, `ReadTypeOK`, `SdTypeOK`, those of
`FileBoot` and `SerialLink`) say what values the variables have; they hold in the runs'
state spaces, and those of `FileBoot`, `FatRead` and `SdCard` are proved.

### Bounds, and why they are enough

* `device`: base 3, nine addresses, kernel at 4, tree at 1, RAM up to 7. A size can
  be zero, fit exactly, overlap the other region, pass the RAM's end, and wrap;
  chunks of 2 give full, short and single chunks. FIFO depth 1 already
  separates "arrived" from "read". Every byte may be the one on the stack. Of the blobs
  with the magic three are trees and the others are not; the updates change at
  most one cell (`MaxUpdated`), anywhere if the blob is none.
* `link`: sixteen addresses, chunks of 3, files of 0 to 6 bytes that contain SYN and the
  exit byte as data, among them a kernel that overlaps, a tree that is too long and one
  without the magic; one run, one interrupt, one key. `link_live`: two runs, so that a run
  can meet what another left. The theorems of section 5 lift the bounds on files,
  chunks, FIFOs, interrupts and keys.
* `file_boot`: 20 cells; the heap can lie below, inside and above both regions, and
  sums past the last cell wrap. A sector (3 cells) is longer than what `alloc` rounds
  up to (2), as on the board (512 and 16), so that a text in the last block does spill
  into the peripherals.
* `fat_read`: sectors of 2 bytes, clusters of 1 and 2 sectors, chains that are
  contiguous, scattered, backward and cyclic over two FAT sectors, sizes 0 to 11:
  every position relative to sector and cluster ends and to the 4-sector limit
  of a run. Words are below 32 so that `BadCluster` wraps onto the card.
* `fat_dir`: clusters of three entries, names of 2 and 1 characters, pieces of 2:
  seven cards with long names inside a cluster and across two, pieces of deleted
  files, pieces without a file, a piece whose number is out of range, a full last
  cluster without an end mark, a cyclic chain, no partition. Words are below 16, so
  that `BadCluster` wraps onto the card and can be walked round.
  Twelve searches hit long names, short names, prefixes of both, other case,
  nothing, and the empty name.
* `sd_card`: `Polls = 1` gives all three outcomes of a loop (in time, at the last
  poll, not at all); `OpTries = 2` a first, a repeated and a last ACMD41; reads of
  one and two sectors; a card addressed by bytes (with bit 0 of its SCR set), one
  by blocks without and one with SET_BLOCK_COUNT, of which the first has the wide bus
  and sets CCS already while it is busy.
  Calls are unbounded in number.
* `fdt`: words of two bytes, so that alignment, lengths and offsets stay apart; 14
  trees with values of 0 to 8 bytes, names that end alike, a `reg` in a child and
  in a sibling, `memory@0` before and after `chosen`, strings longer than the
  struct block; one of them cut off behind every byte, over zeros and over ones.
* `console`: glyphs of 2 by 2 on screens of 2 by 2 and 3 by 1 characters with pixels
  left over at both edges and a pitch beyond the width: four characters wrap twice
  and scroll; one answer to another in the mailbox; set up again after a
  refusal.
* `shell`: six characters: the longest line (one that just holds `boot` with two
  arguments), one too long, commands that begin another, arguments as long as
  their buffer.
* `signature`: three words of two bytes of two bits: carries past a row, out of the
  top word, and a final subtraction all occur; moduli at the top of the range,
  composite, below the encoded numbers, even, 1 and 0; all 4096 signatures;
  lengths around one and two blocks.

`CHECK_DEADLOCK FALSE` is set where the system really stops: Linux has taken over
(`FileBoot`, `Shell`), the bounded person is done (`SerialLink`), the call is over (`Fdt`,
`Signature`).

### Fairness

* `link_live`: the device's loop, delivery on the line, and the host program keep
  going (each runs on its own processor or in hardware). Nothing is assumed of the
  person, except that `bootFromSerial` is called once, which main does at
  power-on. The instance has `Prompt` and no overruns: the claim is only that the
  protocol makes progress when its delays are long enough and no byte is lost.
  With a loss or a host that goes away it does not: no wait behind the
  handshake has a limit (`serial_boot.c:113`). The updates of a blob that is no tree
  need not come to an end, so nothing is assumed of them.
* `fat_read`, `fat_dir`: the processor executes the call (weak fairness of `ReadFile`,
  of `Walk`). `WalksEnd` speaks of directories whose chain ends and walks that could
  read the table: the walk has no other bound (`fat.c:367`).
* `sd_card`: weak fairness of the driver only, none of controller or card:
  `CallsEnd` holds for a card that never answers.

## 4. Disagreements found

One has a run and is listed in PROJECT.json: `main.c:643` says of the attempt on the serial
line "If it fails go to shell.", and `handleMenu()` at line 669 is where every
path is meant to end. When the attempt times out and the card fails too, line 658
returns from main instead, to the branch to itself in `start.S` (`shell_returns`).

Known divergences that a model shows but whose run is not kept, because the
properties of the passing runs say what holds around them:

* `serial_boot.c:51`: the byte tested after the wait loop is uninitialised when no
  byte came; a stack byte 0x16 passes for a loader. `device` starts from every stack
  byte; `link` and the proofs about it start from others.
* `image.py:157`, `image.py:221`: after Ctrl-C during a file the device still counts
  data; the next run's SYN is stored as data and can be answered by a chunk's ACK.
  `link` has one run with the interrupt, `link_live` two runs without; the
  theorems assume one run (section 5).
* `file_boot.c:100`: the search for `cmdline.txt` allocates after the tree was
  checked and clears it once the heap has grown to it. `BootsWhatItLoaded` holds
  while the heap ends below the two files.
* `fat.c:568`: the copy length subtracts all bytes read so far from what remained
  when the run began; after whole clusters it wraps and a whole sector is copied,
  padding included, against the comment at 605-607. `StaysInLastSector` is the bound
  that holds. For `cat` and `hexcat` (`main.c:465`), whose block is one byte longer than the
  text, the rest of the sector goes past the block, and past the heap's end if the block is the
  last (`README.md:256-260` says allocations are checked against the MMIO boundary; the
  blocks are, what is read into them is not). `SpillsOnlyASector` is the bound
  that holds.
* `fat.c:136`: the value returned for a FAT sector that cannot be read is below the
  end-of-chain bound, and the loops at 439, 477 and 736 follow it as a cluster. `ExposesTheFile`
  speaks of reads whose table can be read. A walk over a directory can read
  that cluster for ever if its address wraps round onto the card (16 sectors or more
  to a cluster) and the table stays out of reach, so `WalksEnd` does not speak of
  walks in which a lookup failed.
* `fdt.c:17-37`, 178-204: the walkers take offsets and sizes from the header, and neither
  `serial_boot.c:223-224` nor `file_boot.c:119-120` checks more of a blob than its magic. With
  a blob that is no tree the updates read and write where its header says.
  `ImplementsBootAttempt` and `BootsWhatItLoaded` promise what they say of the updates for
  trees only.
* `sd.c:713`: CCS is looked for in every answer to ACMD41, although it means something
  only when the card is no longer busy. A card that set it early and was addressed by
  bytes would be read at wrong addresses; `CcsAssumption` excludes it.
* `sd.c:135`: the unsigned post-decrement leaves the counter at 2^32-1 when a poll
  loop runs out, so the test for zero misses it and a read of a silent card reports
  its sectors, against the comment at 318-319 (0 on error). The properties of
  `sd_card` speak of calls in which no loop ran out (`late`), except `CallsEnd`.
* `fdt.c:182`: the walk for `bootargs` takes the size of the struct block (comment
  at 202) from the header field at offset 32, which is the strings' size; the walk for
  `memory@0` takes it from offset 36. `ArgsAreSet` has that bound in its condition.
* `fdt.c:238`: for a `bootargs` of no bytes the terminator goes to the byte before the
  value; `OnlyValuesChange` names that byte as its one exception.
* `lfb.c:468`: the pictures are drawn without a look at whether there is a
  framebuffer, which lines 126-128 mean to keep disabled then. `DrawsInside` speaks of a
  framebuffer that was set up.
* `fat.c:367`, `fat.c:668`: a directory chain with a cycle and no end mark is read
  for ever. `WalksEnd` speaks of chains that end.

Met in reading, plain text or in parts that are not modelled:

* `serial_boot.c:31` and 50-53 speak of 5 s; line 32 waits 10000 ms.
* `main.c:49`: `sd_ret` starts as `SD_OK`, so `cat`, `hexcat` and `testfile` skip
  `sd_init` before the first use (`ReadsAReadyCard` speaks of the time after it).
* `main.c:528`: `hexcat` passes a length where `uart_dump` (`uart.c:256`) takes an
  end address, and dumps nothing.
* `main.c:587`: `relocate` copies each byte into a word of its own, past the block
  it allocated; the command leaves the program.
* `main.c:28`: the help names `kernel7.img`, `file_boot.c:24` loads `signed_kernel.img`.
* `start.S:149` says that the literal table is copied with the vectors; the 64
  bytes copied end before it.
* `uart_init` sets a divisor of 2 where its comment says 1.

## 5. What is proved

All proofs are checked by TLAPS to the last leaf, for every value of the constants
that satisfies the named assumptions of the module.

**SerialProofs** (about `SerialDevice`, from `SizesAssumption`, `BytesAssumption`,
`LayoutAssumption`: positive sizes, protocol bytes are bytes, load addresses are
addresses, the magic fits behind the tree's address): `TypeCorrect`,
`RegionsAlwaysHold` and `DeviceImplementsBootAttempt`. The inductive invariant `Inv`
is `TypeOK` with the regions in RAM and apart, and for the byte loops the
equation `ptr + remaining - i = end of the region` with `i` below both the chunk
and what remains. Without the equation `TypeOK` is not inductive: only it keeps the
subtraction at a chunk's end from going below zero. There is one lemma per
action; the refinement maps each action to a step of `BootAttempt` or a stutter
through a table of stages (`RefineSync`, `RefineKernelSize`, ...). Of the step `Boot`
`BootAttempt` asks that the updates keep to the tree's cells behind the magic only if the
blob is one of `Trees`, whatever set of blobs that is.

**LinkProofs** (about `SerialLink`, from `LinkAssumption`).
`LoopsStayInStep`, `BootsWhatTheHostHas`, `SuccessMeansReceived` and
`RefusesNoGoodFiles` hold under `OneCleanRun`: at most one run of `image.py`, and
neither a stack byte nor a typed key is SYN. Both are needed: section 4 says what a
second run after an interrupt and a stack byte 0x16 do. Nothing bounds the
files, the chunk, the FIFOs, the losses, the timeouts, the interrupts or the keys. They follow from
one invariant, `Together`:

* `Unit`: no more is on its way to the device than it needs until it next answers;
  if it is as much, nothing was lost and every byte is the one the host has for
  that place; if it is less, the device never answers again. A loss therefore ends
  in silence and never in a wrong byte that is acknowledged.
* `HostInv`: while the host waits, either no answer is on its way and the device is
  within what was sent, or the one that is belongs to exactly that; when it does not wait,
  both are at the same byte with an empty line.
* `Early`: before the handshake nothing on the line can be taken for the host's SYN
  or for the ACK to it, so the ACK that `image.py` reads is the device's.
* `Local`: types, and `i` below the chunk.

`Unit` is stated for as long as no stray key can be in the line (`Clean`); keys
typed after `image.py` went over to its monitor fall outside it.

**FileBootProofs** (about `FileBoot`, from `HeapAssumption`: block sizes do not wrap
when they start below the peripherals; and `FilesAssumption`: the files on the card fit
where they are loaded, which `file_boot.c:56` takes for granted and never checks):
`FileBootTypeCorrect`, `OnlyASectorSpills`, `LinuxGetsWhatWasLoaded`. `Inv` is `TypeOK`,
`HeapInv` (the heap lies between its ends), `SpillIsText` (what was written from the
peripherals' start on is text of `cat`, and less than a sector of it; until the updates
ran), `StageInv` (at each stage, what was loaded is still there) and `BootsAtUpdate`
(from the search for `cmdline.txt` on, it is if the heap ends below the tree and the
blob is one). The loads and the heap meet in two lemmas: an allocation grows the heap
and touches no cell from its new end on (`HeapGrows`), a load touches no cell below its
base or beyond its end plus `Padding`.

and, about `Fdt`, `OnlyTheValuesChange`, `TheMemoryIsSet` and `TheArgsAreSet`, for every
width of a word, every RAM size, every nonempty command line and every tree that is `LaidOut`
(`FdtAssumption`, which TLC evaluates on all trees of the run). What `LaidOut` asks for
beyond the format's grammar, and why:

* the names `reg` and `bootargs` lie within the walkers' search limit, and `bootargs` is
  entered where it reads first (`dtc` searches before it appends): the walker compares
  offsets and not names;
* no `memory@0` lies inside another: `in_memory_node` is one number and not a stack;
* a tree cut off while loading holds a prefix of the tokens, and behind the cut nothing
  reads as a property of one of the two names (`Silent`). The code cannot tell such
  leftovers from a tree; with them it would update a value that is no longer there.

`TreeInv` is the inductive invariant. `ArgsWalk`: the walk for `bootargs` stands at a token
and not behind the property, or past its bound, or behind the cut. `MemoryWalk`: the walk
for the memory stands at a token whose path is `depth` long, and the node
numbered `in_memory_node` on that path, and no other, is a `memory@0` (`InTree`); a `reg` found
with both equal is therefore the memory's own. `Kept` lets the second walk read the tree as
loaded: the first changed only `bootargs`' value, or, if that is empty, the last byte of
its name's offset (`TokenKept`, `PropKept`); an empty property is never taken for the `reg`.
`ArgsReached` and `ArgsHold` carry the command line to the end, past the second
update. The rest are lemmas on numbers: rounding a sum from an aligned place goes to
the next token (`RoundedFrom`), and the bytes written for the size read as the size.

**FatProofs** (about `FatRead` and `FatDir`; for the read from `VolumeAssumption`:
fields of the boot record and the number of sectors are words, entries of the table are
entries; and `ReadAssumption`: sizes are words and within the cells looked at):
`ReadTypeCorrect`, `PartitionStaysSound`, `CacheStaysCoherent`, and
`ReadStaysInLastSector` (sizes and offsets in the file are natural numbers in the model:
in the code they would wrap for requests within a sector of 2^32). For the last, the
invariant adds that `total_read` is whole clusters while the loop runs (`Aligned`), what
`bytes_remaining` was when the run began (`Remaining`), and that the sectors of a part
end where the request's last sector ends (`Sectorwise`): it covers the copy length that
wraps.

`ReadExposesTheFile` and `ReadIsShortOnlyAtTheEnd` say that what counts as read is the
file and that it is left early only where the chain ends. Their hypothesis is
`ChainIsWhole`: every cluster of the file has its entry in the table and on the card,
and none is numbered like the last value before the end marks. Without it the walk goes
where no file is, and the code cannot tell. `FInv` says where in the chain the walk is:
`RunAt(q)`, the run in hand is `run_clusters` clusters of the chain from the q-th on,
adjacent on the card, behind q clusters that have been read; `SectorAt(q)`, the same for
the part read sector by sector. The chain is a recursive function; the proofs unfold it
at the place where the walk is.

For the directory, `DirTypeCorrect`, `SearchFindsTheFile` and `ListingIsTheDirectory`, from
`DirAssumption` besides: to upper case is a map from letters to characters it leaves
alone, and a name asked for has no blank (`main.c` splits its lines at blanks, the other
callers' names have none), or is one that `filename_to_83` takes as it is. Their hypotheses:

* `DirIsWhole`: what lies at the directory's clusters is the directory, with each
  cluster's entry in the table. An end mark is not asked for.
* for the search, `NamesAreShort` (8.3 names on the card are in upper case, blanks only
  behind, as FAT requires) and `seen < SeenBound`: `seen` stops at as many entries as the
  table could chain, which only a walk round a cycle reaches.
* in the properties themselves, that the pieces before a file are numbered as they should
  be and fit the buffer (`AllWellNamed`).

`DInv` says that the walk stands at entry `seen` of the directory (`Standing`), that the
buffer holds the letters of the pieces directly before that entry and `Nul` elsewhere
(`Holding`), that none of the files behind it has the name (`Seeking`), and that the
lines printed are theirs (`Listing`). `Holding` is where a piece in another cluster than
its file and pieces of a deleted file are settled (`LfnTakes`, `NoPieces`). That the
padded eight and three characters and the name with a dot decide alike is a chain of
lemmas on sequences (`PaddedPart` to `ShortNamesMatch`). Stating them corrected the
reference `NamedBy`: a name of eleven letters without a dot is not cut, so it finds no
file by its first eight, and a long name that fills the buffer is not one the code can
tell from a longer one.

**SdProofs** (about `SdCard`, from `SdAssumption`, and for the addressing from
`CcsAssumption`): `SdTypeCorrect`, `AnswersAreNeverStale`, `ReadsAreRight`,
`ReadsLeaveIdle` and `InitSelects`, for any number of polls, tries, sectors and calls.
Except for the first they speak of what happens before a poll loop runs out unnoticed
(`late`; section 4, `sd.c:135`): for an answer that is until then or again after the
next reset of the controller, for reads until then only. They do cover loops whose end
is noticed and every other failure, in any number. A completion raised while a command
is issued is that command's because `Issue` clears what was pending and the command then
occupies the line (`OwnAnswer`); scripts keep the SCR's read from being their last step.
The other three need to know what card and controller hold at each step of a script:
`Whole` says where in its script a call stands (`InitAt`, `At`), what state the card is
in there, and what is still on its way: while a read's data is coming, the sector in the
FIFO and those behind it are the ones after the last one stored (`Coming`). After a
failed call nothing of the sort is known; `Ready` is what is left, and it is enough for
the next read because the first command of a script waits for the line.

**ConsoleProofs** (about `Console`; `ModesAssumption` holds a character per screen and
a pitch no shorter than a line, `LettersAssumption` that what moves the cursor has no
glyph): `CursorStaysInside`, `DrawingStaysInside`, `FramebufferIsTheAnswers` and
`ScreenShowsTheTail`. `IInv`: while `lfb` is set the geometry is one of a mode
and the cursor is on the screen; then every cell's last pixel (`AreaInside`), every
picture's (`PictureInside`), and all that `lfb_clear` and the scroll reach, the lines read
as well as those written (`ClearInside`, `ScrollInside`), have an offset below
`height * pitch`. An answer with a framebuffer has a
mode (`AnswerSound`), so the geometry of the last one answered to this call stays in use.

`ScreenShowsTheTail` is about pixels. Since the pitch covers a line, an offset belongs to one
pixel (`OnePlace`) and so to one character's place (`OneCell`): drawing and
clearing change their place and no other (`DrawnCell`, `ClearedCell`), scrolling
moves every place up by one and blanks the last row (`ScrolledCell`). `TInv` relates the screen to
the paper, a recursive function of the text: its line and column are the
cursor's, its lines from `Top` on are the screen's, and it is blank below its
line (`Below`), which is what makes the row that is scrolled in right.

**ShellProofs** (about `Shell`, from `ShellAssumption`): `LineIsParsed`,
`NulSpills`, `CardIsReady` (of a card that was tried; one that was not is let through,
`main.c:49`) and `BootTakesWords`. The invariant relates buffer and terminal cell by cell
up to `position`; what is behind it may be the rest of any line. For `boot`, the two
loops of `main.c:491-502` are shown to find the first and the second word of
every line (`FirstWordIs`, `SecondWordIs`).

**SignatureProofs** (about `Signature`, from `SignatureAssumption`): `CheckIsExact`: an
image passes only when the power of its signature is, byte by byte, the one
encoding of its digest: the loop over the padding can neither end early nor
skip a byte. `HashTakesTheImage`: what SHA-256 is given is the image, padded as FIPS
180-4 says, in whole blocks, for every length: `Feeding` says that the blocks so far, the
buffer and what is left make up the image.

`RoundsKeepThePower` and `TheSignedPass` are the arithmetic, for every width, key and
signature. What `SignatureAssumption` asks of the widths holds in the code: each Newton step doubles
the bits that are right, from 3, and four reach a word (32 <= 48); the least encoding fits the
modulus (62 bytes of 256). Congruence is stated by its witness (`Cong`), and each function
gets the number its words stand for:

1. `AddMulValue`: a row adds its product at its place, every carry included. `RowDone`: after each
   row, words of `t` below it are 0 and `t` is congruent to the product so far, below the bound that
   leaves the carry room (`RowsFit`). That the row clears its lowest word is `N0InvIs`.
2. `SubValue` and `SubIfGeIs`: one subtraction reduces. So `MontMulIs`: `R` times the
   result is congruent to the product, and the result is below `n`.
3. `CancelR`: modulo an odd number a factor `R` can be cancelled, so a product of two
   Montgomery forms is *the* form of their product.
4. `PowerInv`, the inductive invariant: while `r2` is computed it is reduced and
   congruent to `2^i` (`Doubling`, with `DoubleIs`); in the power's loop `acc` and
   `base` are reduced forms of the power by the bits above `i` and of the signature (`Raising`).
5. For the verdict: `ToBytes` and `FromBytes` undo each other (`FromTo`, `ToFrom`), the encoding
   passes the padding's check and no other bytes do (`EncodingPasses`, `OneEncoding`), so one
   number passes (`OneNumberPasses`). `PassInv` adds what each early return means.
   An exponent 0 skips the Montgomery form; its result 1 differs from the encoding, which is larger (`EncodedIsLarge`).

Recursive functions are `CHOOSE`s, of which nothing is known until a function with their
equations is shown to exist; so each has three lemmas: existence for every length, its
steps, and that the operator is its last value (`SomeBorrows`, `BorrowsAre`, `SubIs` for
the subtraction). For these proofs the model got its power as a recursive function
(`Pow`), as the prover's `^` has no such equations.

## 6. Only model-checked, and not modelled

Only checked by TLC:

* liveness (`GoodFilesBoot`, `BadFilesReturn`, `WalksEnd`, the two `CallsEnd`), which is
  out of this prover's reach;
* that the trees the instance builds from nodes and properties are those `LaidOut` describes:
  TLC compares the two descriptions when it evaluates `FdtAssumption`.

Every other property of a passing run is stated by a theorem.

The library's induction theorems have an operator as parameter and are out of
reach; where a claim about a recursive function is needed, the proof takes the least
argument at which it fails (`Inductive` in `SignatureProofs`).

Abstracted: register set-up, colours, the shapes of glyphs and pictures, text and hashes that are
only printed, the contents of files beyond which file a byte is from, widths
(names, sectors, words, the RSA modulus) as named in section 3.

Not modelled:

* **Delays and timer**: busy waits on a hardware counter; where a wait decides
  something it is the poll of the component that waits. The deadline is a sum of
  32-bit words that can wrap (`delays.c:52`).
* **Startup, secondary cores, hand-off**: assembly on system registers.
* **Compression of SHA-256**: pure bit arithmetic; the digest is any value.
* **`relocate`'s copy**: it leaves the program; what runs there is not this code any more.
* **Signing tools**: one-shot build scripts without state.
* **String and print library**: `stdlib.c` is used by its meaning, `printf.c` is a
  vendored formatter.
* **Constant data**: font, banner, pictures, generated keys.
* **Interrupt handlers** of `mm.c` (they print), **MMU and pin set-up**.
