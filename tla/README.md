# A TLA+ development of the Cornerstone virtual machine

The repository holds three interpreters of the Cornerstone virtual machine, an
assembler and a bundle packer. These modules model the two C interpreters,
**LinchpinST** and **Linchpin128** (its build for the C128, whose memory is
behind a RAM expansion), with what the **Chisel** assembler and **LP128Pack**
write for them: procedure calls and non-local jumps, the vector and tuple heap,
code and heap page caches, file channels, the loaders of images and bundles,
and the instructions that only compute. They are translated from the source;
`doc/vm-specification.md` is used only to say what is *promised*.

Paths are relative to `src/` of the project; `lpst_*` files are in
`src/LinchpinST/src` and `src/LinchpinST/include`, `lp128_*` files in
`src/Linchpin128/src` and `src/Linchpin128/include`.

## Inventory

| Component | State it keeps | Operations | Meets the others through | What is hard |
|---|---|---|---|---|
| LinchpinST control state (`lpst_run*.c`, `lpst_exec.c`) | program counter, current frame, shared `local_storage`, evaluation stack, call stack, jump snapshot table, tuple pointer, halt flag | every instruction; near and far call, return, SETJMP, LONGJMP, LONGJMPR | tuple pointer of the heap; code cache on LONGJMP | snapshots copy locals and call stack and must stay in step with them; table and token counter run out; an instruction goes on after a stack fault |
| LinchpinST heap (`lpst_run_runtime.c`, `lpst_vm.c`) | two bump arenas, a free list with one block per size, tuple pointer, RAM | VALLOC(I), VFREE, TALLOC(I), TPOP, loads and stores | SETJMP saves the tuple pointer | reuse of freed blocks; arena against tuple floor; TPOP of any size; handle 0x8001 |
| LinchpinST code cache (`lpst_run_core.c`) | slots with base, bytes, LRU tick and pin count; fast-path pointer | fetch, NEXTB, LONGJMP, header parsing, PINM, UNPINM | all control flow | failed and short reads, stale fast path, tick wrap, pins of a half-done PINM |
| LinchpinST channels (`lpst_run_io.c`) | channel table, next id, active id, slot 0xCC, C streams | OPEN, CLOSE, READ, WRITE, READREC, WRITEREC, FSIZE, UNLINK | the host's file system | buffered writes against other ways to the same bytes; ids; the default channel |
| LinchpinST image loader (`lpst_image.c`) | the image, its allocations, two open files | load, free | Chisel writes what it reads | offsets and counts from the file, early returns inside a loop that owns memory, page boundaries |
| LinchpinST globals | program globals, module globals, system variables | LOADG, STOREG, LOADMG, STOREMG | slots 0xC0.. drive display and files | slots with side effects |
| LinchpinST strings, arithmetic, bit fields, reals | none | pure functions of words and aggregates | heap | tie-breaks of sort keys, signs, widths |
| LinchpinST display, windows, EXTRACT | cursor, scroll region, window descriptors | DISP, PRINT.., EXTRACT | host console | record walks, clipping |
| LinchpinST hosts, command line | terminal | key decoding, output | everything | platform input and output |
| Linchpin128 machine (`lp128_run.c`, `lp128_vm.c`) | the same machine with small caps: locals of callers in a spill area, 8 SETJMP slots, heap and code behind page caches, direct-mapped caches of exports and initializers | as LinchpinST | REU | writes that must drop cached pages, copies in pieces, areas of the REU next to each other |
| Linchpin128 bundle loader and REU (`lp128_bundle.c`, `lp128_reu.c`) | tables in memory, sections in the REU, file position | one pass over the file in chunks | LP128Pack writes what it reads; KERNAL reads | reads that come short, places that depend on sizes read earlier, a self-test that may settle on other command bits |
| Linchpin (C#) | the same machine in `VmExecution.cs`, `VmRuntimeState.*.cs`; screen; disassembler | as above | as above | a second implementation that should keep the same promises |
| Chisel | symbols, layouts, branch sizes | layout passes up to a fixed point, cut off after 24; image files | grammar; the loaders | mutual dependence of sizes and offsets; formats shared with the loaders |
| LP128Pack | none | writes the bundle that Linchpin128 loads | bundle format | writer and loader must agree on offsets |

`PROJECT.json` lists each of them with its sources and what is modelled. What
makes each modelled component correct:

* control: a return gives its caller back exactly as it was suspended; a jump
  lands in the activation its token names, at the right address and depths and
  with that activation's locals; a token works as long as that activation
  lives, whatever else is called, saved or jumped to;
* heap: blocks never overlap, not even with freed ones; words keep their value
  until they are stored to; new blocks hold zeroes or their initial words; on
  Linchpin128, the cache and the transfers do not show;
* code cache: only the file's bytes are executed until a read fails, and never
  those of another page; pins are counted exactly,
  the oldest unpinned page is evicted;
* channels: a program reads back what it wrote through any channel, position,
  record or CLOSE;
* loaders: what the writer wrote is what is loaded; a file that is cut off is
  refused or loses only what is known to be lost; areas do not overlap; nothing
  is leaked; loading ends;
* computing instructions: they agree with what they are defined to be, between
  the runtimes and with what the assembler writes.

Both interpreters are one thread. There is no interleaving inside them; what
takes its place is the *program*, which may execute any instructions in any
order, and the host, whose reads, opens and buffer flushes may fail or happen
at different times.

## Modules

| Module | Role |
|---|---|
| `LpstControl` | the control state, one action per instruction (or per family of instructions with the same effect) |
| `Activations` | what calls and jumps promise: a stack of activations and records that name them |
| `LpstProgram` | `LpstControl` under section 6.7's rules for programs, and the refinement mapping to `Activations` |
| `LpstControlProofs` | theorems about `LpstControl`, and that it implements `Activations` under `LpstProgram` |
| `LpstHeap` | RAM, arenas, free list, tuple stack |
| `Vectors` | what the allocator promises: named aggregates with contents of their own |
| `LpstCodeCache` | the page cache and the instructions that go through it |
| `LpstCodeCacheProofs` | theorems about `LpstCodeCache` and `LpstRecency` |
| `LpstRecency` | `LpstCodeCache` with the order in which its pages were loaded, the relation `before` |
| `LpstChannels` | the channel table over buffered streams |
| `Files` | what the file services promise: files and positions |
| `LpstFileProgram` | `LpstChannels` under rules for programs, and the mapping to `Files` |
| `LpstChannelsProofs` | theorems about `LpstChannels`, and that it implements `Files` under `LpstFileProgram` |
| `ChiselImage`, `ProcedureHeaders` | the `.MME` and `.OBJ` files as Chisel lays them out, and procedure headers, written and read |
| `LpstImage` | `lpst_image_load`, step by step, over files of `ChiselImage` |
| `Lp128Control` | the control state of Linchpin128, and its mapping to `Activations` |
| `Lp128ControlProofs` | theorems about `Lp128Control`, and that it implements `Activations` |
| `Lp128Addresses` | handles, byte addresses and the effect of a store, shared by the next two |
| `Lp128Memory` | the heap in the REU behind its page cache, one action per instruction that touches it |
| `Lp128PlainMemory` | what it promises, which is the POSIX build: an array of bytes |
| `Lp128MemoryProofs` | theorems about `Lp128Memory`, and that it implements `Lp128PlainMemory` |
| `Lp128Pack` | the layout of a bundle as LP128Pack writes it |
| `Lp128Bundle` | the bundle loader of the C128 build, one action per read; EXTENDS `Lp128Pack` |
| `Lp128Boot` | `lp128_vm_init` on the loaded bundle, and the caches of the running machine; EXTENDS `Lp128Bundle` |
| `Lp128BootProofs` | theorems about the three of them |
| `Words`, `Jumps`, `BitFields`, `Strings`, `Extract` | the computing instructions as operators, for LinchpinST, Linchpin128 and, where it writes their operands, Chisel |
| `Operators` | composes these: a step presents one instruction with its operands, and properties relate the answers |
| `HeapAndComputeProofs` | theorems about `LpstHeap`, and that it implements `Vectors`; and about the instructions of `Operators` that compute |
| `LoadAndReadProofs` | theorems about `LpstImage`; and about what `Operators` reads: procedure headers and EXTRACT |
| `MC...` | small instances for TLC |

`HeapAndComputeProofs` and `LoadAndReadProofs` each hold the theorems of two parts
that share no state; the few lemmas that both need stand in each of them.

### `LpstControl`

State and code: `proc`, `pc`, `locals` are `current_frame`, `program_counter`
and `local_storage`; `stk` is `eval_stack_top`; `calls` is `call_stack`;
`snaps` is `jump_snapshots`, indexed by token because the table is searched by
token only; `tuple` is the words in use on the tuple stack; `halted` is
`is_halted` with its code as "fault" or "exit". `live` is a history variable:
the activation records that section 6.7 of the specification calls valid.

The words on the evaluation stack are abstracted to their number, so a popped
word (a target, a token, a local) is any word. A pop from an empty stack yields
0, and a stack fault sets `halted` while the rest of the instruction still
happens: both as in `lpst_exec_pop` and `lpst_exec_push`. `Operate` stands for
every instruction that pops, pushes and moves on or branches (arithmetic,
loads, comparisons, jumps, I/O); `StoreLocal` and `StepLocal` for stores to
locals, INCL and DECL; calls, `Return`, `SetJmp`, `LongJmp`, `AllocTuple` and
`PopTuple` stand for their handlers with all they call (`Refresh` inside a
call, `Release` inside a return).

Left out: a failing `malloc` (the machine halts), the instruction limit (the
machine stops between two instructions), the contents of the evaluation stack.

### `LpstHeap`

Positions are bytes as in the code, RAM is indexed by word. `saved` holds the
tuple pointers that jump snapshots keep. The program frees and stores only
what it holds (`vectors`, `tuples`: history variables) with the size it asked
for; stores are word stores, to which byte stores within bounds reduce.
`given` is the list of initial words that VALLOCI or TALLOCI popped.

### `LpstCodeCache`

A page's contents are the page number they came from, or `Junk` after a short
read. Every load may fail, or fail half-way. `underway` says that the current
instruction has fetched at least one byte, which every instruction does before
it transfers control. PINM is several steps (`PinStart`, `PinPage`, `PinDone`)
so that its half-done states are checked too.

`fetched` is the last byte that `fetch_byte` or `parse_private_header` was
given. A byte that cannot be read (`ByteLost`) halts the machine and is
answered as 0 all the same; the program counter moves on, and `lpst_run` looks
at `is_halted` only before the next instruction. A 0 for an opcode is BREAK
(`lpst_run.c:121`) and one for an extended opcode is unknown
(`lpst_run_dispatch.c:705`); neither does more. A 0 for an operand is taken as
one, and the instruction goes on to its end in the halted machine
(`WithOperands`): more fetches, which may succeed, a header, a transfer. NEXTB,
LONGJMP, PINM and UNPINM have no operands in the code and are not reached so.
The slot that a short read has spoiled still passes for its old page, so the
rest of that instruction may see `Junk`; `FetchedBytesTrue` says that it sees the
page's own bytes, a 0 or `Junk`, and before it only the page's own bytes.
`parse_private_header` does not look at `is_halted` at all: a marker of 0 is
never the last one, and its loop reads on until it meets a byte that is, which on
a file that stays unreadable it never does. `ReadHeader` is one byte of it, of
any page, any number of times; the model lets the header end at any of them.

### `LpstChannels`

`data` is the disk and each channel's `buffer` what a C stream has not written;
`Write` leaves its bytes in the buffer or on the disk, as the library likes;
`fseek`, `fflush` and `fclose` flush. `reply` is a history variable: the last
instruction with its operands, the bytes it moved and the word it pushed. The
file system, `fopen`, `fread` and `fwrite` are external and modelled by how the
code uses them; the disk is never full. A program that opens one file on two
channels does so only to read it (`Exclusive`): what two C streams make of one
file is the library's affair.

### `LpstImage`, `ChiselImage`, `ProcedureHeaders`

`ChiselImage` computes both files from a program: modules with procedures,
exports, globals, RAM and data. The header and tables of `.MME` are words, `.OBJ`
is bytes; bytes of code and padding are 0. Pages are 16 bytes and units of the
object file 32, as the source's 256 and 512. `LpstImage` has one action per
step of the loader that can return: opening and reading the files, tables,
each module, each procedure header, the RAM. Allocations and open files are
the set `held`; any allocation or read may fail. `case` is the pair of files:
whole, cut at any length, or with a word replaced. `Programs` are those the
whole and cut files are of; `WellFormed` says which may be among them.

### `Lp128Control`

As `LpstControl`, with the differences of `lp128_run.c`: a continuation keeps
no locals, which are written to `spill` at the depth of the call stack (only if
the caller has any); a full call stack is noticed before the arguments are
popped; SETJMP has 8 slots that only LONGJMP frees, and steps its token counter
past tokens in use; the procedure at 0x4620 of module 4, and a return to
0x45EB there, end the program.

### `Lp128Memory`, `Lp128PlainMemory`

`reu` is the whole REU: the heap at `REU_VM_HEAP_OFFSET`, the code pages right
behind it and the read-only data. `page` is `heap_page_cache`. Each
instruction makes the requests that its handler makes: reads that may load the
cache (a word may lie in two pages), writes that drop it, zeroing, copies in
pieces of `REU_SCRATCH_SIZE` from either end, READREC from the image and from
files. `op` and `out` are history: the last request and its answer, which
`Lp128PlainMemory` judges.

READREC computes its byte count in an `int` and casts it to `uint32_t` and to
`uint16_t`. That int has `ShortMod` values on the C128 and `LongMod` in the
POSIX build, and both builds compute with `RecordSize`, `ByteCount` and `Asked`
of `Lp128Addresses`, each with its own width. A product that the 16-bit int
does not hold is undefined in C: it wraps before it is widened or is computed
wide (`Widened`). A record of channel 1 looks neither at the end of the heap nor
at the cached page: it is copied and zeroed over the code pages on the C128
(`ImageRecord`; that those are then executed is not followed), while in the
POSIX build it leaves the array, after which that build may hold or do anything
(`Record`). A record of a file is written byte by byte and stops at the end of
the heap (`FileRecord`).

`DisciplinedSpec` restricts records of channel 1, and only those, to `MayRead`:
none of the record is behind the heap or in the cached page; slot 0xCC is not
negative as a 16-bit int; the record, `$1 * S` bytes, is no longer than 65535;
and if it is longer than 32767, which is negative as such an int, the region it
is read from ends within it. TLC finds that the builds differ when one of them
is dropped, but for the limit of 65535, which the small heap of the run implies.

### `Lp128Pack`, `Lp128Bundle`, `Lp128Boot`

A byte of the file is its position, so that a byte of the REU says where it
came from; `Junk` is a byte read after the end of the file, `Dirty` a byte of
the REU from before. The disk (`present` bytes, a drive that stops answering
before byte `bad`) and the board (`plain`; `mode`, which takes only command
bits 0xB0; `none`) are chosen at the start. `c128_read_bytes` answers with
fewer bytes than asked at the end of the file, with one junk byte after it, and
with -1 when the drive fails, after it has delivered the bytes before `bad`.
`FormOk` is what is assumed of a bundle: the sections in their order, records
that fill their sections, RAM no larger than the heap, and at least one export,
all of which LP128Pack sees to (`BundleWriter.cs:86`,
`CornerstoneImageLoader.cs:89`); offsets and sizes are free. `VmInit` is `lp128_vm_init`; then the machine
reads code, exports, initializers and globals through its caches while it
writes globals, spilled locals and snapshots.

### `Operators`

`Compute`, `Jump`, `Branch`, `AccessField`, `Compare`, `CompareSortKeys`,
`Unpack`, `Enter` and `ExtractItem` present an instruction with operands; what
each runtime makes of it is defined in the module named for it. The instruction
is the variable `asked`, the specification `OperatorsSpec`. Words are
numbers in 0 .. 65535, in `BitFields` sets of bits; strings are sequences of
bytes. Display, stack and handles are abstracted: `BitFields` keeps whether a
handle is usable, for that is where the runtimes differ.

## Runs

Machines stop when they halt or when loading ends, and tokens and pins are
bounded, so only the `channels` and `operators` runs check for deadlock: there
is always an instruction to execute. A `VIEW` leaves history variables that
only the step that sets them is judged by out of the fingerprint, and in
`lp128_control` the spilled locals above the call stack, slots that no record
names, `pc`, the count of the last results and all but the depths of a state
that has halted.

| Run | Question | Bounds, and why they are enough |
|---|---|---|
| `control_safety` | types; `LiveRecordsIntact`: does a valid token always have a faithful snapshot, also in programs that use stale tokens? | 2 procedures with a local each, recursion, 3 activations, 3 SETJMPs, a token counter that skips FALSE; three activations are the fewest in which a jump has a caller below and a callee above |
| `control_refines` | does the machine implement `Activations`? | 2 activations, 2 SETJMPs, 2 addresses, a tuple; each stored address, depth and local then has a wrong value it could be taken for |
| `heap` | types, `VectorsApart`, `TuplesApart`; does the heap implement `Vectors`? | 6-word segments (the fewest the seeding of an arena accepts), requests of no words, which have no bucket, and of 3, which have; one marked word at a time: a stray store or a missing zero needs one |
| `code_cache` | types, `FetchedBytesTrue`, `PagesOnce`, `PinsExact`, `EvictsLeastRecent` | 2 modules of 2 pages, 3 slots, so every load beyond three evicts; ticks wrap at 5; two PINMs of a module |
| `channels` | types; does the channel table implement `Files`? | two files, 3 channels, files of 4 bytes over an alphabet of 2, transfers of one word or record at offsets 0 and 2 |
| `lp128_memory` | types, `CachedPageTrue`; does the heap implement `Lp128PlainMemory`? | two segments of one page of 4 bytes, so words and blocks cross pages and the segment boundary; pieces of 2 bytes and blocks of up to 6, so a copy takes three and an overlap may go either way; an int of 3 bits on the C128 and of 6 bits in the POSIX build, so that counts turn negative, wrap, and run past the heap |
| `lp128_readrec` | finding | the same, with programs that read records anywhere |
| `lp128_control` | types, `LiveSlotsIntact`; does the machine implement `Activations`? | a recursive procedure with a local and the exit procedure, 2 activations, 2 slots, tokens modulo 4 of which one is FALSE, so the counter comes round while slots are valid; jumps over more activations are left to the theorems |
| `lp128_boot` | types, `LoadsLikePosix`, `TablesTrue`, `AreasApart`, `HeapAsSeeded`, `ReadsTrue`, `LoadingEnds` | bundles of two modules with every section, with and without data behind the code; cut at every length, and a drive that fails at every byte; seven bundles that must be refused; chunks of 2 bytes, caches of one entry, code of three pages for two slots |
| `image` | types, `WholeFilesLoad`, `CutFilesLoseOnlyRam`, `ImageInsideFiles`, `FailuresFreeAll` | programs with exports out of order, a module that exports nothing, initializers beyond the bound; both files cut at every length; each header word that leads the loader somewhere replaced by values at its edges |
| `image_at_page` | finding | one program whose export tables end at a page |
| `operators` | `ArithmeticAgrees`, `JumpsLand`, `BranchesDecided`, `FieldsKeep`, `StringsOrdered`, `TextUnpacks`, `HeadersRead`, `ExtractsFields` | words at the edges of every width; every displacement around the short form's reach; fields with every kind of shift and width; strings of up to 3 bytes, keys of up to 2 fields; records of 1 or 2 fields behind up to 2 typed ones |

Bounds in the actions themselves: `MaxArgs`, `MaxPops`, `MaxJumpToken`
(`LpstControl`); `MaxSaved`, `MaxMarked` (`LpstHeap`); `MaxPinned` (cache);
`MaxNode`, `MaxLength`, `MaxWords`, `MaxOpens` (channels); `ReuBytes`
(`Lp128Memory`, `Lp128Bundle`).

`LpstProgram` and `Lp128Control` restrict LONGJMP to valid records, and a jump
that cannot bring back changed locals to one that finds them as SETJMP saved
them; `LpstFileProgram` asks for records of an even size and that no open file
is unlinked; `Lp128Memory` asks that a record of channel 1 stays in the heap and
out of the cached page and has a length on which both builds agree (`MayRead`).
Outside these rules the code does something else than the abstract
specifications say; see above and below.

**Fairness.** `LoadingEnds` assumes `WF_vars(Load)`: the loader is a plain
sequential program that nothing keeps from its next step, and a KERNAL call
that does not return is not modelled. What it shows is that each loop ends
whatever the reads answer. Nowhere else is anything promised to happen: the
machines execute what the program chooses, and nothing in them waits.

## Proofs

For every image, layout, capacity and bound, from the assumptions that the
modules state about their constants. Two theorems of LinchpinST ask for
`NoWrap`, that a 16-bit counter has not come round: fewer than 2^16 SETJMPs
(`TokensStayGood`, `KeepsActivations`), fewer than 2^16 OPENs (`KeepsFiles`).
What happens after that is among the differences listed below. Three of the
bundle ask for `Fits`, that the areas fit in the REU: the code does not check
it, and `MCLp128Boot` assumes it too, so TLC evaluates it on its bundles. Two of
LinchpinST's loader ask for `TablesEndInPages`, and one for `Legible`.

### LinchpinST

* `TypeCorrect` (`LpstControlProofs`): `Spec => []TypeOK`. `TypeOK` alone is
  inductive only with `Shaped`: each continuation and snapshot has as many
  locals as its procedure and no more callers than the call stack may have, or
  a return or jump could not restore a well-typed frame.
* `TokensStayGood` (`LpstControlProofs`): `Spec => []LiveRecordsIntact`. The
  invariant adds `TokensBelow`: tokens in use are below the next one, so a
  SETJMP never overwrites an entry. Per action the argument is: calls refresh
  exactly the snapshots of the frame they suspend; a return releases exactly
  those that belong to records of the frame that ends (equal depth suffices,
  since a faithful record at that level has that frame's procedure); a jump to
  a valid record only unwinds activations above it, and a jump to a stale entry
  ends every record. The lemmas are about sequences cut short (`SubSeq` of
  `SubSeq`), tokens, and one action each.
* `KeepsActivations` (`LpstControlProofs`): the refinement, `DisciplinedSpec =>
  ImplementsActivations`. The call stack and the running frame are the stack of
  activations (`Suspended`, `Running`), so calls and returns compare two
  sequences frame by frame. A jump restores the call stack of its snapshot;
  `LiveRecordsIntact` says that this is the present one, cut at its level.
* `HeapTypes`, `BlocksApart`, `TuplesStayApart` (`HeapAndComputeProofs`): `TypeOK`,
  `VectorsApart` and `TuplesApart` of the heap. The invariant adds `Aligned`:
  every position is even, or `encode_handle` would lose its last bit and two
  blocks share a handle; the arenas only grow, so a block cut from an end is
  clear of all others; and the pointers that SETJMP saved are above the tuple
  floor. A block from the free list changes sides, so the set of blocks stays
  what it was (`Fewer`); one from an arena lies beyond its old end (`CutLow`,
  `CutHigh`). The lemmas about handles (`RoundTrip`, `Offsets`) say that
  `encode_handle` and `handle_to_byte_offset` are inverse on even positions.
* `KeepsContents` (`HeapAndComputeProofs`): `Spec => ImplementsVectors`. Blocks that
  do not overlap have handles of their own (`OneHandle`), so the contents of
  what is held are a function of the handle (`ContentsIn`); a store or a
  zeroing clear of a block (`ClearOf`) leaves its words; and an allocation
  extends that function by one block with the words it must hold (`Extended`).
* `CacheTypes`, `NoPageTwice`, `OnlyFileBytes` and `PinsCounted`
  (`LpstCodeCacheProofs`): `TypeOK`, `PagesOnce`, `FetchedBytesTrue` and
  `PinsExact` of the code cache. `FetchedBytesTrue` is not inductive: a short
  read leaves a slot that passes for a page whose bytes it has lost, and NEXTB,
  LONGJMP and PINM go on after it. `Sound` says why no such byte is executed:
  either every slot is faithful, or the machine stands before the page it
  could not load and the one spoiled slot is the next victim, so that the next
  fetch overwrites it or halts (`Spoiled`). It holds because a failed read
  moves no tick and no pin, and because every instruction starts with a fetch.
  `Honest` asks it until the machine halts; for the rest of that instruction
  `OwnBytes` remains: a slot holds its page's bytes or `Junk`.
  `BoundHolds` covers the fast path, `PinRoom` the room that PINM needs to
  count; pins are counted per page through its module, `Owner`. That victims
  exist (`OldestExists`) is the well-foundedness of the natural numbers.
* `OldestEvicted` (`LpstCodeCacheProofs`): the action property
  `EvictsLeastRecent` of `RecencySpec`. `Ordered` relates the history to the
  machine: of two pages of which one is known to have been loaded later, that
  one has the higher tick; a wrap sets all ticks alike and forgets the order.
* `FileTypes` (`LpstChannelsProofs`): `TypeOK` for every program, with
  `Buffered`: only channels opened for writing have something to write out.
* `KeepsFiles` (`LpstChannelsProofs`): `DisciplinedSpec => ImplementsFiles`. A
  file's content is the disk's with the buffer of its channel over it
  (`Shown`); for this to be a function of the file, names, files and writing
  channels must be one to one (`Links`), which is where the rules for programs
  are needed. `Touches` is the common form of the instructions that move
  bytes. `Fresh`, ids in use are below `next_channel_id`, is the part that needs
  `NoWrap`: OPEN never pushes the id of the channel that FALSE still names.
* `LoaderTypes` and `LoaderFreesAll` (`LoadAndReadProofs`): `TypeOK` and
  `FailuresFreeAll` of the image loader. `Owned` says, step by step, what may be
  held (`Kinds`), so that each early return can be compared with what its
  clean-up frees.
* `WholeFilesAreLoaded` and `CutFilesAreLoaded` (`LoadAndReadProofs`):
  `WholeFilesLoad` and `CutFilesLoseOnlyRam`, of any `Programs` that Chisel
  assembles and LinchpinST has room for, with any number of modules up to
  `MaxModules`, of procedures, exports, globals and initial values. Chisel and
  the loader each work out on their own where a table starts, the one by
  writing tables one behind the other, the other by adding up counts it reads.
  `Holds(file, o, part)` says that a part of a file stands behind its first `o`
  words, and a file that is built of tables holds each (`MmeLaid`, `CodeIs`,
  `LaidOutIs`); a cut file still holds what it is long enough for
  (`HoldsInPrefix`). From this each thing the loader reads is what was written,
  provided the checks of the header have passed: `TablesRight`, `GlobalsRight`,
  `ExportsRight`, `ProceduresRight`, `RamRight`. Where a module's tables start
  is a recursion over the modules before it, on both sides; it is shown to have
  a solution and to be the same sum by an induction up to the module. The
  invariant is `LoadingStage`: how much of the program the image holds, step by
  step. What the theorems ask for is in the open:
  * `TablesEndInPages`: no program's export tables end exactly at a page. The
    run `image_at_page` shows what happens to one whose tables do; the programs
    of `image` are of the kind asked for.
  * `WellFormed` (`ChiselImage`): an entry that is exported and words that fit
    the tables, which Chisel checks; at most `MaxInitializers` initial values a
    procedure, for the first 64 locals, code that begins below 65536 in its
    module and some RAM, which it does not check. Of more values the loader
    drops the rest, and a file without RAM it refuses.
* `ImagesLieInside` (`LoadAndReadProofs`): `ImageInsideFiles`, for any two
  files. `Inside` follows the image as it grows: the modules read so far lie in
  the code, the procedures read so far in theirs. That a header which is read
  ends in its module (`RecordsEnd`) is an induction over the loop of
  `parse_procedure_header`; that the offset of the code behind it survives the
  casts to 8 and 16 bits is proved of whole and cut files (`ProceduresRight`: a
  header of Chisel's has at most 193 bytes). A damaged file is asked to be
  `Legible`: if it passes the checks of the header, the tables of its modules
  are in it, and headers and offsets fit those casts. Nothing in the loader
  checks this; where the tables are not in the file it reads past its buffer,
  which the model does not follow. The damaged files of `image` are `Legible`.

### Linchpin128

* `ControlTypes` and `SlotsStayIntact` (`Lp128ControlProofs`): `TypeOK` and
  `LiveSlotsIntact` of the C128 build; their conjunction is inductive. Types
  need the slots: a jump restores the locals of its slot, and that these are as
  many as the procedure declares follows from the slot being that of a live
  activation whose locals, running or spilled, are typed. There is no `NoWrap`
  here: `FreshTokenFits` shows that a SETJMP with a slot left always finds a
  token that names no valid slot, because there are fewer slots than tokens
  (`SomeTokenFits`, by cardinalities) and so one at the least distance from the
  counter.
* `RefinesActivations` (`Lp128ControlProofs`):
  `Spec => ImplementsActivations`, the refinement itself. `Frames` maps the
  call stack and the spill area to a stack of activations. One lemma per kind
  of step: instructions within the running activation (`WorkRefines`), calls,
  returns, SETJMP and the jumps; a step that halts is a stop. Each compares two
  sequences frame by frame (`PrefixAgree`, `FrameExcept`). The jump is the
  delicate one: it restores the call stack, not the spill area, and the locals
  of the activations that stay suspended are still in place because the
  restored call stack is a prefix of the present one (`IntactFacts`). That one
  token has one record is `OneRecordPerToken`.
* `MemoryTypes`, `CacheStaysTrue` and `RefinesPlainMemory`
  (`Lp128MemoryProofs`): `TypeOK`, `CachedPageTrue` and `DisciplinedSpec =>
  ImplementsPlainMemory`, for programs that keep the rules of `MayRead`. Types,
  `TruePage` and `Behind` (the image behind the heap is what was loaded) are
  inductive together. `SameSizes` and `SameTransfer` compare the arithmetic of
  the two ints: the count of 16 bits is the right one, or so large that the
  region ends first. A copy in
  pieces is compared with the copy of a block at once by what it has done after
  `k` pieces (`After`): since the direction is chosen by the order of source and
  destination, no piece reads what an earlier one has written.
* `TablesAreTrue`, `LoadsAsPosix`, `AreasAreApart`, `HeapStaysSeeded`,
  `EveryReadIsTrue` and `BootTypes` (`Lp128BootProofs`). They build on one
  another:
  * while loading, `LoadInv`: the file position is where the sections so far
    end, or the file has ended or the drive is dead there (`Aligned`); what has
    been read of each table is what the file holds of it (`Tables`); sizes and
    places are known once their section has begun (`Known`); and a good bundle
    on a good drive has not failed (`NoFailure`). This gives `TablesTrue`.
  * `MemInv` adds the REU: the first `Got(i)` bytes of the area of each streamed
    section `i` are its first bytes in the file. With `Fits` no later section
    writes over them, and at the end `LoadsLikePosix` follows.
  * `Laid`: the layout of the machine is the one worked out from the bundle. Of
    this and of sums of sizes `AreasApart` is a consequence, without `Fits`.
  * `RunMem`, of the running machine: code and tables are held as loaded, each
    global as last stored, and each byte of the heap is what seeding left
    (`SeededByte`); the writes go to the globals, the spill area and the slots,
    which `LayoutBound` places. This gives `HeapAsSeeded`.
  * `Caches`: each slot of the code cache and each cached export or initializer
    is a copy of its bytes in the file. With `RunMem` this gives `ReadsTrue`.

### Computing instructions

In `HeapAndComputeProofs`, and headers and EXTRACT in `LoadAndReadProofs`, for all
operands and not the samples of the run:

* `ArithmeticIsTrue`: `ArithmeticAgrees`. The lemmas are about division towards
  zero, its remainder, and shifts by each of the counts a word allows.
* `BranchesAreDecided` and `EveryJumpLands`: `BranchesDecided` and `JumpsLand`.
  `ByteReads` is the round trip of a short displacement through its byte.
* `FieldsAreKept`: `FieldsKeep`; and, for an aggregate of any contents,
  `FieldRoundTrip` and `FieldsApart`: what is stored in a bit field is loaded
  from it, cut to field and word, and fields that do not overlap do not disturb
  each other. Their bits are given by `ReplacedBits` and `ExtractedBits`.
* `StringsAreOrdered`: `StringsOrdered`, for bytes of 0 to 255 and well-formed
  keys. Two sequences are told apart where they part (`Parting`), which exists
  for any two; `Lower` and `Verdict` say which is less from there, and each
  routine of the two runtimes is shown to answer that (`LpstVerdict`,
  `Lp128Verdict`, `BytesVerdict`). For keys, `Places` says where the fields
  stand in the bytes, `KeysVerdict` that the walk arrives at the first field
  that differs, and `TieIs` what decides between equal ones.
* `TextsUnpack`: `TextUnpacks`, by `PackedUnpacks`, for whole words of symbols.
* `HeadersAreRead`: `HeadersRead`, for up to 127 locals and 64 initial values:
  `RecordReads` for one record, `RecordPlaces` for where they stand one behind
  the other, `RecordsRead` for the loop over them.
* `FieldsAreExtracted`: `ExtractsFields`, under `RecordsAssumption`: numbers and
  sizes of components are bytes, bit 7 of the length of a field means something
  else, and the span of a record with what stands before it is a word.
  `SkippedIs` says where the walk over typed fields arrives, `PackedFieldsAre`
  what is measured of each field, `TotalIs` that the measures add up to where
  the record ends, `RecordFound` that the record is then found as it was written.

The last four, and the loader of images, are about recursion over sequences of
any length. A recursive definition is shown to have a solution, one length at a
time (`RecursionExists`, `JoinsExist`, `DescentExists`, `ReadingExists`), and
what it computes is shown by the least counterexample: `LeastNat` is that of
the well-founded order of the naturals, and `UpTo` the induction up to a bound
that follows from it.

### Only model-checked

* `LoadingEnds`: liveness is out of the prover's reach.

## Where documents and code differ

Checked by a run that shows the disagreement:

* `lp128_readrec`: READREC from the image copies into the heap and does not drop
  the cached page (`lp128_run.c:3047`), against the comment at line 549.
* `image_at_page`: when the export tables end at a page, `lpst_image.c:576`
  takes the RAM from that page; the specification and Chisel put it one page
  later. Linchpin's `CornerstoneImageLoader.cs` does the same as LinchpinST.

Read in the code, and kept out of the properties by rules for programs, by
leaving a reply open, or by stating the exception:

* with 0x8000 or more in slot 0xCC the byte count of READREC is negative on the
  C128, and as a `uint32_t` larger than any region: all that the image has from
  there on is transferred (`lp128_run.c:3043`, 3060), where
  `vm-specification.md:1449` and 1475 ask for `$1 * S` bytes. `ImageRecord` does
  so; `MayRead` keeps it out of the comparison with the POSIX build.
* the jump table is said to bound *live* snapshots (`lpst_exec.h:29`); entries
  of unwound activations count too (`lpst_run_runtime.c:484`). On Linchpin128
  only LONGJMP frees a slot, so its eight fill with those of activations that
  have returned.
* FALSE is said to mean that memory has run out (`lpst_run_internal.h:172`); it
  is also the handle of byte 0x10002, so an allocation that succeeds there
  halts the machine (`lpst_run_runtime.c:193`).
* CLOSE is said to release the channel for reuse (`vm-specification.md:1361`);
  ids are not reused until the counter wraps (`lpst_run_io.c:59`).
* `restore_jump_snapshot` copies the locals saved by SETJMP, so a jump within
  the procedure of its SETJMP undoes that procedure's stores
  (`lpst_run_runtime.c:592`, against the comment at line 438). Linchpin128 does
  so for every jump: `Usable` in `Lp128Control`.
* `do_return` leaves `tuple_stack_byte` alone (`lpst_run_runtime.c:828`), against
  `lpst_run_internal.h:176`.
* a token used again after 65536 SETJMPs replaces a live snapshot
  (`lpst_run_runtime.c:477`), against `lpst_exec.h:76`.
* after 65536 OPENs an id that CLOSE of FALSE left in `active_channel_id`
  (`lpst_run_io.c:624`) may be assigned to another file, which FALSE then names
  without having been used.
* UNLINK closes no channels, FSIZE rounds up and does not see buffered bytes,
  WRITEREC pushes its byte count whatever was written, and OPEN assigns ids up
  to 25 (sections 8.1.1 to 8.1.5 of the specification).
* JUMPL, JUMPLE, JUMPGE and JUMPG jump when the word on top relates so to the
  one below (`lpst_run.c:581`, `lp128_run.c:2386`, `VmExecution.cs:996`); the
  specification says `$2 < $1` (`vm-specification.md:2103`), the other way round.
* MOD of LinchpinST may be negative when the divisor is, and overflows 16 bits
  with a divisor below -16384 (`lpst_run.c:152`); Linchpin128 corrects no
  remainder. `ArithmeticAgrees` says exactly where the runtimes differ.
* loads of bit fields on Linchpin128 ignore shift and word index; the 0x5A form
  pops twice when the handle is FALSE (`FieldsKeep`).
* Linchpin128 reads initializers of private procedures as a count and triples
  (`lp128_run.c:1675`), which Chisel does not write (`HeadersRead`).
* STRCMP of two keys that tie in everything answers 1
  (`lpst_run_io.c:189`), against section KEYCMP of the specification.
* EXTRACT copies two bytes more of a whole typed field than it reports, reads a
  record's payload one word behind its header, and an explicit offset does not
  shorten the span (`lpst_run_dispatch_ext37.c:147`, `:233`, `:722`).
* a `.MME` cut within its RAM may load with half of it (`lpst_image.c:109`,
  `CutFilesLoseOnlyRam`); a procedure out of range leaks the module's bytes
  (`lpst_image.c:273`, the exception in `FailuresFreeAll`).
* a bundle cut within a streamed section loads on the C128 with junk
  (`LoadsLikePosix`); the heap is cleared with command bits that a board may
  not take (`lp128_reu.c:118`, `HeapAsSeeded`); nothing checks that the areas
  fit in the REU.

## Plan

What is left, in this order:

1. The C# interpreter: its jumps against `Activations`, its allocator against
   `Vectors`, its files against `Files`.
2. Chisel's layout passes: the fixed point, and what the cut-off leaves.
3. STRPOS and its relatives; windows and the cursor.

## Not modelled

Real numbers (binary floating point and decimal text, which TLC cannot
evaluate); terminal, console and KERNAL calls, and the printing and windows
that end in them; option parsing, traces and reports; parsing and formatting of
assembler text. The C# interpreter and its tools are a port of the machine that
LinchpinST implements: its state is that of `LpstControl`, `LpstHeap` and
`LpstChannels`, and what would be checked of it are the same three promises.
