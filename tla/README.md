# TLA+ models of barebone-kernel

A verification development for the kernel in this repository: a single-hart
RISC-V Sv39 kernel in Rust without a standard library, its device-tree parser
(`fdt/`), and the embedded user program it runs (`user/`). The modules model the
code; TLC checks them on small instances; TLAPS proves properties of both
allocators, the allocator gate, the DTB header and reservations, the temporary
frame windows, Sv39 words and the timer for every size. Where a doc comment and the code could differ,
the modules follow the code.

## 1. The system

Firmware enters `_start` with a DTB address. The kernel

1. builds one root table of gigapages, switches to the higher half (`boot.rs`),
   masks interrupts, installs the trap vector, probes the time counter
   (`main.rs`, `trap.rs`, `time.rs`);
2. maps the DTB through a window of five gigapages and validates it
   (`paging.rs`, `fdt/`);
3. claims a frame allocator over the RAM the DTB describes
   (`memory/frame/boot_allocator.rs`), builds the final page tables through a
   temporary window and activates them (`paging.rs`, `paging/kernel.rs`);
4. claims the heap range and installs heap, paging and frames as the state of
   the Rust global allocator (`memory/heap.rs`, `memory/allocator.rs`);
5. loads the embedded program into user pages (`process.rs`, `process/image.rs`);
6. starts the periodic timer, enables interrupts, waits for two ticks and enters
   user mode; the program's system calls and timer interrupts are served until
   it exits or faults, after which the kernel idles (`trap.rs`, `timer.rs`,
   `process/syscall.rs`).

### Inventory

| Part | State | Operations | What is hard | Module |
|---|---|---|---|---|
| Boot frames | cursor, iterator, one-shot flag | claim, allocate | no record of issued frames: everything rests on the cursor | `BootFrames`, `PhysRanges`, `FrameSupply` |
| Heap | cursor, backed suffix | new, allocate | failure between two pages of one block | `KernelHeap`, over real tables and frames in `KernelMemory` |
| Allocator gate | busy flag, state, SIE | alloc, with_paging, initialize | interrupts and callbacks that allocate; order of two drops | `KernelAllocator` |
| Bootstrap | root table, satp, cached translations | _start, claim, map_fdt | stale translations around the switch; all-or-nothing window | `Bootstrap`, `BootPaging` |
| Page tables | tables, root, heap claim | into_kernel, activate, map (user, kernel, heap) | failure between two levels; isolation of user pages | `PageTables`, `AddressSpace` |
| Mapping of the image | table words | map_range, page_table_entry | rounding, signed offsets, a range at the end of a half | `KernelMapping`, `Sv39` |
| Frame windows | one leaf, cached copy | with_frame (twice) | fences | `FrameWindow`, `BootPaging` |
| Traps and timer | CSRs, stacks, frames, deadlines | entry, dispatch, return, syscalls, user entry | choice of stack, nested traps, the idle loop after exit | `Traps` |
| Timer arithmetic | interval, deadline | init, handle_interrupt | rounding, late service, the end of the counter | `TimerPeriod` |
| Process loader | claim, user pages | parse, load_init | rounding at the guard page; partial loads | `ProcessLoad` |
| FDT structure | token position, depth, phase | validate, iterate | duplicate scan that knows only a depth; iterators without error path | `FdtStructure` |
| FDT reader, names, strings | byte position | read, align, validate names | padding counted from another origin in views than in validation | `FdtReader` |
| FDT header, reservations | none after validation | from_ptr, validate, iterate | three blocks of which one has no size; slices that panic | `FdtBlob`, `FdtEntries`, `Fdt` |
| FDT semantics | none after validation | validate_semantics, memory and reserved ranges | inherited cell counts; iterators that look everything up again | `FdtSemantics`, `FdtEntries`, `Fdt` |
| Firmware, console, logging | none | SBI calls | none of interest | outcomes in `Traps` |

`PROJECT.json` has the complete list of components, the source lines each
definition stands for, and the hazards with the properties that cover them.

### How the parts meet

* `FrameSupply` is what the rest of the kernel expects of a frame allocator.
  `BootFrames` implements it, checked and proved. `PageTables` consumes frames
  of such a supply (`Supplies`, each frame once).
* `AddressSpace` is what it expects of the page tables. `PageTables` implements
  it, checked.
* `KernelMemory` extends `PageTables` with an instance of `KernelHeap`: a page
  the heap asks for is a page the tables map, or fail to.
* `BootPaging` extends `FrameWindow` with an instance of `Bootstrap`: the window is
  one entry of the live root table and of the hart's cache.
* `Fdt` extends `FdtBlob` with an instance of `FdtSemantics`, which runs between
  the slices and the reservations.
* `FdtEntries` states what the device tree's ranges satisfy. `FdtSemantics` and
  `FdtBlob` check that validation establishes it; `BootFrames` assumes it of
  its platforms.
* `KernelMapping` is the layer of words and addresses below the pages of
  `PageTables`; `FdtReader` is the layer of bytes below the items of
  `FdtStructure`; `TimerPeriod` is the arithmetic below the timer of `Traps`.
* `FdtStructure` shows that the iterators visit nodes in block order, which
  `FdtSemantics` takes for granted.
* `KernelAllocator` gives `KernelMemory` the exclusive access that lets a heap
  call and a mapping not interleave. `Traps` is where the interrupts that
  `KernelAllocator` admits come from.
* `FrameWindow` justifies that `PageTables` reads and writes the frame it names.
  `ProcessLoad` uses the mapper of `PageTables` page by page.

The first five are formal (refinement or instance) and the sixth is a shared
definition. The others are matched by hand between modules.

## 2. The modules

**`PhysRanges`**: ranges, checked addition, overlap, alignment and frame ranges
of `memory.rs`, `memory/address.rs` and `memory/frame.rs`, with the largest
address as a constant so that overflow happens.

**`FrameSupply`**: the contract: a granted frame was free, and a refusal means
that nothing is free.

**`BootFrames`**: `claim`, `allocate` and `advance_memory_range`. A step is one
iteration of one of their loops. `issued` and `refused` are history.

**`KernelHeap`**: `new` and `allocate`, one step per page `back_to` asks for,
each of which may fail. `backed` is the page table as far as the heap goes.

**`KernelMemory`**: the calls on `PageTables` and the state behind the global
allocator, from bootstrap paging through `init_kernel_allocator`. Heap calls
proceed page by page, and what the tables answer decides; between heap calls
others map user and kernel pages from the same frames.

**`KernelAllocator`**: a stack of activations on one hart. Whenever SIE is set a
handler may start, and handlers, callbacks and the kernel may call the
allocator. The memory behind the gate is a counter that an operation reads at
its beginning and writes at its end, so that overlapping operations would hand
out the same memory. Today's timer handler does not allocate; the gate is
written for handlers that do, and is checked with them.

**`Bootstrap`**: the instructions of `_start` that concern translation, then
`claim` and `map_fdt`, with a hart that caches any entry, empty ones too, at any
moment and uses it until a fence.

**`PageTables`**: a call is one step, because the hart works on the tables with
interrupts masked, but inside the step every allocation may fail and what was
done until then stays. An operator takes the memory and returns the memory and
the result, in the order of the code.

**`AddressSpace`**: the contract: a call gives one empty page a frame that no
other page shows, or is refused and changes nothing.

**`Sv39`**: canonical addresses, table indices and the fields of an entry as
arithmetic on words, with the powers of two as constants.

**`KernelMapping`**: `into_kernel` over these words: the rounding of sections and
DTB to pages, their physical placement, the checks of `map_range`, the entries
written, and the hardware's walk as the reader of what was written.

**`FrameWindow`**: the two `with_frame`s, instruction by instruction, for a
region of several frames (bootstrap) and of one (kernel).

**`BootPaging`**: `Bootstrap`, then any accesses to frames while `into_kernel` builds
the tables, the switch to the new root, and accesses through the kernel's window.

**`Traps`**: one hart with its CSRs, three stacks (boot, the process's kernel
stack, user), the trap frames on them, the firmware's timer, and an arbitrary
user program. An address on a stack is the number of trap frames below its top.
`owed` is history: the contexts that were interrupted and must be resumed.
A deadline is armed until it passes and then pending until the next one is
programmed; `timer::init` is its three steps (deadline, interval, enable bit).

**`TimerPeriod`**: `interval_ticks` and the two places that set a deadline, while
the counter advances freely and interrupts are served arbitrarily late. Every
error stops the timer, as its callers do.

**`ProcessLoad`**: `Image::parse` on abstract headers, then the two loops of
`load_init`, one page a step, with payload bytes that can be told apart. Which
tables a mapping needs, and why it fails, belongs to `PageTables`.

**`FdtStructure`**: `Structure::new` over items (a token with its payload) that
are chosen when the reader gets to them, then the three iterators of `view.rs`.
Names are model values: valid, empty, rejected or cut short.

**`FdtReader`**: a document is encoded into bytes and cut off anywhere; the
validating reader and the readers of views decode it. A byte is a character or
one of the four parts of a word.

**`FdtBlob`**: `Fdt::from_ptr` check by check, then both passes over the
reservation block and its iterator. Slicing outside the blob is a panic.

**`Fdt`**: the whole of `from_ptr`, and all range iterators over what it accepted.

**`FdtEntries`**: the entries of address and size that pass from the device tree
to the kernel, and what is promised of them.

**`FdtSemantics`**: the passes of `validate_semantics` over a tree whose
properties are chosen when first looked at, then the iterators of memory and
reserved ranges, which repeat the lookups without an error path.

Definitions called "Variant" state plausible mistakes in the definition that
follows them. They are not part of the models; each shows that one property
notices the mistake.

## 3. What TLC checks

| Run | States | Bounds | What it shows |
|---|---|---|---|
| `boot_frames` | 42,442 | frames of 4 bytes, addresses to 23, 9 memory maps, 7 reserved ranges for kernel and DTB, 9 combinations of other reservations | no frame twice, refinement of `FrameSupply` (none reserved or outside RAM, `None` only when nothing is left), every call returns |
| `kernel_heap` | 128,539 | pages of 4 bytes, ranges of 2 and 3 pages (three invalid ones), sizes 0 to 30, alignments 1, 4, 8 | exact record of backed pages, disjoint usable blocks, exact placement |
| `kernel_allocator` | 2,862 | 5 nested activations, 3 grants | exclusion, refusal only of recursion, interrupts restored, no call waits |
| `traps` | 38,622 | 5 timer events | stack choice and depth, resumption, the next tick always on its way, start-up ends, interrupts are served |
| `timer_period` | 21,240 | 4 ns in a second, counter to 15, frequencies 1 to 9, periods 0 to 9 and 100 | a deadline is the least number of ticks that make a period ahead; refused only if there is none |
| `kernel_memory` | 87,293 | tables of 3 entries, pages of 2 bytes, 3 sections, a heap of 5 pages in two tables, 9 target pages, 10 supplies of 0 to 14 frames with unrepresentable ones among them | each frame in one place, user isolation, completeness at activation, refinement of `AddressSpace` (a call adds one translation or none); returned blocks are writable memory of one owner; backing fails for want of frames only |
| `kernel_mapping` | 21,980 | pages of 4 bytes, tables of 2 entries, words of 6 bits, sections of 0 to 9 bytes | the hardware's walk gives exactly the mapping asked for, at every address; the addresses of a range are checked before its first entry is written |
| `boot_paging` | 163,768 | 14 root entries, gigapages of 4 bytes, 2 entries cached at a time, 34 places of the DTB, 7 frames | kernel mapped throughout, DTB readable at any size or not mapped at all; every access through a frame window reaches the frame asked for and nothing stays open |
| `fdt_structure` | 436,198 | blocks of size 11 (Nops and properties count 2), two names | accepted blocks are exactly the trees; iterators yield exactly the contents |
| `fdt_reader` | 98,057 | all names of up to 4 of 4 characters and longer ones, values of 0 to 5 bytes, cuts at every byte | reading inverts encoding; views and validation meet the same boundaries |
| `fdt` | 1,179,707 | blobs to 12 bytes (some to 32), blocks at and around every border, addresses to 3, with one tree; 7 other tree shapes, binary cells, entries of up to 4 cells, with one placement | exact header and semantic checks, no slice outside the blob, blocks apart, iterators yield exactly the reservations and ranges |
| `process_load` | 88,912 | pages of 4 bytes, addresses to 31, 7 bases, all entries, sizes to 13 | the user memory of a successful load; one load only |

Why the bounds are enough:

* `boot_frames`: six frames hold a range with a reservation at its beginning,
  middle and end, reservations that overlap each other, share a frame with a
  neighbour or end at the last address, and memory ranges that overlap, touch
  inside a frame or contain no frame. The proofs remove the bound.
* `kernel_heap`: blocks below, of and above a page in size and alignment, ranges
  filled to the last byte. The proofs remove the bound.
* `kernel_allocator`: no more than four activations ever nest (a call, a
  handler, its call with a callback, the callback's call), so five is no limit.
* `traps`: two ticks before user mode, two more in user mode or in the idle loop
  and one that is left pending.
* `fdt_structure`: five nodes (the root, two children and an equally named child of
  each) are the smallest tree in which the depth alone does not tell siblings
  from cousins.
* `boot_paging`: a DTB of 15 bytes over gigapages of 4 is the case of a DTB just
  below 4 GiB over gigapages of 1 GiB: five are needed at some offset.
  Two cached entries are the two that a property relates.
* `process_load`: three image pages lie between the null page and the guard
  page; bases and sizes reach past both and past the last address.

* `kernel_memory`: with three entries a table has an occupied, a shared and a free
  one at each level. The supplies end at every allocation of the construction's
  beginning, at the claim of the heap, at its first page and after both of its
  tables; some hold a frame that no entry can express. A block of 3 bytes aligned
  to 4 crosses pages and tables. The targets are accepted, refused and already
  mapped ones of user, heap and kernel.
* `kernel_mapping`: sections begin and end anywhere in a page, are empty, reach
  the end of a half or lie between the halves; the DTB ends in the last page.
* `timer_period`: frequencies divide the second, do not, and exceed it; periods
  of no ticks and of more than the counter holds occur, and late service reaches
  the end of the counter. The proof removes the bound.
* `fdt_reader`: every length modulo 4 of names and values follows every other.
* `fdt`: each block touches, overlaps, contains or misses each other one and the
  header; lists of three reservations with their terminator (the proofs remove
  these bounds). Counts of cells are absent, malformed, zero, too large for an
  address and too large for a width; entries are empty, overflow and do not fit;
  the nodes of interest are missing, nested, repeated and out of order. Headers
  and trees are not combined freely (`Explored`): semantic validation does not
  depend on where the blocks lie.

Deadlock is checked in `boot_frames`, `kernel_allocator`, `traps` and
`process_load`. The others may stop: a failed start-up or heap (`kernel_heap`,
`kernel_memory`), a finished or refused construction (`kernel_mapping`), a halted
hart (`boot_paging`), a rejected or completely read block (the three `fdt` runs),
the end of the counter's range or a stopped timer (`timer_period`).

### Fairness

* `BootFrames!FairSpec`: weak fairness of the loop of a call in progress. It is
  straight-line code run with interrupts masked. Nobody is obliged to call.
* `KernelAllocator!FairSpec`: strong fairness of the progress of each nesting
  level: an activation that is interrupted again and again runs again in
  between, as interrupts are 10 ms apart and handlers and callbacks are finite.
* `Traps!FairSpec`: weak fairness of kernel code, handler and the passing of
  deadlines, strong fairness of taking a pending interrupt: the hart looks at it
  after every `sret`, so a program that keeps entering the kernel cannot avoid
  it. Nothing is assumed of the user program.

The other modules have safety properties only.

## 4. What TLAPS proves

The theorems hold for every value of the constants that satisfies the named
assumptions of the modules. These say what validation guarantees of FDT ranges
(`PlatformsAssumption`), that sizes are positive, that the powers of two of Sv39
divide each other as they do (`Sv39Assumption`), and that `None` is none of the
values it is mixed with.

**`AlignmentTheorems`**: lemmas on rounding to multiples of a symbolic size, on
which the provers are weak: rounding gives the nearest multiple, two multiples
are at least the size apart.

**`BootFramesProofs`**

* `FramesIssuedOnce`: the invariant of the run.
* `TypeCorrect`, `CursorAlwaysFrame` (the `expect` of `allocate` cannot fire) and
  `IssuedFramesAllocatable`: proved only.
* `ExhaustionIsReal`: `None` is returned only when every allocatable frame was
  issued.
* `Refinement`: `Spec` implements `FrameSupply`.

That no frame is issued twice is not inductive: the allocator does not know what
it issued. The strengthening is `ScanIsExact`: an allocatable frame is issued
exactly when the scan is past it, where "past" is said with the index of the
range and the cursor. `IndInv` joins it with the type and cursor invariants and
`ClaimGuards` (nothing happens before a claim, and a claim succeeds on disjoint
memory only); theorem `Inductive` proves it, one lemma per group of actions. The central cases are `SkipReservation`
(between the cursor and the rounded end of the reservation no frame is
allocatable) and `TakeRange` (the trimmed parts contain no complete frame);
disjointness of the memory ranges makes "past" well defined across ranges.

**`KernelHeapProofs`**

* `BackedSuffixExact`, `HeapBlocksDisjoint`, `HeapBlocksUsable`,
  `PlacementExact`: the invariants of the run.
* `HeapTypeCorrect` and `FailureCostsNoSpace` (only returned blocks move the
  cursor): proved only.

The inductive invariant is `HeapInv`. It adds to the checked invariants `Bounds`
(range start, `mapped_start`, cursor and range end are in this order, and
`mapped_start` is page-aligned), `CallShape` (the address of a call in progress
is aligned, in the range, and its block ends below the cursor) and
`BlocksAboveCursor`. Disjointness follows because a new block ends below the
cursor and all older ones start above it; backing of blocks follows from
`Bounds` and `BackedIsSuffix`.

**`KernelAllocatorProofs`**

* `GateIsExclusive`, `GrantsAreDistinct`, `InterruptsAreRestored`, for any depth of
  nesting and any amount of memory.

Exclusion is not inductive: it says nothing about the activations that may run
next. `GateInv` adds who runs with interrupts enabled, that an activation was
entered with what the one below it runs with, that nothing above the holder of
the gate was entered with interrupts on (`StackInv`), that the flag is set
exactly while somebody holds the gate (`FlagInv`), that what a holder read is
still the state (`LocalsInv`) and that grants lie below it (`GrantsInv`). A step
pushes, pops or moves the top activation: three lemmas say what these do to the
stack, and each action has a lemma that uses one of them.

**`FdtBlobProofs`**

* `BlobBlocksApart`, `HeaderCheckExact`, `ReservationListExact`, for every header,
  size, alignment and length of the list.

Each has its own invariant: `Placed` (what was read stays below the limit of an
accepted header), `Judged` (an error names a header that is wrong) and `Listed`
(the entries read so far are admissible, and the iterator has yielded a prefix).

**`TimerPeriodProofs`**: `TimerKeepsPeriod`. `TimerInv` says that the interval is the
computed one, the deadline an interval after it was set, and each error has its
cause. The arithmetic is in `LeastMultiple`: the quotient rounded up is the
least number of multiples that suffice.

**`FrameWindowProofs`**: `WindowShowsFrame`. By `WindowInv` the leaf belongs to the
frame from its write to its clearing, and the cache may disagree with it only
before a fence.

**`Sv39Proofs`**: `EntryNamesItsPage` (an entry gives back the page and the flags it
was made of) and `IndicesIdentifyPage` (no two canonical pages share all three
indices). They are facts about operators, on which `KernelMapping` rests.

### Only model-checked

* All liveness (`AllocateReturns`, `CallsReturn`, `StartupEnds`, `TimerServed`),
  which this prover does not reach.
* `RefusalIsRecursive` of `KernelAllocator`.
* Every property of `Traps`, `PageTables`, `KernelMemory`, `KernelMapping`,
  `Bootstrap`, `FdtStructure`, `FdtReader`, `FdtSemantics` and `ProcessLoad`. What
  recursive definitions compute (`FdtStructure!FindPriorSiblingNode`) needs
  induction over data, which is out of this prover's reach too.

## 5. What is not modelled

* Lookup by name or path in the device tree (`child`, `property`, `find`): filters
  over the iterators that are modelled.
* The byte order of a word; the reading of the linker symbols and of the time
  base; the mapping of SBI error codes to errors.
* The depth of the kernel stack: semantic validation recurses once per level of
  the tree, and no model has a measure of that.
* Faults of supervisor code other than the probe's: they halt, and would be a
  defect of code outside `Traps`.
* More than one hart: the code excludes it by contract.
* Interrupt re-entry of the frame window: `paging.rs` names it as future work,
  no handler uses paging.
* Console, logging, error types, build scripts, linker script: no state that the
  kernel reads back.

## 6. Plan

1. Proofs of `StackDiscipline` and `ResumesInterrupted` of `Traps`, of `Bootstrap`
   (any region and DTB size) and of `LoadedExactly` of `ProcessLoad`.
2. `KernelAllocator` with the handlers of `Traps` in place of arbitrary ones, once
   a handler of the kernel allocates.
3. Lookup by path over `FdtStructure`.
