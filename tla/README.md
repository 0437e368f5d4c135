# A verification project for the Learning-OS kernel

The repository is a small 32-bit x86 kernel: one CPU, an interrupt stub that
ends in a scheduler call, a round-robin scheduler, a heap and a frame
allocator, keyboard and serial input, a message queue, system calls, a RAM file
system and a FAT16 driver over an ATA disk. This directory holds TLA+ modules
translated from its source, TLC configurations for small instances, and TLAPS
proofs. Paths below are relative to the repository's root.

## 1. Inventory

| component | state | operations | talks to | what is hard | what makes it correct |
|---|---|---|---|---|---|
| scheduler (`src/proc/scheduler.c`, `task.c`, `asm/interrupt.s`) | task table, `current_task`, `active_tasks`, `need_resched`, `kernel_esp` | init, add, start, tick, yield, exit, wait, `scheduler_switch_from_isr` | called by the stub after every interrupt; heap for stacks | preemption at any instruction, nested frames in `sys_read`, start itself preemptible | the right context runs on the right frame; counts exact; nobody starves; the kernel resumes when all exited |
| heap (`src/mm/heap.c`) | block list | `kmalloc`, `kfree`, `heap_stats` | scheduler stacks, ramfs data | long histories of split and merge, 32-bit wrap | blocks tile the heap, live blocks are disjoint, free blocks are maximal |
| frame allocator (`src/mm/memory.c`) | bitmap, counters | boot scan, alloc, contiguous alloc, free, stats | multiboot map | unaligned and overlapping regions, skipping scan | only free frames that begin in usable memory are handed out, figures are true |
| keyboard ring (`src/drivers/keyboard_buffer.c`) | ring | push, pop | interrupt handlers and readers | push interrupts pop, wrap, full/empty | a bounded FIFO |
| keyboard, mouse, their controller (`keyboard.c`, `mouse.c`, `irq.c`, `init_pic`) | handler table, PIC mask, controller registers | `keyboard_init`, `mouse_init`, IRQ 1 | ring, boot | handler and polling code read one port; timeouts; interrupts before the handler is there | characters once and in order; configuration kept; boot ends; keyboard stays alive |
| IPC (`src/proc/ipc.c`, `syscall.c`) | ring of words | send, receive | system calls | error paths, pointer arithmetic that wraps | a bounded FIFO; an error changes nothing; nothing beyond the limit of `user_ptr_ok` is written |
| console input (`keyboard.c`, `serial.c`, `input.c`, `sys_read`) | shift and caps flags, rings, UART FIFO | key, serial and timer handlers, the reading loop | ring, timer | lost wakeups, polled read racing a handler | a waiting reader gets the character; shift never sticks |
| entry to ring 3 (`asm/usermode.s`) | registers, iret frame | `enter_user_mode` | ELF loader, `kernel_main` | register reuse | the frame holds the arguments |
| FAT16 (`src/fs/fat.c`) | FAT, directory, cache on disk and in memory | init, list, read, write | storage | write order, failures between writes | chains disjoint and terminated; a failed write loses no other file |
| RAM file system, VFS (`src/fs/ramfs.c`, `vfs.c`) | node pool, tree, data blocks | mkdir, create, unlink, read, write, resolve | heap | pool at its limit, replacing data blocks, failing `kmalloc` | data is what was written; no leak |
| ATA, storage (`src/drivers/ata.c`, `src/fs/storage.c`) | default device | identify, PIO read and write | FAT | timeouts, partial transfers | success means every sector was transferred; no sector changes that no write named |
| screen, `kprintf` (`src/lib/monitor.c`, `kprintf.c`) | video memory, cursor | put, scroll, formatted output | everybody, interrupt handlers too during the boot | edges, interrupted puts, shifts that overflow | stores stay on the screen; numbers are right |
| kernel shell (`src/user/shell.c`, `keyboard_readline`) | line buffer, argument pointers | read, erase, parse in place, dispatch | ring, screen, file systems | line and screen edited apart, full line, NULs written while scanning | the screen shows the line; what was typed is run |
| GDT/TSS (`src/interrupt/gdt.c`) | `esp0` | `set_kernel_stack` | stub | one trap stack for all ring-3 tasks | frames of one task survive another's trap |
| IDT gates, PIT, paging, PCI, RTL8139, SMP, ELF, panic, libc | mostly registers or nothing | initialisation and I/O | – | – | – |

`PROJECT.json` lists every component with its status, and under `hazards` the
places in the source where something can go wrong that a test would hardly
reach.

## 2. Modules

**Scheduler.** A context is named by its pid, the kernel context is 0. Stacks
are abstracted to the number of interrupt frames on them, so the `esp` that
`common_stub` hands around is a pair of a context and a depth. All gates are
interrupt gates: a handler with the stub's tail (`Switch`) is one step. The
exception is `sys_read`, which executes `sti`; the tail that follows it is two
steps (`SysReadSave`, `SysReadReturn`) with interrupts in between.
`scheduler_start` is four interruptible steps. The `int $0x20` of start, yield
and exit runs IRQ0's handler, so it counts as a tick. `scheduler_add` and
`scheduler_wait` are modelled as calls of the kernel context while scheduling is
off, which is where the code base calls add from (nothing calls wait yet; it is
the documented counterpart of exit). `allocated`, `exited` and `reaped` are
history variables. Exceptions end in `panic` and are left out.

**Heap.** The reachable headers as a function from address to fields; `kmalloc`
and `kfree` are entered in one step and their loops run one iteration per step.
`align8` is on `Word` = 2^32. `kfree` is called with live pointers: a wild or a
second `kfree` is a caller's error that the code does not claim to detect.
`heap_stats` walks the list as the code does.

**FrameAllocator.** The bitmap as the set of frames in use, from boot (regions of
a memory map, clamped to 32 bits, rounded as the code rounds them: a frame begins
in usable memory but need not end there) through every allocation and free. The
two scanning loops are operators compared with declarative definitions.
`LayoutAssumption` states what the code takes for granted of a boot: the
multiboot structures (`MbRegions`, the information and the map, reserved one
after the other) start on a frame or lie below the kernel's end, they, the kernel
and the bitmap lie in memory that the map covers, and the frame in which usable
memory ends lies within the map (see the hazards for the maps this leaves out).

**KeyboardBuffer, Ipc, BoundedFifo.** Both rings implement `BoundedFifo`. A push
of the keyboard ring happens in a handler and is one step; a pop is three, as
interrupts are enabled in the reader. IPC calls run with interrupts disabled.
`user_ptr_ok` tests pointers against 0xC0000000, but the kernel itself is linked
at 1 MiB (`linker.ld`), below that limit, and `map_identity_range` maps it
writable for the user. So a receive into the kernel's own image (`Image`) is
accepted. The model takes the store (`StoresInside`: any word in the place of an
index or of a message) and stops following the kernel there (`clobbered`); the
properties say what holds up to it. `sys_read` tests its buffer in the same way.
The other modules assume that tasks leave the image alone.
KeyboardBuffer has no run of its own; Ps2 extends it.

**Ps2.** KeyboardBuffer with what is in front of it: the keyboard and the mouse,
the controller they share (one output buffer behind port 0x60, whose register
keeps its value after it was read), interrupt line 1 and `kernel_main` from
`init_idt` over `keyboard_init` and `mouse_init` to the reader. One poll of
`mouse_wait` is a step, so keys, interrupts and answers come between the status
test and the read. The devices are external: the mouse answers when it likes or
never, and an answer of the controller itself raises line 1 or not, as
controllers differ in this. Commands are taken at once, so `mouse_wait(1)` does
not wait, and the polls take longer than the controller needs to present a byte
it already has. Interrupts are on in these waits, so a pending one is taken
before a `mouse_write` goes on. The characters of `kbdus` end at scancode 57 of
set 1: the layout is assumed below 64 and the firmware's configuration to have
the translation bit, so the configuration byte, read by the handler as a
scancode, is none of a character. `expected` is what was typed, not refused by a
full ring and not yet read; `raced` says that a key was under way during a
`mouse_read`, after which nothing is promised about characters: the scancode may
have been taken for the answer. Every key whose interrupt comes before
`keyboard_init` is such a key: the interrupt is ignored and the byte waits in the
output buffer for `mouse_init`.

**Monitor, Kprintf, Shell.** Monitor has the screen as a record and `monitor_put`
as an operator on it; Kprintf adds the conversions of `kvprintf`, with
`u64_divmod` on words of `LongBits` bits. Shell is the state machine:
`keyboard_readline` one character per step, `parse_line` one argument per step
(`Split`), writing NULs into the line buffer with arguments as offsets into it,
the dispatch, and before it the boot, where `monitor_put` is split at the points
where an unhandled interrupt prints a warning (the timer's interrupts until
`timer_init`, the keyboard's until `keyboard_init`). Screen contents garbled by
such a warning are not followed below the level of whole scrolls. A behaviour has
one boot, one logged number or one session; the cursor's start rows stand for
what went before. File commands print some text. Characters are strings, of which
`ShellAssumption` asks that those the code compares with exist. A NUL is never
typed: both interrupt handlers drop it, but `serial_read_char` does not, so a NUL
byte that the polled read takes would cut a line short; that is left out. The
assumptions also say that the warning holds no tab, that numbers fit the type of
their conversion, and that a line with its prompt fits on the screen. The 32
digits of `print_uint_base` are not counted: they are enough for words of up to
96 bits. Loops are recursive functions over the rounds.

**ConsoleInput.** Keyboard and serial handlers, the UART's FIFO, the timer, and
the loop of `sys_read` with its `sti; hlt`. The ring is the FIFO that
KeyboardBuffer implements. Characters are grouped by what the code tells apart.

**UserMode.** The instructions of `enter_user_mode` on registers split into
halves, because one of them writes only the lower half.

**FatFs.** The FAT16 driver over its disk: the first FAT (the only one the driver
uses), the root directory and the sectors of the clusters. Every sector write of
`fat_write_file` is a step; it may fail, and power may be lost before the next
one (`Crash`, with `fat_init` on the next boot). A sector read that fails is
treated as the code treats it: an unreadable FAT entry counts as 0. Reads are
operators over the cache and the disk. A sector is abstracted to which bytes of
which buffer it holds, a name to the 11-byte form (`FormatName`), so two callers'
names can be the same file. `Disks` are the volumes a run may start from;
`DisksSound` assumes them to be sound FAT16 volumes without subdirectories
(chains end, are disjoint and as long as the sizes need, no cluster is lost, no
name occurs twice, nothing follows an unused entry of a sector). `failed`,
`stale`, `spoiled`, `misread`, `clean` and `content` are history. `ReadFile`,
with which `OthersIntact` looks at the files, is `fat_read_file` without a
failing sector: with one the code goes on with the next cluster at the same place
of the buffer and returns how much it copied. Init assumes a registered device;
see the remark on the boot order in section 6.

**RamFs, FileStore.** The node pool, the array of the root's children and the
heap blocks of the files. `kmalloc` is abstracted to "some free block, with
whatever it held before, or none". `FileStore` is what callers may rely on: names
map to byte sequences, a write changes the bytes it covers and no others (bytes
between the old end and the offset are undefined), and the return value tells
what happened. `Cat` is the read loop of the shell's `cat`.

**AtaPio.** Identification, registration with `storage.c`, and the two transfer
loops against a drive that runs on its own. The registration is refused, as in
the code, so `default_dev` stays 0 and nothing is stated about it. Only the first
address of a call is tested: `Address` cuts the others to 28 bits (`LbaSpace`), as
the drive's registers do. `asked` are the sectors that write calls named. The
drive is external: like QEMU's it
ignores a command while it is busy or waits for data, and stores a written sector
after the driver has gone on. The transfer functions are called directly; the
FAT driver would call them for one sector at a time.

**SchedulerProofs, MemoryProofs, SyscallProofs, Ps2Proofs, RamFsProofs,
DiskProofs, ShellProofs.** Theorems about the modules they extend, see section
5. `MemoryProofs` is about Heap and FrameAllocator, `SyscallProofs` about Ipc and
ConsoleInput, `DiskProofs` about AtaPio and FatFs; where two modules meet, the
names of one say which it is (`HeapSpec`, `AtaSpec`, `ConsoleSpec`). `RingLemmas`
has what several of them need: the arithmetic of a ring buffer and of division,
the existence of least and greatest numbers, and what a recursive function over
rounds is.

`MC*` modules instantiate these for TLC. Operators named `Mut...` are plausible
slips in the definition that follows them; each property is known to fail when
its mutant takes the definition's place. Where a module's run does not list its
type invariant, one of the invariants it lists contains it.

## 3. Runs and bounds

| run | instance | shows |
|---|---|---|
| `scheduler` | 3 slots, 4 pids (one slot is reused), quantum 2, tick counter modulo 3, an exit code of its own for each task (the proof covers any choice), 3 stacks and failing `kmalloc` | table, saved frames, counters, stacks and exit codes are consistent under all interleavings; no starvation; start returns |
| `heap` | 100 bytes (up to 5 blocks), requests 5, 13, 40, one that wraps `align8`, and 0 | tiling, disjointness, exact figures; failure only when no stretch of free memory is long enough |
| `frames` | 4-byte frames, 64-byte address space, three maps: PC-like, flat, overlapping and beyond 4 GiB | exact counters, lowest run found, only free frames that begin in usable memory handed out |
| `keyboard` | ring of 3, two keys (the scancode of one is also a byte the mouse sends; as configuration byte it switches the keyboard's interrupt off, the other leaves it on), keyboard buffer of 1, two firmware configurations, 2 polls, keys during the boot, a moving mouse | characters arrive once, in order; the ring implements the FIFO; configuration kept; no scancode stays unread unless one has switched the keyboard off; the boot ends |
| `keyboard_active` | the same without keys during the boot | *violated*: see Findings |
| `ipc` | 4 slots, 3 words, 16 addresses, two of them the kernel's image | implements the FIFO, honest results, no write beyond the limit, until a receive is accepted into the image |
| `console_input` | rings and UART of 2, reads of 1 and 2 | no lost wakeup; where the polled read races |
| `user_mode_stack` | register halves over 4 values | *violated*: see Findings |
| `fat` | 6 clusters of 2 sectors of 2 bytes, 4 directory entries in 2 sectors, cache of 3; an empty disk and one with a label, a deleted entry, a fragmented file and a file in the last cluster; 3 writes of 0, 3 or 5 bytes; a read error, write errors and power loss | the disk is sound while calls succeed; a failed or interrupted write harms no other file; `fat_write_file` returns |
| `ramfs` | hello.txt and 2 more nodes, one name with a slash, 2 blocks, files of up to 3 bytes, 2 successful writes, `cat` buffer of 2 | implements `FileStore`; blocks accounted for; entries reachable; `cat` complete |
| `ata` | 3 sectors, 3 calls of 1 or 2 sectors, also past the last one, 2 polls, 3 attempts | right sectors (modulo the address space) in spite of retries and late answers; no sector changes that no write named; calls return |
| `shell` | screen of 4 by 4, tab 2, lines of 5 characters, 2 arguments, commands `cat` and `mem`, 6 keystrokes from two start rows; 8 characters and interrupts of a boot; all 8-bit `%llu`, all 6-bit `%u`, `%x`, `%d`, `%p` with and without padding | cursor and stores stay on the screen; the screen shows the line; the words typed are run; numbers are right |

The bounds are chosen so that the boundary cases happen: a full table and a
reused slot need one pid more than slots; the round robin differs from "first
runnable" only from three tasks; 2^32 is no multiple of 10, so `TickMod` is no
multiple of `Quantum`; a ring must wrap while full; three neighbouring free
blocks and a rest too small to split must occur in the heap; a FAT file must
span two clusters, fill a sector partly and fail to fit; a timed-out command must
still be running when two later calls begin; a typed line must wrap, scroll the
screen and fill its buffer, and a shorter line must follow a longer one; words of
8 bits make the shifted divisor overflow. The caps on otherwise unbounded
counters are `MaxPid`, `MaxWrites`, `MaxOps`, `MaxCalls`, `MaxKeys`, `MaxBoot`
and `KbdDepth`. RamFs uses symmetry
of the heap blocks, which it never compares except for equality.

## 4. Fairness

`Scheduler`: weak fairness of the timer interrupt (the PIT is programmed
periodic and interrupts are enabled outside handlers) and of the steps of
`scheduler_start` (the CPU executes). Tasks get none: they may spin forever, and
no task is assumed to yield or exit.
`ConsoleInput`: the reader executes unless it is halted, and the timer ticks;
keys and bytes need never come. `FatFs` and `AtaPio`: a call that was entered
goes on; the drive may stay silent for ever, and sector operations may fail.
`Ps2`: weak fairness of taking a pending interrupt and of the controller
presenting a byte it holds; strong fairness of `kernel_main`'s steps, because
interrupts disable a poll again and again but keystrokes are far rarer than
instructions. Neither the user nor the mouse has to do anything.

## 5. What is proved

Every theorem is about all values of the constants that the module's assumptions
allow, not only about the instance of its run. The inductive invariants were
checked with TLC on those instances first.

| module | theorem | property, for every |
|---|---|---|
| `SchedulerProofs` | all safety properties of the run `scheduler` | number of slots, quantum, counter width, set of codes and of stacks |
| `MemoryProofs` | `HeapTiled`, `RequestsAnswered`, `OnlyWhenFull` | place and size of the heap, word size, request |
| | `CountExact`, `ScanCorrect`, `OnlyFreeFrames` | frame size, address space, memory map and layout |
| `SyscallProofs` | `ImplementsFifo`, `ResultCorrect`, `StaysBelowLimit` | queue size, message size, address space |
| | `NoStaleReadBeforeSleep` | ring, event queue and UART size, set of bytes and of read sizes |
| `Ps2Proofs` | `ImplementsFifo`, `CtrIsKept`, `KeysArriveInOrder` | ring size, layout, configuration byte, number of polls |
| `RamFsProofs` | `BlocksKept`, `AllReachable`, `ImplementsStore` | pool, directory, heap, file and buffer size |
| `DiskProofs` | `ReadCorrect`, `WriteCorrect`, `OnlyAskedChange` | disk size, number of polls, attempts and calls |
| | `DiskStaysSound`, `OthersStayIntact` | volume geometry, sound disk, name mapping, file size, cache size, kind of fault and number of writes |
| `ShellProofs` | `CursorStaysOnScreen`, `LineIsShown` | screen, tab and line size, text printed or typed |
| | `DigitsAreRight` | word size, number, format |
| | `WordsAreRun` | text typed, line size, number of arguments |

### Scheduler

`SchedulerProofs` proves, for every number of slots, quantum, counter width,
set of codes and of stacks (only non-zero sizes and distinct null values are
assumed), each safety property of the run `scheduler`.

None of the properties is inductive on its own. `CurrentRuns` after a switch
needs that the saved frame belongs to the chosen task; that the frame is still
on top when it is resumed needs the exact depth of every suspended stack, which
depends on where the context was interrupted. The inductive invariant `IndInv`
adds to the properties:

* `TableOK`: slots in use lie below `task_count` and have distinct pids that
  were handed out;
* `DepthOK`: a suspended context has exactly one frame more than its own code
  pushed (one inside `sys_read`), a running one has none;
* `ModeOK`: where the kernel and the tasks can be, that scheduling is on only
  with a runnable task and off only with `current_task = -1`, and that the
  kernel never reaches its `int $0x20` with scheduling on and no request.

The argument has one central lemma, `SwitchStep`, about the tail of the stub: in
four cases (scheduling off; no request; last task gone; round robin) it
re-establishes the invariant from `SwitchEntered`, which says in which
circumstances handlers call it. Each interrupt, system call and exit then only
has to establish `SwitchEntered`. `NextSlotRunnable` shows that the modular scan
finds a runnable slot if there is one. `LifeInvariant` adds what slots hold for
their tasks (stack blocks, exit codes), from which `StacksCorrect` and
`CodesCorrect` follow.

### Heap

The loops of `kmalloc` and `kfree` run one iteration per step, so the invariant
says what holds in the middle of them. `Links` and `Apart`: every header's block
ends at the next header or at the heap's end, and blocks do not overlap; both
survive a split (the rest gets a header of its own) and a merge (the second
header disappears). `Coalesced`: two free neighbours exist only in front of the
coalescing cursor, so there are none when the pass is over; this is what
`FailsOnlyWhenFull` needs, because then a free stretch is one block. `ScanOK`:
no block behind the cursor of `kmalloc` fits, so reaching the end of the list
means that none does. That the figures of `heap_stats` add up is proved without
induction over the list: every header has a partial sum that equals the part of
the heap in front of it, by the least header for which it would not.

### Frame allocator

The invariant is small: the counter is the number of set bits, and after the
boot `used` contains the frames that must never be handed out. The work is in
the operators. The scan of `frame_alloc_contiguous` and the current run of
`frame_largest_free_run` are recursive functions; what they return is proved by
considering the least frame at which they would differ from the declarative
definition. The effect of the boot (`UsableFramesAre`, `ReservedFramesAre`) needs
the rounding of region ends and the arithmetic of the bitmap's words, and there
`LayoutAssumption`.

### Rings: IPC and keyboard

`RingPush` and `RingPop` of `RingLemmas` say what a push and a pop do to the
sequence of the slots between tail and head, for any size and wherever the
indices have wrapped. IPC is then immediate, as its calls are not interrupted;
`StaysBelowLimit` adds that the check on the pointer also refuses sums that wrap.
All three hold up to a receive that was accepted into the kernel's image.
The keyboard's pop is three steps: `RingInv` adds that the ring is not empty
while a pop is under way and that a character already loaded is still in its
slot, so no push between the steps can overwrite it.

`CtrIsKept` needs to know where the controller's answer can be. `CtrInv` says
that before the command only keys are under way, and that from the command to
the read, as long as no key interferes, the answer is the only byte under way or
has already reached the data register, which keeps it even if
`keyboard_handler` empties the buffer first. The rest is arithmetic on the eight
bits.

`KeysArriveInOrder` says that what was typed and not yet read is the ring, then
the character in the output buffer, then those in the keyboard. Every step keeps
this equation: a key appends at the end, `PresentKbd` moves the first byte of the
keyboard into the buffer, the handler moves it on into the ring or drops it
there, and a pop takes the first. That nothing else gets into the ring is
`KeyInv`: outside the dialogue about the configuration only keys are under way
on the keyboard's side (`KeysUnderWay`), none while `mouse_read` waits for the
mouse (`NoKeyInAckReads`), and a handler that comes after its byte was read finds
the controller's answer or an acknowledgement in the register, which are no
characters (`LateIrq`, `AcksOnly`). The characters of a sequence of bytes are a
recursive function over its prefixes; the lemmas about its first and last element
are proved by the least prefix at which they would fail. The proof fixed the
model in one place: an interrupt could stay pending over a whole `mouse_write`
and then take a byte of a movement for a character, which a CPU with interrupts
enabled rules out.

### RAM file system

`Inv` adds to the types that names differ, that a node has a block exactly if it
has a size, that blocks in use are those of the directory's files (`Owned`) and
belong to one file each (`Unshared`). The refinement to `FileStore` goes action
by action. A write into a grown file copies the old bytes into another block and
frees the old one; that no other file changes is `Unshared`, and that a new block
is not one of another file's is `Owned`. `AllReachable` shows the read loop of
`cat` to deliver the whole file, for every buffer, by the first offset at which
it would not.

### ATA

`Inv` relates the call to the drive: `CallOK` says how far the loops of the call
are, `Synchronized` that the drive works on the sector of the call unless an
earlier call gave up on it, and `StoresTheLast` that what the drive is still
storing is the last data written to that sector. `ReadsTheSectors` and
`WritesTheSectors` are inductive together with these. `OnlyAskedChange` needs
neither synchronization nor success: `WritesAsked` says that the sector of every
write command, the drive's as well as the call's, was named by some call, and a
store changes no other.

### FAT

Nothing can be said of a disk on which a FAT sector was misread or a stale name
was written again, so the heart of the invariant, `GoodInv`, is under `Good`. Its
main part says which clusters are out of danger. `Taken` are those of the files
that neither failed nor are being written; `Claims` says that some set of
clusters, closed under following the FAT and disjoint from `Taken`, contains
everything that the write under way can reach: the rest of the old chain while it
is freed, the new run, and after a failure whatever the directory entry still
points to. The set shrinks and grows with the write, and only its existence
matters, so a write that fails or stops at any sector needs no case of its own. A
new run consists of clusters whose FAT entry is 0, and no chain of an intact file
contains one (`Chained`: a chain ends with an end mark and has no cycle).

`Progress` says how far a write is: the links already made, the sectors already
written, and at which offset the next one goes; when the entry is written at the
end, the file's chain is the run and byte `k` of it is byte `k` of the buffer.
This needs the division of offsets by sector and cluster size (`PlaceOf`).
`NoLeak`, as long as every call succeeded, says that the clusters in use are those
of intact files and of the write. `CacheInv` relates the cache, in which reads
look files up, to the directory: after `fat_parse_root_dir` each of its entries is
that of the directory entry of the same rank (`ParseIs`, with `NthExists` for the
counting).

### Console input

`StaleReadOnlyAfterSleep` is inductive with its types: from the status test to
the read interrupts are off unless the reader slept, so the handler cannot take
the byte. That the handler's drain loop puts no more than characters into the
bounded queues is `DrainedIs`, about a recursive function over the bytes.

### Screen, numbers and command line

The loops of `monitor_write`, `kvprintf`, `u64_divmod` and the digits are
recursive functions over the number of the round or the value. The lemma
`Recursion` of `RingLemmas` gives such a function its defining equation, and what
it computes is then shown by the first round at which it would not.

`CursorStaysOnScreen`: `CursorInv` says that between two calls the cursor is on
the screen, and how far it can be off in the middle of an interrupted one: one
column beyond its row or at the start of the row below the last, never further,
because a warning is written by complete calls that bring the cursor back before
the interrupted one goes on. A tab ends at a multiple of `TabSize`, which divides
the width.

`DigitsAreRight`: after `Aligned` the divisor is the base shifted as far as it
stays at most `n` or would leave the word, so `n` is below twice the divisor or,
where the shift overflowed, below the word; `LongBits` rounds are enough for
either loop. In each round of `Subtract` the number is quotient times base plus
remainder, and the remainder is below twice the divisor; at the end the remainder
is below the base. The digits are then those of the reference `Numeral`, and the
serial port, which mirrors the screen, received them behind the padding.

`LineIsShown`: `TypedInv` says that the buffer up to `idx` is the text as edited,
`ShownInv` that prompt and buffer stand in the cells before the cursor. A
character that takes one column (`Ordinary`) extends this, also when it wraps and
scrolls: scrolling moves cells and cursor by one row, and `LINE + 2` cells are
always above the last row. Erasing shortens it, at the start of a row too.

`WordsAreRun` compares the cutting of the buffer with an automaton that reads the
text. `Progress` relates the two between rounds of `parse_line`: from `pos` to the
text's end the buffer is still the text (`Untouched`), the automaton stands in a
gap in front of a word there (`Ready`), and the arguments so far are its words
(`WordsHeld`): each is the string from its offset to a NUL in front of `pos`, so
no later NUL changes it. One round takes the automaton over a word and the
blanks behind it, in three cases: a plain word, a quoted one, and a quote that
is never closed (`CutPlain`, `CutClosed`, `CutOpen`). When the loop stops for the
number of arguments, `WordsGrow` says that what the automaton reads later leaves
those words as they are.

### Model-checked only

Liveness (`FairSpec` of every module): fairness is outside the prover's reach.
Every invariant and every safety property of the passing runs is also a theorem.

## 6. Findings

`enter_user_mode` loads `user_stack` into `eax`, then `mov ax, 0x23` overwrites
its low half before `push eax`, so ring 3 starts with a stack pointer other than
the one passed. The run `user_mode_stack` shows it.

`kernel_main` announces "Timer ve klavye aktif" (timer and keyboard active) after
`mouse_init` has made the mouse report its movements. `init_pic` masks the slave
controller and the line to it, nothing unmasks them, and so nobody reads the
mouse's bytes: with the first movement one of them stays in the output buffer
that both devices share, and no key gets through any more. The run
`keyboard_active` shows it for a controller with a single output buffer, as the
hardware has; an emulator that lets keyboard bytes overtake hides it. Serial
input is not affected.

Other observations that the properties state as their conditions:

* A failed `fat_write_file` leaves the old directory entry with a freed chain.
  If another file then gets those clusters and the first name is written again,
  its "old chain", now the other file's, is freed. `OthersIntact` holds up to
  that point (`spoiled`) and fails without the condition.
* An unreadable FAT sector makes its clusters look free, so a read error during
  a write can overwrite other files (`misread`).
* `fat_find_free_run` never offers the last two clusters of the volume, and a
  file whose name is written in lower case is stored, and found, in upper case
  only.
* After an ATA call has given up on a busy drive, the late answer is taken for
  the next call's sector (`confused`); a sector that the drive fails to store
  after the data was sent is reported as written (`lost`).
* `ata_read28` and `ata_write28` test only the first address against 28 bits
  (`src/drivers/ata.c:57`, `:92`). A call past the last one goes on with sector 0
  and reports success, a write overwriting it; the properties count addresses
  modulo 2^28.
* `user_ptr_ok` accepts pointers into the kernel's own image (`clobbered`).
* `ata_identify_primary` registers the device before its functions are set, which
  `storage_register` refuses, and `fat_init` runs before `ata_init`
  (`src/core/kernel.c:36`, `:47`): in the shipped order the FAT driver stays off.
* `fat_init` logs "FAT16 detected (read-only)." (`src/fs/fat.c:185`) for exactly
  the volumes that `fat_write_file` writes.
* A key pressed before `keyboard_init`, or while `mouse_init` waits for the
  configuration byte, is taken for it and written back; the scancode of A, 0x1E,
  switches the keyboard off (`raced`, `KeyboardOff`). The controller's own answer
  is then left in the output buffer, and where the controller raises no interrupt
  for it, it blocks the keyboard until somebody reads port 0x60; `KeyboardServed`
  is about scancodes only. After a timeout the byte read last is used.
* Until `timer_init` each timer interrupt prints a warning, possibly inside
  `monitor_put`; it can store one cell beyond the screen (`nested`).
* Erasing a tab or an escape on the command line leaves the screen and the line
  apart (`odd`); a line of 127 characters is run without Enter.
* `set_kernel_stack(0xC1100000)` (`src/core/kernel.c:41`) puts the trap stack at
  the end of the heap, 1 MiB from 0xC1000000: trap frames lie in its last block.
* RAM file system nodes are never returned to the pool, and a name with a slash
  can be created but not reached by a path.

## 7. Not modelled, and the plan

* The gates of the IDT, the PIT's divisor, paging (fixed tables, written once),
  PCI and RTL8139 probing: register programming without later state. What it
  decides about interrupts is in Ps2, Shell and Scheduler.
* `elf_load`, `elf_prepare_stack`, `rtl8139_send`, `input_pop`, `task_switch`,
  `pic_init`: called by nothing.
* `mouse_handler`: its interrupt is masked.
* The trap stack of ring-3 tasks: shared by all of them, but the kernel starts
  one, so there is nothing to interleave.
* FAT32, which the driver lists and reads only; parsing of format strings; log
  levels; the texts of the shell's messages; the user shell, whose system calls
  are modelled on the kernel's side; `panic`, which prints and halts; `libc`.

Plan for the next steps, in order:

1. FAT over ATA: `fat_write_file` with writes that are reported and then lost.
