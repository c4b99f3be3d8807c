# A TLA+ specification of WaffleOS

WaffleOS is a 32-bit x86 hobby kernel in C and NASM: a two-stage FAT12 boot
loader, a kernel with a heap, a PIT clock, PS/2 keyboard and mouse, ATA and
floppy drivers, a text console with a command line, and a small windowed
desktop. There is one CPU, no preemption and no user mode; all concurrency is
between the code that was interrupted (*main*) and interrupt handlers. Paths
below are relative to `src/source/`, line numbers are those of the commit that
was modelled.

## 1. Inventory

| Component | State | Operations | Interacts with | What is hard |
|---|---|---|---|---|
| heap (`kernel/core/memory.c`) | block list in a static 1 MiB array | `malloc`, `calloc`, `free`, `init_memory` | windows, widgets, canvases, lists, page tables, PCBs | long call sequences; splitting and merging; honest NULL |
| interrupts (`kernel/core/idt.c`, `isr.c`, `interrupt.asm`, `hal.c`) | 8259 pair (IRR/ISR/IMR), IF, gates | `init_pic`, `enable_irq`, `send_eoi`, stubs | every driver | a handler that skips its EOI blocks all lower priorities for good |
| timer (`kernel/timers/timer.c`) | two 32-bit tick words | `timer_handler`, `sleep_millis`, `get_*` | disk time-outs, `systime` | carry between the words; non-atomic reads |
| keyboard (`kernel/drivers/keyboard.c`) | `input_buffer`, `buffer_index`, `line_ready` | `keyboard_handler` (IRQ 1), `read_line`, `reset_keyboard` | command executor, terminal | keys while main is between two steps; lost wake-up |
| command executor (`kernel/core/cmd_executor.c`, `base_cmds/`) | command table, console mode | `register_command`, `tokenize`, `execute_command` | keyboard, terminal, all commands | table and token limits; commands run inside IRQ 1 |
| mouse (`kernel/drivers/mouse.c`) | packet cycle, position, buttons | `mouse_handler` (IRQ 12), 8042 handshakes | window manager | packet alignment; keyboard stealing replies |
| exceptions (`isr.asm`, `isrs_gen.c`, `isr.c`) | the stack frame | stubs, `i686_ISR_Handler`, panic | console | error codes that only some vectors push |
| floppy (`kernel/drivers/floppy.c`) | `ReceivedIRQ` | `floppy_handler` (IRQ 6), `reset_floppy`, `FLOPPY_ReadSectors` | PIC | busy waits without time-out, no EOI |
| disk (`kernel/drivers/disk.c`) | selected device, device list | identify, select, read, write sectors | timer | waits without a limit, a time-out that reads the wrong word |
| FAT12 (`boot/stage2/fat.c`, `kernel/drivers/fat.c`) | root buffer, handle table, FAT copy | open, read, close, find | disk | read error in mid-file, NULL handle, chain walk |
| boot (`boot/stage1/boot.asm`, `boot/stage2/`) | registers, load buffers | find and load STAGE2.BIN and KERNEL.BIN | BIOS, FAT | retries, A20 gate, mode switches around BIOS calls, 16-bit lengths |
| scheduler (`kernel/core/cpu_sched.c`) | PCB list head, tail, current | `add_process`, `schedule` | heap | add while running, nested schedule |
| paging (`kernel/core/page.c`) | directory, tables | `init_paging`, `enable_paging` | heap | no caller yet |
| console (`kernel/core/stdio.c`) | cursor, video memory | `putc`, `clrscr`, `printf` family | everything that prints | main and IRQ 1 share the cursor |
| windows (`kernel/libs/ui/*`, `libs/gui.c`) | window list, dragged window, mouse edges | create, destroy, raise, click, drag, draw | heap, mouse, apps | pointers kept over a destroy; callback re-entry |
| terminal window (`kernel/libs/apps/terminal.c`) | text, input line, wrapped-line cache | key handling (IRQ 1), redraw (main) | keyboard, executor, windows | cache validity across an interrupt |
| other apps (`kernel/libs/apps/`) | visualiser state | launch, update, close | windows | stale window pointers |
| lists, strings (`kernel/libs/`) | heap lists | append, pop, split | heap | failure halfway |
| URI parser (`kernel/utils/httpClient/`) | none (pure) | parse, validate, print | none | order of delimiters |
| display, cursor, maths, vendored libc | frame buffer | drawing | none | pixels; not modelled |

Hard behaviours in one list: handlers that interrupt *main* between two reads of
shared variables (clock, keyboard, mouse buttons, terminal); handlers that nest
because a reader of the clock executes `sti`; EOIs that are not sent; waits
without a limit; pointers that outlive the heap block they lead to; buffers and
tables at their limit. `PROJECT.json` lists each at its line under `hazards`.

## 2. Modules

| Module | Models | Abstract specification | Proofs | Runs |
|---|---|---|---|---|
| `Heap` | the allocator of `core/memory.c` | `Allocator` | `HeapProofs` | `heap` |
| `Memory` | `memset`, `memcpy`, `memmove` and the searches of `core/memory.c` | `Filled`, `Moved`, `Scanned` | `HeapProofs` | `heap` |
| `Interrupts` | 8259 pair, boot order, the four handlers | | `InterruptsProofs` | `irq` |
| `Clock` | `timers/timer.c` | | `ClockProofs` | `clock` |
| `Keyboard` | `drivers/keyboard.c`, the prompt loop | | `KeyboardProofs` | `kbd` |
| `Scheduler` | `core/cpu_sched.c` | `ReadyQueue` | `SchedulerProofs` | `scheduler` |
| `Disk` | detection and identification in `drivers/disk.c` | | `PS2Proofs` | `disk_mute`, `ps2` |
| `PS2` (extends `Disk`) | `init_mouse`, the 8042, both PS/2 handlers | | `PS2Proofs` | `ps2` |
| `Windows` | `window_manager.c`, `events.c`, `gui.c`, opening and closing in `apps/` | | `WindowsProofs` | `windows` |
| `Terminal` | `apps/terminal.c` | | `WindowsProofs` | `terminal` |
| `Fat12` | the floppy image and the BIOS's disk services (external) | | `BootProofs` | `boot` |
| `Stage1`, `Stage2`, `Loader` | `boot/stage1/boot.asm`; `entry.asm`, `x86.asm`; `disk.c`, `fat.c`, `memory.c`, `main.c` of stage 2 | | `BootProofs` | `boot` |
| `Boot` | the two stages composed | | `BootProofs` | `boot` |
| `Format` | the three `printf` machines | `Meant`, the C standard's reading | | `console`, `console_help` |
| `Exceptions` | table of gates, stubs, frames, report of an exception | | `InterruptsProofs` | `console` |
| `Executor` | `cmd_executor.c`, `base_cmds/` | `Words`, the words of a line | | `console` |
| `Console` | the screen of `stdio.c`; composes the three above with main, IRQ 1 and a spurious interrupt | the endless `paper` | `InterruptsProofs` | `console`, `console_help` |

Every `MC…` module gives the constants of its specification that are not
literals; the configurations are named after the runs (`MCHeap.cfg` for `heap`).
The first properties of a run include its module's type invariant as a conjunct
(`BlocksTile`, `StackSound`, `ReadersAccurate`, `NoDanglingBlock`, …), so none
is listed by itself.
Definitions marked *Fault* are the plausible bugs against which each property
was tried: with the definition below it replaced by the fault, TLC finds the
property violated (`mutants` in `PROJECT.json`). They are not part of any
specification.

Conventions: a handler entered through an interrupt gate runs with IF clear and
is one atomic action for *main*, except in `Interrupts`, whose subject is what
happens inside handlers. *main* is cut into steps at each access to a variable
that a handler shares. Variables marked *history* are not in the code; they
record what a property needs to tell cases apart, and no action of the code
depends on them. Four more (`burst`, `late` of `Clock`, `tested`, `split`) bound
how much a device does while *main* executes a few instructions; each is
explained below.

### 2.1 Heap

`block` maps header offsets to `[Size, IsFree, Next]`; its domain is the list.
`Malloc(size)` is `malloc` as a whole, first fit and split (`Take`), including
the `init_memory` it performs when nobody has called it. `free` is cut into
`Free` (mark), `MergePrevious`, `AbsorbNext` (one turn of the loop over the
following blocks) and `FreeReturns`, so the state between two merges can be
looked at; nothing else runs meanwhile. `calloc` multiplies modulo `WordRange`,
like `size_t`. `owned` records what callers hold. Payload bytes are left out.

`Allocator` is what `memory.h` promises, without a list: a request gets a range
clear of all others, or NULL, and NULL only when every stretch that could hold
the request touches a live range, or the slack (a header and `BLOCK_SIZE`) that
`malloc` does not split off behind one. `ImplementsAllocator` maps `owned` to
`live`; the merge steps stutter.

Run `heap`: 14 bytes, headers of 2, `BLOCK_SIZE` 1, requests of 0, 1, 3, 5 and
12 bytes: up to six blocks, every split case (remainder below, at and above
the threshold), the exact fit of the whole heap and a request that always fails
once anything is allocated.

`Memory` has the two functions callers fill and copy blocks with, as functions
from memories to memories: `memset` with its overlapping ends and the words
between them, `memcpy` with its direction, its singly copied head, its words and
its tail. The rest of the file stands beside them, though nothing of the kernel
calls it yet: `memmove`, the three ways of storing a pattern, `memchr`, `memscan`
and `memcmp`, each from the string instruction it consists of. Assumptions of
`MCHeap` compare them with `Filled`, `Moved` and `Scanned` for every alignment,
overlap and length up to three words and two bytes; every byte is distinct where
bytes are copied, so nothing depends on the contents. Regions that wrap around
the end of the address space are left out.

### 2.2 Interrupts

State: IF, IRR, ISR and IMR of the pair (line 2 is the cascade), installed
gates, a stack of handler activations, the boot position, the mouse's packet
position on both ends of the wire, and one floppy transfer. `BootSteps` is the
order of `kernel.c:30-39`, one entry per `register_interrupt_handler`,
`enable_irq`, probe, handshake and `sti`. `AfterEoi` is `send_eoi`: both PICs
are in fully nested mode, the EOI is non-specific and retires the highest line
in service. `Dispatch` is the CPU taking the line the pair presents; `Work`,
`MouseByte`, `SendEoi` and `Return` are the handler. `EnterDesktop` and `CrashMe`
are the two commands from which main does not return to its prompt; typed in the
terminal window they are `Endless`. Three facts of the code
shape it: `floppy_handler` sends no EOI; `mouse_handler` returns without one
when it drops a byte; the clock readers end in an unconditional `sti`, so a
"systime" typed in the terminal window, which runs inside IRQ 1, opens the rest
of its handler to interrupts, and a drive probe enables interrupts before
`kernel.c:39`.

Bounds: `MaxNesting = 3` handlers on the stack. `MaxBurst = 3` requests before
*main* runs undisturbed (`Lull`): handlers take microseconds and the fastest
device speaks every 10 ms, so without it the model would starve *main* with
interrupts that physics does not offer. One lost mouse byte (`MaxLost`) and one
floppy sector are enough to leave both lines in service at once.

Fairness: weak for handlers, for delivery, for `Lull` and for the floppy
controller; strong for *main*'s boot and floppy steps, which are disabled again
and again while a handler runs but always get the CPU back. Raising lines,
losing bytes, entering the desktop and "crashme" have none.

Run `irq` (14,520 states) shows that no interrupt reaches a gate whose driver is
missing, that handlers nest only by priority even with the hidden `sti`, that an EOI never
retires another handler's line, that lines 0 and 1 are in service only while
their handlers run, and `LinesServed`: the clock and the keyboard are served for
ever, unless the machine is `Halted`: "crashme" ended in the panic of main, or
the terminal window's IRQ 1 does not come back, because "enablegraphics" runs a
second desktop inside it or "crashme" its panic. The mouse is served while its
byte stream is intact. Without that last condition it is
false: one lost byte and the branch at `mouse.c:69` leaves line 12 in service
for good.

### 2.3 Clock

Two words, the tick with its carry, `sleep_millis` cut at each of its five
reads, and the readers that switch interrupts off. The words are scaled: `Word`
is 16 because 16 and 2^32 leave the same remainder (6) modulo 10, which is what
decides when the carry test `milliseconds_low == 0` succeeds: once in five
wraps, in both. Twenty-six ticks are sixteen wraps of the word and three
carries. `Period` is the time between two moments with a zero low word.
`late` lets at most one tick fall into one round of *main* between two `hlt`s,
as 10 ms against a handful of instructions.

Run `clock`: a sleep is never short (`SleepsLongEnough`), however the reads
fall; it never waits longer than two periods beyond its duration (`SleepEnds`,
an action property because the number of ticks is bounded); the readers see one
instant, and `get_seconds`, whose 37/125 makes up for the fraction dropped from
2^32 / 1000, is exact to one second for what the two words show
(`ReadersAccurate`). That the two words count milliseconds, as "64 bit tick
count" (`timer.c:18`) has it, is not true after 49 days: the carry is missed at
four wraps in five.

### 2.4 Keyboard

`EnterKey`, `BackspaceKey`, `CharKey` and `ForwardKey` (desktop mode) are
`keyboard_handler`; *main* goes round `reset_keyboard` (two stores, two steps),
`read_line` (test, `hlt`), the character-by-character copy at the start of
`execute_command`, and the command. An Enter between the test and the `hlt` is
possible; `Wake` is any later interrupt, which the clock guarantees, hence weak
fairness of *main*. `line` and `submitted` are what the user saw and ended with
Enter; `spoilt` is set by a key in one of the two windows the code leaves open:
an Enter between the two stores, or any key between Enter and the end of the
copy. Run `kbd` uses two characters and a buffer of four bytes, so that the
buffer fills, and a two-character line for "enablegraphics".

`QuietLineDelivered` names exactly these windows; outside them the command that
runs is the line on the screen, although keys may be typed while the command
before it is still running.

### 2.5 Scheduler

`add_process` between runs and from inside a running process, and `schedule`
cut at the load of the successor (`Unlink`) and at the `free`. Blocks are reused
by later allocations, and a full heap means that `AddProcess` is not enabled,
as the code then changes nothing. `ReadyQueue` is a first-come-first-served
queue; `ImplementsReadyQueue` reads the waiting pids off the linked list. Three
blocks and five processes force reuse while others wait. Weak fairness of
`schedule`'s steps (processes end) and of its call (whoever fills the queue
runs it). A process that itself calls `schedule` is left out; none exists.

### 2.6 Disk and PS2

`Disk` is `init_disk` for one device: `detect_device`, `identify_device` with
every wait and early return, and the time-out. The drive is external, one of five kinds:
an empty bus, on which every port reads ones (`floating`), an empty controller, a
packet device, a disk that answers or errs, at once or slowly, and a drive that
never offers its data (`mute`). `Words` and `Asked` are the
swapped arguments of `get_systime_millis`: the driver times with the high word,
which stays 0 for 49 days. The clock runs to 12 units with a limit of 5, and at
most one tick falls into a poll (`tested`).

`PS2` goes on from there: `init_keyboard`, then `init_mouse`'s dialogue with the
8042 and the mouse, byte by byte (`Dialogue`), through the one output buffer
(`port`) that the controller's own answers, the mouse's replies and the
keyboard's scan codes share. Whether IRQ 1 is served during the dialogue is
decided in `init_disk`: the clock reader of the IDENTIFY loop executes `sti`;
without a drive interrupts come on at `kernel.c:39`. `mouse_wait` runs out
when nothing is on its way or what is belongs to `Slow` (the 100000 polls last
a tenth of a second, a reset's self-test half a second); `mouse_read` then
returns whatever the port shows last. Emulated controllers keep a request of a
line whose level has dropped, real ones do not: `Latching`. Keys come at any
time; `keyed` and `late` remember whether one did before `init_mouse` returned,
and whether a reply came too late. The mouse reports in packets of three bytes,
and `MouseIrq` is `mouse_handler` with its `mouse_cycle`: a byte without bit 3
where a packet should begin is dropped without an EOI (`mouse.c:67-70`), and line
12 is in service from then on (`unretired`). `Bit3` is what the bytes have there: a
movement, a key or the command byte either. Of the 8259s only that is kept; the
rest of their behaviour is in `Interrupts`.

Fairness: the driver runs, the drive finishes what it started, the clock ticks
again and again (strong, since it waits for the poll); handlers and
`init_mouse` run (weak); each of the three sources of bytes gets the buffer in
the end (strong, because the buffer is full again and again).

Run `ps2` (110,790 states) has all five kinds of drive. `ReportIsTrue`: what
`init_disk` reports is what is there. `InitDiskEnds`: the boot gets past
`init_disk` with every drive that ends its BSY and then answers, and never with
the other two. On an empty bus it stays at the wait before the test that would
say "No drive"; a mute drive is polled for ever, which is what `disk_mute` holds
against the promised time limit (`InitDiskReturns`, false). `DialogueSound`:
`init_mouse` fails only after a key or a late reply, only a key can put the
command byte out of order, the handlers take each other's bytes, or
`mouse_handler` a byte that is no packet's, only if a reply was late or a request
was latched, and only behind that is line 12 left in service. `KeyboardLives`:
once `init_disk` is over the shared buffer does not stay full and a key gets
through, with three exceptions, each of which TLC reaches: `init_mouse` gave up
(its later bytes then stay in the buffer with line 12 masked), a scan code was
written back as the command byte, or line 12 was left in service. The third needs
no key at all: on a machine that latches, the last acknowledgement is taken for a
packet's first byte, the bytes that follow are one place off, a movement without
bit 3 arrives where a packet should begin, its EOI is not sent, and the next byte
of the mouse fills the buffer for good.

### 2.7 Windows

A window is its heap block; freed blocks are handed out again, which is what
makes a stale pointer visible. A frame is `UpdateDrag`, `TestClick` (with at
most one callback, run to its end), `StoreButtons` and `Draw`; `MouseButton`
(IRQ 12) may fall between any two, because `gui.c` reads
`mouse_state.buttons` once in each of the first three. Positions are left out:
the window under the pointer is any window or none. Allocation may fail at
every point where `create_window` and the launchers allocate: the window, each
button, the canvas.

Run `windows` (127,447 states) has three windows at most, four blocks (symmetric) and one
visualiser next to the terminal; the other visualisers have the same code. The
same properties also hold with `MaxWindows = 4` (1.3 million states).
`ClickOnce`: however IRQ 12 falls between the reads, one press is never two
clicks. The converse, that a release between the reads is not lost, is false.
`TerminalTracked` is the property the special close callback exists for.
`DragHoldsLive` finds that a freed window can stay `dragged_window` only if the
button goes up between `update_drag` and `update_mouse_click` of one frame
(`raced`). `LaunchShows` excepts programs whose window was closed behind their
back (`orphaned`): `default_close_callback` tells the visualisers nothing.

### 2.8 Terminal

IRQ 1 edits `input_line` and prints into `terminal_buffer`; *main* wraps the
text into a cache when it is not valid, marks it, draws from
`terminal_visible_offset`, and closes and reopens the window. The prompt
"root $ " is one character and so is a command's answer. `Wrap` reads the
buffer in one step, because a key in the middle of it leaves the same stale
cache as one before the store of the flag. The opening is five
steps, `clear_terminal_buffer`'s stores of the index and of the terminator and
`terminal_print`'s copy, index and terminator; at most one key falls into them
(`split`).

Run `terminal`: eight bytes of text, rows of two, two rows, lines of two keys:
the buffer fills after a few keys, lines wrap and scroll. `IsWrapped` is a
definition of wrapping without the loop, so `ValidIsFresh` checks `wrap_text`
as well as the interleaving. `DrawsTail` bounds what is drawn; it does not say
that the last row is inside the canvas, which is false: `update_visible_offset`
counts breaks, so the prompt's row can fall just below it.

### 2.9 Boot

`Fat12` is what is not code: an image as `mkfs.fat` and `mcopy` make it (root
slots, names, sizes, chains; the packed 12-bit table is read byte by byte from
it), and the BIOS services, which may fail `MaxFaults` times in a boot. `Stage1`
is `boot.asm`: geometry, root directory, search for STAGE2.BIN, the chain, three
tries with a reset between. `Stage2` is the A20 gate through the keyboard
controller, whose output buffer may hold a key (`Scancodes`), and the way from
protected mode into a BIOS call and back (`x86.asm`) with its switches of
mode and interrupt flag. `Loader` is the C: `DISK_Initialize` with the
uninitialised `disk->id` it asks the geometry of (`StrayIds`), `FAT_Initialize`,
the walk through the root directory, `FAT_Read` along the chain and `main`'s
loop, which never asks whether something failed.

Run `boot`: seven floppies (fragmented and single-cluster chains, odd and even
entries, an entry across two sectors of the table, a kernel in the last slot of
a root sector, sizes at the edges of a sector, an empty kernel, either file
missing), four failures, which is one more than a sector is given up after,
so that a second sector can fail as well. `Stage2Whole` and `KernelWhole`: what
is started is the file, sector by sector, except the very sectors given up, at
whose place the one before stands twice. Kernels of 64 KiB and more are apart,
because `memcpy` counts in 16 bits, and so is a boot in which the stray
`disk->id` names another drive (`WrongGeometry`). Both `KernelWhole` and
`GivenUpAfterThree` fail without that premise: with the geometry of drive 129
the second stage finds the kernel's entry and starts sector 1080 in place of
2040, and sectors that are not there are given up without any failure of the
drive. `FailsForACause`, `GivenUpAfterThree`: no
failure is blamed on an earlier one. `SafeProtectedMode`: interrupts are on only
in real mode, where there is a table for them. `BootEnds` under weak fairness of
the processor and the keyboard controller: no retry or chain is endless.

### 2.10 Console

`Format` runs the format strings through the three machines (`vsnprintf` and
`printf` of the kernel, `printf` of stage 2) as they are; a format is given as
pieces, and `Meant` says what the C standard makes of them. `Executor` has the
command table, `tokenize`, the lookup and the printing calls of every command;
`Exceptions` the table of gates from `init_idt` to `i686_ISR_Initialize` and
the stack words from the vector to `iret`, for stubs with and without an error
code. `Console` executes the calls `putc` by `putc`, and `putc`
access by access: the build does not optimise, so `g_ScreenX++` is a load and a
store, and between any two of them a key (echoed by IRQ 1) or a spurious IRQ 7
(which prints "Unhandled interrupt 39!") may print with the same cursor.

Run `console` (234,845 states): a screen of four columns and two rows, so that every line wraps
and scrolls and each tabulator stop occurs; the three ways stage 2 may end,
the kernel's messages, sixteen command lines with names and buffers scaled so
that every limit is overrun; two events. `FormatsRight`, `CommandRight`,
`FrameWhole` compare with the references above: `FormatsRight` every message that
is printed, and the numbers at and beside the limits of the signed and unsigned
types, negative ones among them, in all three machines; `FrameWhole` the frame of
each of the 255 vectors that have a gate, and the frames of the interrupts and
exceptions that happen. `ScreenIsTail`: while no
interrupt prints, the screen is the end of an endless paper, on which a
tabulator is a sign of one to three columns; the lines typed have one too, and
the Tab key is echoed. `CursorSound`:
with interrupts anywhere, no access leaves the adapter's memory, and the
hardware cursor is right again one character later.

## 3. Properties and what was tried against them

Each property has a fault of the code that breaks it (`mutants`), for instance:
the header not paid for when a block is split; the keyboard's line unmasked
before its gate is installed; an EOI that clears every line; the carry left out
of the end of a sleep; a flag that survives `reset_keyboard`; a tail pointer not
reset; the error bit read before the signature; the mouse's identification not
taken; the terminal closed like any other window; a button that stays
remembered after its release; an echo kept after Backspace; an odd cluster
decoded like an even one; a row that is not blanked when the screen scrolls.

Deadlock is checked in `heap`, `windows`, `boot` and `console`, and left out
elsewhere: the other systems may stop for good in the model (bounds on ticks,
bursts, processes and clock, a desktop that never returns, a panic, an `init_disk`
that hangs).

## 4. Where the code and its text disagree

* `disk_mute`: "5s timeout" (`disk.c:172`). The time-out compares the high
  words and never fires; a drive that takes IDENTIFY and offers nothing stops
  the boot.
* `console_help`: "formats a string and writes it into str" (`stdio.c:239`).
  `vsnprintf` leaves its conversion state only after a number, so the second
  `%s` of help's line (`cmd_executor.c:101`) is printed as "%" and the
  description follows its own "%".

Met while modelling; the properties name them as exceptions, or the model shows
them:

* "Packet is misaligned. Discard byte" (`mouse.c:68`) returns before
  `send_eoi(12)`: the mouse, and everything below line 2, is never served again;
  and with the mouse's next byte in the shared buffer the keyboard is not either
  (2.6).
* "64 bit tick count" (`timer.c:18`): see 2.3.
* "pressed in the previous frame and is now released" (`gui.c:25`): the buttons
  are read twice, a release between the reads is a click nobody processes.
* With interrupts on and nobody typing, IRQ 1 takes the controller's answer to
  "read configuration", and `mouse_read` reads the same byte again, stale, when
  its wait has run out: the right byte by luck.
* A latched request of line 12 at `enable_irq(12)` makes `mouse_handler` take
  the last acknowledgement for the first byte of a packet (`mouse.c:142`), from
  which the first item follows without any byte being lost. `Interrupts` assumes
  that none is latched, and loses a byte instead.
* Floppy: a second sector waits for an interrupt that is blocked by the first
  (`floppy.c:36`).
* Disk: a floating bus never gets to the test for 0xFF, because BSY is waited
  for first (`disk.c:230`); `InitDiskEnds` states it.
* Keyboard: a key between Enter and the end of the copy changes the command
  (`keyboard.c:76`).
* Windows: a closed visualiser cannot be opened again and draws into freed
  memory (`window_manager.c:20`); a reopened terminal keeps an invisible
  half-typed line (`terminal.c:138`).
* Stage 2: `memcpy` counts in 16 bits, so of a kernel of 64 KiB or more the
  first 64 KiB are not copied (`memory.c:4`); after a sector given up the one
  before is handed out again; a missing kernel is a NULL handle that `main`
  follows.
* Console: tabulators move 2, 2, 1 and 3 columns, because the bound of the loop
  moves with the cursor (`stdio.c:101`). `Registers` has fields for esp and ss
  that the processor does not push without a change of ring (`isr.h:11`).
* Two handlers' `malloc` (a command run in IRQ 1 that opens the desktop again)
  may interrupt *main*'s; the only such command is the second desktop of
  `LinesServed`, after which nothing else matters.

## 5. What is proved

tlapm checks these for all values of the constants that satisfy the named
assumptions. Each inductive invariant was first checked by TLC on the run's
instance.

**`HeapProofs`** (from `HeapAssumption`: positive header size, an array that
holds at least one header, NULL is not an address). The inductive invariant
`IInv` joins `TypeOK`, `BlocksTile`, `Coalesced`, `OwnedBacked` (what a caller
holds lies in a block in use and is at most the slack shorter), `NothingLeaks`
and `CurrentIsFree`. `BlocksTile` is needed for everything else: it makes the
list's order the address order, hence `FirstFit` what the walk finds.
`CurrentIsFree` is what makes a merge safe for owners. The lemmas `TakeGood`,
`SwallowGood` and `MarkGood` show that the three ways a list changes keep it
tiling, once for all actions. From `IInv` follow `OwnersApart` and
`FreedHeapIsWhole`, and step by step the refinement of `Allocator`
(`FindsAllocates`, `FailsRefuses`): the interesting half is that NULL is honest,
for which a free stretch long enough for the request is shown to lie in one
free block, by coalescing. Theorems: `TypeCorrect`, `ListTilesTheHeap`,
`FreeCoalesces`, `OwnersNeverOverlap`, `HeapDoesNotWearOut`,
`HeapImplementsAllocator`.

The same module has what holds of `memset` and `memcpy` for every address,
length and memory: `MemsetFills` (it writes its region and nothing else),
`CopyUpKeeps` and `CopyDownKeeps` (one more turn of a loop, of a byte or a word,
keeps what was moved right, because it reads what no earlier turn wrote),
`CopiesAlignedWords`, and from these `MemcpyMoves`: the head, the words and the
tail together move the region, in either direction. The loops are recursive
functions of the number of turns; `LoopUpReaches` and `LoopDownReaches` find what
they return by looking at the least turn that went wrong (`FirstCounterexample`,
from `WFMin`), since the induction theorems themselves cannot be instantiated.
The same two lemmas give `MemmoveMoves`. `PatternMemsetsAgree` shows the cases of
`__constant_c_and_count_memset` to be the two tests of bits of
`__constant_c_memset`, for every count and every pattern, equal bytes or not;
`PatternMemsetFills` that either fills its region when the four bytes of the
pattern are equal; `ScansStopAtTheFirst` that `memscan` and `memchr` find the first
match or the end.

**`InterruptsProofs`** (any `Commands`, `MaxLost`, `FloppySectors`, depth and
burst). `Sound` joins `TypeOK`; `GatesFirst` (no line is unmasked before its gate is installed, step
by step along `BootSteps`); `FloppyAccounted` (line 6 is requested or in service
only after main has used it); and `Service`, which says what is in service:
the lines of the handlers that have not sent their EOI (`Serving`), in rising
priority from the bottom of the stack (`NestingByPriority`), and beyond them
only lines 6, 12 and the cascade (`ServiceOwned`, `MouseInStep`). Both halves are
needed for the non-specific EOI: what it retires is the highest line in service,
which is the sender's because those below it and those left behind have lower
priority. `OnlyOpenInterrupted` says that only "systime" after its sti is ever
interrupted. Theorems: `StackAlwaysSound`, `ServiceAlwaysOwned`,
`NothingIsLeftInService`, `EoiAlwaysRetiresOwnLine`.

The second part of the module is about `ConsoleSpec`: what the two handlers that
print do to main, for every screen, call and register. Three assumptions:
`ConsoleAssumption` (at least two rows: with one, an interrupt between the load
and the store of `scrollback`'s `g_ScreenY--` would send it below zero; positions
up to the end of the row below the screen fit the two bytes of the controller),
`WordAssumption` (a vector fits a word) and
`ExceptionsAssumption` (the interrupted code has two words on its stack, which
`Registers` reads as esp and ss). The inductive invariant
`CursorInv` joins `Near` (never more than one column and one row too far),
`CursorByStep` (at which accesses of putc the column or the row may be that far,
and what main has loaded) and `ShownByStep` (how far setcursor has told the
controller, unless an interrupt printed meanwhile). The text an interrupt prints
may be of any length: `PutsCarries` goes from one character to the next, by the
least number of them at which it would fail, and `Carries` is all that main needs
of it, wherever it is. What a spurious interrupt prints is a text
(`SpuriousText`), which takes `printf`'s machine through its format. `FrameRead`
is, for every vector that has a gate, the way from the gates (`GatesLead`) over the stubs of the two kinds to the
fields of `Registers` and to `iret`. Theorems: `CursorInvariant`,
`CursorAlwaysSound`, `FrameAlwaysWhole`.

`CommandAlwaysRight` is about any line, any names and any sizes of the two
buffers, from `NamesAssumption`: each command that is registered has a name, no
two names are equal and the table has room for all of them. `TokenTakes` says what one turn of
`tokenize`'s loop does (it takes the next word, the longest run without a blank,
and leaves the words after it), `TokenizeTakes` follows the loop by the least
turn that would go wrong, and `TokenizeRight` reads the words of the line off
it. `TableWhole` (nothing is left out of the table while it has room) and
`LookupRight` (the first entry of a name is the only one) give the rest.

`ScreenAlwaysTail` needs to know at every access of putc what is on the screen
and where on the way to the next sign it is. The endless paper is a list of
signs with their places (`PaperSound`: each sign begins where the one before
ends), `Sheet(p, n, j)` the field of cells after its first `n` signs and `j`
columns of a tabulator, and `On(k, F, row)` says that the screen is the window
on the field `F` whose row `Y` is the given row, scrolled no further than it
must be, with nothing below it. A window stays one when a sign is written at the
cursor (`OnPut`), the cursor goes down (`OnDown`), and in three steps while the
screen scrolls (`OnScrolled`, `OnBlanked`, `OnUp`; `Half` is the window between
the two loops of `scrollback`). `Moving` is the invariant: for each place of main
in putc, which window there is and how far the cursor has yet to go.
`SignsShown` and `ColumnsShown` count what of the paper is on the screen, from
what is left of the text. The loop of the tabulator moves as many columns as the
paper says, though its bound moves with the cursor (`WidthIs`). `WrittenAdds` has
what the recursion of `Written` returns, `PutsReads` what the echo of a line
does, both by the least sign that would go wrong. `PaperInv` joins these with
`TextSound` (what main has still to print is the end of the paper), `TabSound`
and `CallsSound`. Two more assumptions: `TypedAssumption` (a line typed has no
line breaks and no Backspace, which `keyboard_handler` never enters into one) and
`TextsAssumption` (what main prints is a text). Nothing is assumed of the length
of a text or of the size of the screen beyond `ConsoleAssumption`: its width is a
multiple of four, as the tabulator's is.

**`ClockProofs`** (any word width, tick and second with `ClockAssumption`).
`Sound` joins `TypeOK`, bounds of the high word, and for a sleep:
`LowBehind` (the low word has not run ahead of the time since the sleep began),
`HighCaughtUp` (once the high word has reached the end's, the low word has been
through the zero the end lies behind; once it is past it, the duration is over)
and `Tested` (what each of the three tests found stays true when a tick falls
behind it). No count of the missed carries is needed: a carry only happens at a
zero, so it can come late and never early. The seconds need that two roundings
down lose at most one (`SumOfQuotients`). Theorems: `SleepNeverShort`,
`ReadersAlwaysAccurate`. `SleepEnds` is model-checked: it is about when the low
word is 0 again.

**`KeyboardProofs`** (from `KeyboardAssumption`). `Safe` (types, every line
fits in the buffer, the last byte a terminator, nothing unasked) is inductive
by itself; `QuietLineKept` adds that in an unspoilt round the buffer up to the
index is the line on the screen, and what has been copied is a prefix of the
line submitted. Theorems: `TypeCorrect`, `AlwaysTerminated`,
`OnlyEnterExecutes`, `QuietLineIsDelivered`.

**`SchedulerProofs`** (any number of blocks and processes). `Sound` joins
`TypeOK` with `Numbered` (blocks in use have a pid), `Chain` (a successor is in
use, two blocks never share one, and nothing but the block being freed leads to
the head), `AtHead` (where `current`, the head and the successor stand at each
step of `schedule`) and `AtTail` (the tail ends the list, and dangles only when
the list has become empty). That no successor is shared is what makes a freed
block unreachable without reasoning about paths. `InOrder` adds the numbers: each
block in use carries one more than the block that leads to it, the last the
highest number given out, the head the one after the last that ran. From it
`OrderedWaits` has what the refinement mapping reads off the list: exactly the
numbers after the last that ran (`Following`), whatever the addresses; the
reading is a recursive function, of which `WalkExists` and `WalkReads` say that
it is defined and what it returns, by the least number of steps at which either
would fail. Each step is then a step of `ReadyQueue` or a stutter. Theorems:
`NeverDangles`, `FreesOnlyUnlinked`, `RunsInOrder`, `ListImplementsQueue`.

**`WindowsProofs`** (any number of blocks, windows and programs with
`WindowsAssumption`). `Sound` joins `Desktop`: `Exact` (the list is the used
blocks, each once), `WellMade` (no window of the terminal has the close callback
of the others), `Tracked` (a program that is not orphaned points at its own
window, and the terminal always does); `Pressed` (a button down, or remembered
as down, goes back to a press no click has used); and `Dragging`. `WellMade` is
what ties the "x" of the terminal to the function that clears its pointers; the
list lemmas `Appended` and `TakenOut` serve every action that changes the list.
Theorems:
`ListAlwaysExact`, `TerminalAlwaysTracked`, `DragAlwaysLive`,
`OneClickPerPress`, `LaunchAlwaysShows`.

The second part of the module is about `TerminalSpec`, for every size of buffer,
line, row and canvas (`TerminalAssumption`: a buffer of at least eight bytes,
which one key's output and a prompt fill). `TerminalSound` joins the types with
`TextSound` and `PictureSound`. `TextSound`: the last byte is a terminator; outside
the opening the first terminator is the one at the index (`Tidy`) and the text
ends with the prompt and the line (`Echoes`), unless the flags say why not; in the
opening the index leaves room for what its stores still write. `PictureSound`: from
the end of the wrapping on the cache is the buffer wrapped, or a key came.
`wrap_text` is a recursive function over the text. `WrapTextWraps` shows that it is
defined and wraps every text, by the first position at which it would not:
`RowSound` (the counter is the length of the row modulo the width) and `OutSound`
(what has been written so far) go from one position to the next.
`OffsetKeepsTail` does the same for the breaks `update_visible_offset` counts.
Theorems: `TerminalAlwaysSound`, `LineAlwaysOnScreen`, `ValidAlwaysFresh`,
`AlwaysDrawsTail`.

**`PS2Proofs`** (any of the five kinds of drive, any time limit, any set of slow
replies, latching or not). `DiskSound` ties the place in `init_disk` to what each
kind of drive can have shown on the way (`GetsTo`, `Shows`). `PS2Sound` is the
dialogue: `Owed` lists, step by step, which byte of the mouse may be in the
buffer and which wait behind it, and `InOrder` says that this is so until a
reply was late, but for one place: a scan code taken for the identification
leaves it owed at the step after. `Stale` is what makes an expired wait harmless
there: the byte an empty buffer still shows is not the reply expected, except at
the last acknowledgement, where the one of the defaults still shows, so that the
mouse may be installed with a byte of its own on the way. `InStep` takes over where
the dialogue ends: as long as nobody has taken a foreign byte (`strayed`),
`mouse_cycle` is the place in its packet of the byte in the buffer or next to come
(`Packets`), so that `mouse_handler` drops nothing; hence line 12 stays in service
only behind a stray byte. `NoKey` says what is
missing from the buffer as long as no key was pressed, `Requests` that a line's
request has its byte behind it, and `CutOff` that a mouse disabled by a scan code
in the command byte never answers the reset. Theorems: `SoundAlways`,
`ReportAlwaysTrue`, `InStepAlways`, `DialogueAlwaysSound`.

**`BootProofs`** (every floppy, drive, stray drive number, key and number of
failures that satisfy four assumptions). `GeometryAssumption`: drives have what
CH, CL and DH can express; the boot drive holds the 2880 sectors of the image
that `src/Makefile` builds, and has less than 256 heads, because `boot.asm` adds
one to DH in eight bits. `ImageAssumption`: what `mkfs.fat` and `mcopy` write;
one entry per slot, clusters on the disk, none in two places. `ProgramsAssumption`:
each program is there at most once, STAGE2.BIN fits between its load address and
the stack, and the kernel has as many clusters as its size asks for.
`ScancodesAssumption`: keys are bytes.

The inductive invariant `Inv` joins

* `Control`, `Modes`, `Records`, `TypeOK`: which caller waits at which label, and
  in which mode; the code returns through addresses kept on a stack and through
  jumps, so that nothing else says where a BIOS call comes back to;
* `KbcType`, `A20Protocol`: what the keyboard controller has in its buffers after
  each of the seven steps; a key may be read for the output port, and either
  A20 is on all the same or bit 0 of that byte is clear and the machine resets;
* `FirstStage`, `FirstFaults`: the clusters of STAGE2.BIN read so far are in place
  (`Loading`), the sector or the table asked for is the one at its address, and
  every try counts a failure;
* `Drive`: the geometry is that of the boot drive, or of another one
  (`WrongGeometry`), or none, which a BIOS that failed leaves;
* `SecondStage`, with the geometry of the boot drive: what each point of the C
  has asked for (`Asked2`) and got (`Answered`), the failures of the sector at
  hand (`Faults2`), which slots the search has passed (`Directory`), that the open
  file stands at the start of a cluster whose sector is in its buffer, or at its
  end (`Reading`), and that the pieces copied so far are the kernel's, in order
  (`Pieces`).

The lemmas on which the steps rest: a sector number goes through cylinder, head
and sector, and through the bits of CX and DX, unchanged in both stages; the
three nibbles of an entry of the packed table give the successor of the cluster,
odd or even, also across a sector; the slot an entry is read from; a linear
address is the segment and the offset it is split into. Each disk action is first
shown to do one of a few things (`Int13ReadDoes` and its like), so that the
arithmetic is done once and not once per conjunct. Theorems: `InvAlways`,
`ProtectedModeAlwaysSafe`, `Stage2AlwaysWhole`, `GivenUpAlwaysAfterThree`,
`AlwaysFailsForACause`, `KernelAlwaysWhole`.

Only model-checked: every liveness property (`LinesServed`, `EnterAnswered`,
`EveryProcessRuns`, `InitDiskEnds`, `KeyboardLives`, `BootEnds`), which rest
on fairness and ENABLED; and `FormatsRight` of `Console`, which compares what
three machines make of a format, character by character and digit by digit, with
a reference that is computed in another way.

## 6. What is not modelled

* Pixels, fonts, icons, the cursor's shape and colours; text layout of messages.
* The segment table (flat segments, written once), paging (nothing enables
  it), `notepad.c` (nothing opens it), the URI parser and the lists (nothing
  calls them), the vendored library.
* The kernel's FAT and the sector transfers of `disk.c`: `kernel.c:34` leaves
  `init_filesystem` commented out as non-functional, and nothing else calls
  them. The loader's file system, of the same design, is modelled.
* `printf_float`, `snprintf`, `print_buffer`, `read_line_nonblocking`,
  `move_window`, `resize_window`, `reset_floppy`: nothing that runs calls them.
* The programming of the PIT, the text of the system time, and the
  multiplication in `sleep`, which nothing calls.

`components` in `PROJECT.json` gives the reason for each part.

## 7. How the modules depend on each other

`Allocator` and `ReadyQueue` stand above `Heap` and `Scheduler` as abstract
specifications. `Disk` is extended by `PS2`; `Fat12` by `Stage1` and `Stage2`,
the latter by `Loader`, and `Boot` composes both; `Format`, `Exceptions`,
`Executor` and `Console` extend one another in this order. Components that meet
only through an interrupt are composed where the meeting is: the drivers'
handlers in `Interrupts`, the keyboard and the mouse at the 8042 in `PS2`, IRQ 1
and *main* in `Keyboard`, `Terminal` and `Console`, IRQ 12 and *main* in
`Windows`. The order to read them in is that of section 2.
