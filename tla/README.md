# limeOS in TLA+

limeOS is a small 32-bit kernel: one processor, three text terminals, up to six
processes, a round-robin scheduler driven by the timer, and ten system calls.
This directory holds models of its parts, the TLC configurations that check them
and machine-checked proofs about processes, terminals, screens, interrupts, the clock,
paging, files, descriptors, the loader and three programs. Paths are those of
`src/student-distrib` unless they say otherwise.

## The system

| Part | State | Operations | Modules |
|---|---|---|---|
| Process lifecycle (`system_call.c`) | `pid_flags`, PCBs, `current_pid` | `execute`, `halt_256`, exceptions | `Process` |
| Scheduler (`sched.c`, `pit.c`) | `pit_terminal_num`, `terminals_initialized`, `sched_*` | `task_switch` on every tick | `Process`, `Screen`, `Interrupts` |
| Keyboard and terminal input (`keyboard.c`, `terminal.c`) | modifier flags, one `char_buf`, `buf_index`, `command_buf`, `t_enter_flag` | `keyboard_handler`, `terminal_read` | `Terminal`, `LineDiscipline` |
| Screen (`lib.c`, `terminal.c`) | cursors, `video_mem`, user page table, VGA cursor | `terminal_write`, `printf`, `backspace_pressed`, `clear`, `update_cursor`, `terminal_switch`, `vidmap` | `Teletype`, `Screen`, `Screens`, `Console` |
| File system (`filesystem.c`) | a read-only image | `read_dentry_by_*`, `read_data` | `FileSystem` |
| Descriptors (`system_call.c`) | `fd_entry[8]` and `args` of a PCB | `open`, `read`, `write`, `close`, `getargs` | `FdTable`, `Programs` |
| Loader (`system_call.c`) | the program page | `execute` up to the hand-over | `Loader` |
| Clock (`rtc.c`) | the device's registers, a flag per terminal | `open/read/write/close_RTC`, `RTC_handler` | `Rtc` |
| Interrupts (`i8259.c`, `idt.c`, `kernel.c`) | masks, requests, in-service bits, the interrupt flag | boot, `enable_irq`, `send_eoi`, the handlers' skeletons | `Interrupts` |
| Paging (`paging.c`) | three tables, the TLB | `init_paging`, page switches and flushes | `Paging` |
| Helpers (`lib.c`) | memory, the direction flag | `mem*`, `str*`, `itoa` | `Memory`, `Strings` |
| Programs (`src/syscalls`, `src/fish`) | buffers | `cat`, `ls`, `syserr`, `grep`, `fish` | `Programs`, `Grep`, `Fish` |

What makes it hard: system calls run with interrupts enabled (their gate is a
trap gate), so a tick or a key can fall between any two statements of `halt`,
`terminal_read` or `open_RTC`; `terminal_num` means the terminal *on the screen*
and is read, and borrowed, by code that means the *caller's* terminal; buffers,
the clock and the video memory are shared by terminals that know nothing of each
other; a kernel stack is free for reuse as soon as its pid is.

## Modules and how they correspond to the code

Variables have the names of the C variables. A handler is one action where it
runs with interrupts disabled, and is split where it does not. `windows` and
`hazards` are history variables: they record which unprotected windows a
behaviour has hit. They influence nothing, except that `Screen` leaves open whose
program runs after the window `execute` and whose page a parent draws on after `vidmap`.

`MC*` modules hold what TLC needs (constants, bounded next-state relations,
refinement mappings, reference definitions) and the documented properties the
code does not have. The sequential routines (`Strings`, `Memory`, `FileSystem`,
`Loader`, `Teletype`, `Grep`, `Fish`) are operators; `MCRoutines` calls each of them
once with every small input (`Calls` holds the call and its result) and their `MC`
modules say what the result must be.

### Process

A variable per C variable or PCB field; the four stack-pointer fields are
abstracted to *whose stack* they point into. `sched_esp`/`sched_ebp` and what is
on the stack behind them are one value, `sched_ctx[p]`: a context, or `NoContext`
when the pointer is stale. `run` is the context on the processor, and the values
of `run.pc` are the points at which an interrupt can tell the difference.

Simplifications:

* From `sti()` (l.327) to the `iret` of `execute` is part of the same step. For a
  program's `execute` and for a shell that replaces itself this loses nothing: a
  tick there leaves the new process's context on its parent's stack, or its own,
  and nobody uses that stack before the context is resumed. For a shell that
  `task_switch` starts it does lose a behaviour: the stack is that of the process
  the tick interrupted, which can be resumed first and overwrite the context. The
  model does not have this window of five instructions; it is listed as a hazard
  no property covers, and every result about `Process` assumes that no tick falls
  into it.
* `halt_256` up to l.133 is one step: until then the same process resumes with the
  same `current_pid`, and the descriptors it closes are its own. From l.144 to
  `execute_return` is one step too: page and `esp0` are per process and a tick
  saves and reloads them for the parent. (`Paging` splits it at the flush.)
* Loading a stale stack pointer leads to the state `"lost"`, in which nothing is
  promised and nothing happens. Deadlock checking is therefore off.
* A command is an executable or it is not, and "shell" is one.

| Window | Where | What hits it |
|---|---|---|
| `tty` | `system_call.c` 83, 326; `sched.c` 36 | `execute` while another terminal is on the screen |
| `handover` | `system_call.c` 138-140 | a tick between the two assignments |
| `reuse` | `system_call.c` 133 | the freed pid is given out before its owner has left its stack |
| `basepid` | `system_call.c` 256 | a child is executed before all first shells run |

### Terminal, LineDiscipline

`keyboard_handler` is one action with the key as its parameter; `terminal_read` is
split at every statement (`reader[t].pc`). Keys of the scancode table that behave
alike are one key: letters, keys shifted by Shift alone, the backslash (whose row
of the table is irregular) and keys without a character. `LineDiscipline` is the
abstract specification: a line per terminal, and a waiting read is given the first
line finished on its terminal, whole. Windows: `mixed` (a place of `char_buf` that
belongs to another terminal's unfinished line is overwritten) and `cleared` (Enter
between l.34 and l.35 of `terminal_read`).

### Teletype, Screen, Screens, Console

`Teletype` has the drawing routines as operators on one screen, `Screen` says which
screen that is and where its cells are, through `terminal_num`, `get_tty()`,
`video_mem`, the user page table and the copies of `terminal_switch`. `write` is
one action because it disables interrupts; its borrowing of `terminal_num` is
resolved there. If it faults on the caller's buffer (`write_fault`, after any number
of characters) the handler reports and never comes back: `terminal_num` stays what it
was lent. `task_switch` moves `terminal_num` too, for the shells it starts, at boot
and when it finds a first shell halted. So `terminal_num`, where keys and the kernel's
messages go (exceptions, and `execute` with all pids taken, l.263), is not always the
terminal on the screen; the history variable `displayed` is.

`Screens` is the abstract specification: a screen per terminal, the displayed one, the
one the user types on, and the terminal whose program runs, which alone can change its
own screen (keys and the kernel's messages apart). Its constants are what programs
write (`Texts`) and what a key can draw (`Typed`); the mapping is `Promise` in
`Screen`.

| Window | Where | What hits it |
|---|---|---|
| `borrowed` | `terminal.c` 117-127 | Alt+Fn while `terminal_num` is not the terminal on the screen: VIDEO is saved as the page of the wrong terminal, and two terminals are left with VIDEO |
| `printf` | `lib.c` 59 | a message leaves the cursor below the screen |
| `vidmap` | `system_call.c` 596 | called while `terminal_num` is another terminal |
| `execute` | `system_call.c` 83, 326 | called while `terminal_num` is another terminal: the child is filed there (the window `tty` of `Process`) |

`Screen` takes from `Process` that a terminal's turn resumes a program of that terminal;
the other windows of `Process` are not repeated here. `Console` composes `Screen` with an
instance of `Terminal` (its reader stands still) and has the next-state relation of
both: every key edits a line and draws, programs write, draw, fail, begin and end, and
ticks change the running terminal.

### Rtc

The index and data ports are modelled, since `RTC_handler` selects a register
between two accesses of `open_RTC`. `write_RTC` runs with interrupts disabled. The
rate is computed as `changeFreq_RTC` does. Windows: `divider` (open has read register C
for register A, and writes its bits back), `rate` (the rate went to register C, which
cannot be written) and `close` (`close_RTC` was called, which does nothing). The last
two end with the next frequency the driver accepts.

### Interrupts

`entry` from `i8259_init` to the `hlt` loop, the two controllers (external: masks,
requests, priorities, in-service bits), devices that raise lines at any time, and
each handler as the order of its acknowledgement, `sti`, switch and `iret` on the
stack of the context it interrupted. Two timing assumptions: no tick falls into the
few instructions between the `sti` of `task_switch` and the shell's start (10 ms
lie between ticks), and devices are slower than handlers (`Paced`: a handler with
interrupts off can meet the request of one other device, and no more come until that
one is served).

### FileSystem, FdTable, Programs, Loader

`FileSystem` has the driver as operators on an image, `FdTable` the system calls on
the PCB of one pid in which programs follow one another, `Programs` the programs
`cat`, `ls` and `syserr` as compositions of those calls. `Loader` is `execute` from
the command line to the copied image and the argument in the control block, which
keeps the one of an earlier program of the pid if the command has none. It assumes a first word shorter than
`MAX_NAME_LENGTH` and files of at least `BUF_SIZE` bytes; outside that the code
reads or writes the kernel's stack. A loop of the code is a function over its rounds
(`loop[n]` in `read_data`, `parse`, `load`, `CopyOut`, `CloseAll`), which TLC and the
prover can both take.

### Paging, Memory, Strings, Grep, Fish

`Paging` has the tables with the entries as written and a TLB that may keep any
translation it has used until CR3 is reloaded. It also has every change of
`terminal_num`, since `terminal_switch` picks the entry to give back by it; `borrowed`
is the window of `Screen` with that name. `Memory` follows the inline assembly
of the `mem*` routines where memory, registers of the loops or the direction flag
change, one call as a recursion over its steps. `memmove`, `memset`
and its two wider forms have no caller in the kernel; they are checked as library
routines. The headers of `memset_word` and `memset_dword` call `n` bytes (`lib.c` 311,
332) and locations (their "Function" lines); the code and the model count locations.
`Strings` has the conversions and string routines as operators; the kernel's `strncmp`
subtracts signed characters (`int8_t`) and the programs' own unsigned ones, so that they
order characters from 128 on differently. `Grep` is the program's buffer loop over a
directory with one file; `data[BUFSIZE]`, which no read sets, is anything, a newline
included. `Fish` is `add_frames`; a cell is a row and
a column, so that rows longer than the screen are not wrapped into the next.

## What is checked

| Run | Instance | Shows |
|---|---|---|
| `process_races` | 4 pids, 2 terminals, and every behaviour behind a window with 3 pids; 1,168,915 states | until a window is hit: `NeverLost`, `OwnPageAndStack`, `ForegroundIsLeaf`, `OneChainPerTerminal`; always: `CallerIsCurrent`, `IdentityKept`, and `IInv`, of which `TypeOK` is a part |
| `process_fair` | 3 pids, 2 terminals, 2 exit values, until a window is hit; 23,566 | `ReturnsChildStatus`, `EveryTerminalRuns`, `HaltCompletes` |
| `terminal` | 2 terminals, lines of 2, two users, every behaviour; 196,523 | until a window is hit: `ImplementsLineDiscipline`; always: `NoOverrun`, `MailboxStable`, `WindowOnlyOnFirstRead`, and `EveryReadReturns` if the window of `terminal_read` is not hit |
| `console` | 2 terminals of 2x1 cells, lines of 3, three users, until a window is hit; 116,810 | `ImplementsScreens`; `PagesOwned`; `LineIsOnScreen`: cursors stay on the screen, and what stands before them is the line being edited; `CursorFollows` |
| `rtc` | 2 terminals, frequencies at the boundaries; 5,242 | `RateIsAsAsked`, `ReadWaits`, `ReadReturns` |
| `interrupts` | 3 terminals, the 3 devices and lines 4 and 12; 8,980 | `NothingLeftInService`, `NoUndefinedInterrupt`, `ShellsStart`, `RequestsServed`, `ClockGoesOn` |
| `paging` | the real table layout, 3 pids, 2 terminals; 13,854 | `NothingStale`, `ReachesOwn` |
| `programs` | 4 descriptors, 5 directory entries; 100,967 | `DescriptorsKept` (types, `StandardStreams`, `ReadsInOrder`), `CallsAreContained`; `SyserrPasses`, `ProgramsPrint` (`cat`, `ls`) in whatever state a pid was left |
| `routines` | every small input; 75,588 | against reference definitions: `StringsAreRight` (8-bit numbers, strings of up to 3 over characters below and above 128); `DoneRight`, the `mem*` routines (11 bytes); `ReadsAndFinds`, the file system (up to 3 blocks of 3 bytes); `CommandIsRun`, the loader (commands of up to 5, control blocks with and without an old argument); `TextIsShown` (3x2 screen, texts of up to 8, words typed and erased); `PrintsMatchingLines` (buffer of 4, files of up to 7); `FramesMatch` (files of up to 4) |

The first state invariant of `terminal` (`NoOverrun`), `console` (`PagesOwned`), `rtc`
(`RateIsAsAsked`) and `interrupts` (`NothingLeftInService`) includes the module's
`TypeOK`. Three further runs end in a violation; see the next section.

Bounds. Two terminals are the fewest that interleave, and nothing in the code
relates three of them that does not relate two; `interrupts` has three because the
boot enumerates them. `paging` has a pid more than terminals; the third terminal, whose
entries the tables have too, is in the proofs. For `Process`, three pids allow one
child besides the first shells, four a chain of two or a child on each terminal,
which is where siblings, leaves and two halts in progress differ; behind a window,
where little is promised, `MaxRacing` keeps to three. Exit values matter only as
equal or different. With four pids the liveness properties hold too, but that takes
ten minutes.

The users of `terminal` and `console` have different keyboards, so that not every
combination of modifiers and terminals multiplies: in `terminal` one changes
terminals and one uses Shift, Caps Lock, Ctrl and keys without a character; in
`console` one changes terminals, one clears the screen, and one changes terminals while
programs draw through `vidmap`. A line of two or three
places has an empty, a partial and a full state. The screens of `console` have a first
and a last row and wrap at every character; the middle row and the wrap between
columns are in `routines`. `console` stops at a window, so nothing is shown about
the screens after one. Blocks of two or three bytes put every offset at, before or
behind a boundary. A number of 8 bits has the same edges as one of 32
(`StringsAssumption`: a multiple of 4, for the hexadecimal forms). `MaxFrames` bounds
the handlers nested on one stack at three, one per device.

Deadlock checking is off where the program modelled ends (`routines`) or the state
`"lost"` is reachable (`Process`).

### Fairness

* `Process`. The timer keeps ticking. A slice is long enough for the context it
  resumes to take its next step, so the steps of `halt_256` are strongly fair for
  every process: they are enabled only while it is on the processor.
  `SF(PIT_handler /\ run.pc = "user")` says that not every tick falls into the few
  instructions of `halt_256`. Without it `EveryTerminalRuns` fails: a first shell
  that halts at every tick is restarted by each of them, and `pit_terminal_num`
  never advances. This is an assumption about timing, not a guarantee of the code.
* `Terminal`. Every reader is scheduled (that is `EveryTerminalRuns`), and the user
  presses Enter on a terminal if they keep coming back to it.
* `Console`. Ticks go on, and not every one of them finds a first shell halted (as for
  `Process`).
* `Rtc`. The device interrupts whenever it was acknowledged, and a spinning reader
  is scheduled.
* `Interrupts`. The processor executes, the keyboard accepts its command after
  finitely many tries, the timer ticks outside handlers too, and a request that is
  again and again the most urgent one is delivered.

## Disagreements with the documentation

Three are runs in which TLC finds the documented property violated.

1. `halt_handover`. After l.138 the parent is current, but `execute_pid` names the
   halted child until l.140. A tick in between files the context under the parent;
   when the terminal's turn comes, `task_switch` makes the halted child current and
   loads a stack pointer saved earlier. l.99: `halt` "terminates a process".
2. `execute_refusal`. With all pids taken `execute` returns 0 (l.265). l.181: "-1: If
   command can not be executed".
3. `terminal_mixed`. One `char_buf` serves all terminals (`keyboard.c` 15, 202): keys
   typed on another terminal replace an unfinished line, and `read` returns them.
   `terminal.c` 22: "read the input from the keyboard and store in terminal buffer".

Others were met while modelling. The models have the behaviour, as a window or as what
an action does, and no run is about it:

* An Enter between l.34 and l.35 of `terminal_read` sets the flag over a mailbox that
  is then emptied; the read returns at once and without the line (window `cleared`).
  `WindowOnlyOnFirstRead` shows that only the first read of a terminal is exposed.
* `printf` looks for the bottom of the screen once, before it prints, and can leave the
  cursor below it (window `printf`). `lib.c` 596-599: "... if enter is hit when typing
  in the bottom line, then the entire screen has to shift up for one line".
* An Alt+Fn while the shells are started, or after a fault inside `write`, mixes up the
  pages of two terminals (window `borrowed`). `sched.c` 44: "change the current
  terminal to default (first) one"; it changes `terminal_num` and not the screen.
* An interrupt between two port accesses of `open_RTC` keeps the rate from being set, or
  changes the divider (windows `rate`, `divider`). `rtc.c` 66: "Set the freq to default
  value 2".
* `close_RTC` leaves the rate. `rtc.c` 113: "Set the freq back to default value 2".
  `RateIsAsAsked` says nothing of the states from a close to the next accepted frequency.
* `grep` takes an unfinished line that fills its buffer for a whole one if the byte
  behind the buffer, which nothing sets, is a newline (`ece391grep.c` 33).
* `write_RTC` reports a refused frequency like an accepted one. `rtc.c` 98: "Outputs:
  0, Success; -1, Fail".
* `read_dentry_by_index` accepts `dentry_count`. `filesystem.c` 59: "-1 - index is
  outside availible dentries".
* A program without an argument gets that of an earlier program of its pid that never
  called `getargs` (`ArgumentIsRest` says when). `BugLog.txt` 62-66 reports this as fixed.

## What is proved

The theorems hold for every value of the constants that satisfies the assumption of
the module, which TLC evaluates on every run. They are about the same definitions the
runs check.

| Module | For every | Theorem | States |
|---|---|---|---|
| `ProcessProofs` | `MAX_PID >= TERMINAL_COUNT >= 1`, set of exit values with 256 | `TypeSafe`, `CallSafety`, `IdentitySafe` | `TypeOK`, `CallerIsCurrent`, `IdentityKept`, unconditionally |
| | | `Inductive` | `IInv` |
| | | `SwitchSafe`, `PageAndStackSafe`, `ForegroundSafe`, `TreeSafe`, `StatusSafe` | `NeverLost`, `OwnPageAndStack`, `ForegroundIsLeaf`, `OneChainPerTerminal`, `ReturnsChildStatus`, until a window is hit |
| `TerminalProofs` | number of terminals, buffer size above 1, set of keys | `TerminalSafe` | the inductive invariant `TerminalInv` |
| | | `OverrunSafe`, `MailboxSafe`, `WindowSafe` | `NoOverrun`, `MailboxStable`, `WindowOnlyOnFirstRead` |
| | | `Refinement` | `ImplementsLineDiscipline`: the refinement, until a window is hit |
| `ConsoleProofs` | number of terminals, screen of two rows or more, line size, texts, keys | `PagesSafe` | `PagesOwned` of all behaviours of `Console`; what it says of the pages ends with the window `borrowed` and no other |
| | | `LineSafe` | `LineIsOnScreen`, of the behaviours that hit no window |
| | | `ScreensRefined` | `ImplementsScreens`: the refinement, of the same behaviours |
| `ScreenProofs` | screen of two rows or more, length of text and word | `TextStaysShown` | `TextIsShown`, of the calls that write a text or type and erase a word |
| `FileProofs` | image, offset, length | `ReadDataCopies` | what `read_data` copies |
| | directory of padded names, name | `LookUpFinds` | what `read_dentry_by_name` finds |
| `LoaderProofs` | size and number of blocks, room for a name | `FilesAreFound` | `ReadsAndFinds` |
| | image, file, size of the pieces | `LoadCopies` | what the loader's copy loop leaves in the page |
| | command that fits `execute`'s arrays | `CommandIsParsed` | the name and the argument `execute` takes from it |
| | files, names, command, old page and argument, sizes of arrays, pieces and page | `ExecuteRuns`, `CommandsAreRun` | `execute` from command to page; `CommandIsRun` |
| `DescriptorProofs` | image, table of three descriptors or more, names, arguments, counts | `DescriptorsAreKept`, `CallsStayContained` | `DescriptorsKept`, `CallsAreContained` |
| | also: directory that holds itself, without the names `syserr` opens in vain | `ProgramsAlwaysPrint`, `SyserrAlwaysPasses` | `ProgramsPrint`, `SyserrPasses` |
| `HardwareProofs` | number of terminals, frequencies | `RateSafe`, `ReadWaitsSafe` | `RateIsAsAsked`, `ReadWaits` |
| | number of terminals, other lines, nesting depth | `InterruptsSafe` | the inductive invariant `InterruptsInv` |
| | | `ServiceSafe`, `UndefinedSafe` | `NothingLeftInService`, `NoUndefinedInterrupt` |
| | number of pids, one to three terminals | `TablesKept` | the form of the three tables, `TablesInv` |
| | | `WholeSpaceSafe` | of the whole address space a program reaches its own page and the video pages only |
| | | `ReachSafe`, `StaleSafe` | `ReachesOwn`, `NothingStale` |

"Until a window is hit" is part of the property or of the specification. Each window
is reachable in the code, so these theorems say where consistency can be lost, not
that it never is. `halt_handover` and `terminal_mixed` show a consequence for two
windows.

`ProcessProofs`. The invariant has two layers. `CallInv` holds always: a context,
running or stored, belongs to the pid it is filed under, or to a child of it that is
about to return. That is what makes `current_pid` right after a `task_switch`.
`QuietInv` holds until a window is hit, and is what "consistent" means between two
ticks: `TreeInv` (each terminal's processes form a chain from its first shell, and
`execute_pid` names its end), `BootInv` (first shells start in order, and no child
before the last), `SchedInv` (the processor is where the served terminal has got
to, and every other terminal has a context to resume from). None of the listed
properties is inductive alone: `NeverLost` needs `SchedInv`, which needs the tree
to know that two terminals never share a process. There is one lemma per action
and layer; `LaunchWrites`, `LaunchFits` and `LaunchOthers` carry what the three
callers of `execute` share.

`TerminalProofs`. That the copy of `terminal_read` stays inside its mailbox depends
on what `keyboard_handler` left there: `TerminalInv` says for each value of
`t_enter_flag` what the mailbox holds (with the flag set, a newline), and for each
statement of `terminal_read` how far the copy has got, namely not past that newline.
The refinement maps a mailbox with its flag set to the delivered line. Each key is an
edit, an Enter, a switch or nothing; the abstract read begins
where `terminal_read` has cleared its mailbox (l.35) and ends where it returns, with
what Enter delivered, and its other statements change nothing abstract.

`ScreenProofs`, `ConsoleProofs`. What the drawing routines do to the cursor and
to the text before it, on one screen, comes first; then what each action of `Screen` does
to the pages. Text before the cursor is counted in places along
the rows, so that a wrap is no case of its own and scrolling moves both the cursor and
the text by one row. `Steady` (pages are owned; no window was hit; a drawing program has the page of
its own terminal) is what makes each action a step of `Screens`, a fault inside `write`
a `Fail` and the ticks that start shells a `Switch` among them; `Calm` adds the lines. `LineIsOnScreen`
alone is not inductive: that typing on one terminal leaves the line of another alone
needs the pages to be distinct, and that its `char_buf` is still the same needs the
absence of the window `mixed`.

`TextIsShown` compares a screen that scrolls with an endless sheet of paper that does
not. `IsPaper` gives each character its place on the sheet; after every character
(`WriteShows`, `BackspaceShows`) the screen shows the last `NUM_ROWS` rows of the sheet
up to the cursor's, with blanks where nothing was drawn. What erasing needs is that the
row it steps back to has not scrolled away, hence `WordAssumption`: a word leaves a row
of the screen free, as the 128 characters of a line do on 25 rows of 80.

`FileProofs`, `LoaderProofs`. Each loop is shown to compute a closed form, by induction over its
rounds. `Stretch` is a part of a file taken byte by byte from its blocks. That
`read_data` copies a stretch rests on the invariant that its block, block index and
byte are those of the next offset (`At`); the lemmas about a file say where a
stretch ends and how two of them join. The loader's pieces join to the whole file,
and so do the reads of `cat`. `ParseState` is the state of the parsing loop after `i`
characters: in the word, in the spaces behind it, or in the argument.

`DescriptorProofs`. `DescriptorsKept` is not inductive: that a read goes on where the last one ended needs
the position to lie inside the file. `FdInv` says that, that what was read is the
stretch from 0 to the position, that a free entry is `FreeEntry`, and that a program
which has made no call yet has the table of `setup_PCB` and its own argument. From this
last part `cat`, `ls` and the tests of `syserr` start; `err_open_lots` fills the table
and closes it again, so the tests behind it find what they began with.

Assumptions. `FdTableAssumption`: entries of the directory name inodes that exist.
`ProgramsAssumption`: entries have names (`ls` stops at an empty one), the directory is
in itself as ".", `MaxReads` is a bound no loop reaches, and the two wrong names are
not files. They are facts about the image, which is built with the kernel and never
written. `CommandsAssumption`: files fit their inode and the page, an executable has
the four bytes of its entry point, and names are distinct.

`HardwareProofs`. `RateInv` adds to `RateIsAsAsked` that every open between its read and
its write of register A holds the divider, as long as none has read register C instead;
the rest is where `changeFreq_RTC`'s loop ends for a power of two. `InterruptsInv` says for
each frame on each context's stack whether its line is in service, for which the
handlers' order (acknowledge, then `sti` or switch) is the reason; it uses no
assumption on the pace of devices or on fairness. `TablesInv` has the program page of the
current process, except between `task_switch`'s change of `current_pid` for a shell and
the `execute` that follows (mode `start`), and the video pages by `displayed` until
`borrowed`; what an address translates to is computed from it, and the arithmetic on page
numbers is in lemmas of its own.

Loops rest on induction over a set of naturals (`NatSetInduction`) and on what a function
defined by recursion on `0 .. n` is and keeps (`LoopExists`, `LoopStays`); `FileProofs` and
`ScreenProofs` prove both for themselves.

Only model-checked:

* every liveness property (`EveryTerminalRuns`, `HaltCompletes`, `EveryReadReturns`,
  `CursorFollows`, `ReadReturns`, `ShellsStart`, `RequestsServed`, `ClockGoesOn`), which
  is out of the prover's reach;
* `DoneRight`, `PrintsMatchingLines` and `FramesMatch`: `Memory`, `Grep` and `Fish`
  follow the code with `RECURSIVE` operators, which the prover cannot take;
* `StringsAreRight`: `itoa` and the conversions of `printf` rest on powers of the radix
  with a variable exponent, and their inverse is a sum over the digits, which needs
  induction over a sequence of unknown length.

## Not modelled

* The programs `shell`, `hello`, `counter`, `pingpong`, `sigtest` and `testprint`:
  loops around one or two system calls without state of their own. `Process`,
  `Terminal`, `Console` and `FdTable` let a program make any call at any time, which
  covers them. `ece391emulate.c` runs programs on Linux and is no part of the kernel.
* The animation loop of `fish` and MP1's assembly (`blink.S`), which is not C and
  calls back into the clock driver only.
* The saving of registers in the wrappers, the segment descriptors, the multiboot
  report and the PIT's divisor: data set once, with nothing to interleave.
* `printf`'s parsing of its format, and colours.
* `disable_irq` and `sigreturn`/`set_handler`, which are never called or do nothing.
* The self tests in `tests.c`.
* In `Process`, the five instructions described above; in `Loader`, command words and
  files outside the bounds of `execute`'s arrays.

## Plan

1. `Process`: the `sti`-`iret` tail of `execute` as a step of its own, with a fifth
   window for the shells `task_switch` starts; the invariant and the proofs follow.
2. An abstract specification of process management, a stack of processes per
   terminal served in turn, which `Process` implements until a window is hit.
3. `Strings` as functions over a fixed number of digits, so that `itoa` and its inverse
   can be proved.
