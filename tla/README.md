# TLA+ models of MPX

MPX (`src/TeamB/mpx-mpx`) is a small 32-bit x86 operating system: a kernel
started by a boot loader, cooperative processes, and a command handler on a
serial console. This directory holds TLA+ modules that model its process
management, its console and commands, its clock and its memory, configurations
for the model checker TLC, and proofs that the TLA+ proof system (TLAPS) checks. Paths below are relative to `src/TeamB/mpx-mpx`.

## 1. The system

### Components

| Component | State it keeps | Operations | What makes it correct |
|---|---|---|---|
| PCBs and queues (`user/pcb.c`) | `ready_q`, `blocked_q`, `susp_ready_q`, `susp_blocked_q`; in each PCB name, class, priority, two states, stack, `stack_ptr`, `next` | allocate, free, find, insert, remove, set priority | a PCB is on one queue, the one its states name; the ready queues are in priority order, first come first served among equals |
| System calls (`kernel/sys_call.c`, `sys_call_isr.s`) | `current_process`, `insert_flag`, `initial_context` | IDLE, EXIT, dispatch | no process is lost or run twice; each goes on in its own stack; `kmain` gets the CPU back once, at the end |
| Kernel heap (`kernel/core-c.c`, `lib/core.c`) | `heap_addr` | `alloc`; `sys_free_mem` | memory that is handed out fits in the heap |
| Start and power-off (`kernel/kmain.c`, `core-asm.s`) | none | load two processes, IDLE, return | the machine stops only after a shutdown |
| Command handler (`user/interface.c`) | `should_shutdown`, the line buffer | one function per command | a command keeps the queues consistent and cannot remove a system process; the prompt comes back |
| Alarm (`user/interface.c`) | `global_hours`, `global_minutes`, `global_seconds`, `global_message` | `alarm_command`, `alarm_proc` | an alarm waits for the time it was given and shows its own message |
| Test and idle processes (`user/core.c`) | their loop counter | IDLE, EXIT | each ends after its iterations; idle runs when nothing else can |
| Date and time (`user/interface.c`) | the CMOS clock | getdate, setdate, gettime, settime | what was set is on the clock, as far as a clock that runs on allows; a refused command changes nothing |
| Line editor (`kernel/serial.c`) | buffer, length, cursor | one case per byte received | the buffer is not overrun and holds what the screen shows |
| Virtual memory (`kernel/core-c.c`) | page directory, tables, frame bitmap, `phys_alloc_addr` | `vm_init`, `kmalloc` | used memory keeps its addresses; no two pages share a frame; page 0 is unmapped |
| Interrupts, descriptor tables (`kernel/core-c.c`) | IDT, GDT | run once at start | interrupts are masked |
| Library (`lib/`) | `tok_tmp` of `strtok` | strcmp, strtok, atoi, ... | a command gets the words and the number that were typed |

### How they interact

`kmain` loads the command handler (priority 0) and the idle process (priority
9) and executes `int 0x60` with IDLE. From then on processes run one at a time
and give up the CPU only by IDLE or EXIT, since `pic_init` masks every
interrupt line. `sys_call` takes the front of the ready queue and, for IDLE,
files the caller again. The command handler reads a line, busy-waiting with
the CPU in hand, calls one command function, and ends its loop with IDLE, or
with EXIT after a confirmed shutdown. The command functions change PCBs and
queues directly, in their own address space, while the process they act on
waits. `alarm` hands the time to the process it loads through global
variables. The CPU goes back to `kmain` when a process gives it up and the
ready queue is empty; `kmain` then returns and the machine is powered off.

### What is hard

* **Who is where.** A PCB is removed, changed and inserted in separate lines of
  seven command functions and of `sys_call`; the dispatched PCB and the caller
  are both on no queue for a moment; a full heap may stop any of them half way.
* **Order.** The next process is chosen before the caller is filed. Insertion
  by priority must not overtake equals.
* **Stale scheduler state.** With nothing ready, `insert_flag` and
  `current_process` stay as they were, and `initial_context` is used up.
* **Limits.** The heap is never given back. A FIFO queue that has been used and
  emptied is not the same as one that was never used.
* **Pointers nobody wrote.** The first PCB of an empty priority queue keeps the
  `next` it had, and a new PCB's `next` is whatever the heap held.
* **Shared globals.** Alarms read theirs when they first run, not when they are
  set, and show a message that lies in the line buffer.
* **A clock that runs on.** Its registers are read and written one at a time,
  while a second may carry from one into the next.
* **Text in place.** `strtok` writes into the line and remembers where it was;
  lines fill their buffer, answers are longer than the room for them.
* **Memory that grows while it is mapped.** A page table that is made to map
  the memory in use lies itself behind that memory.
* **Timing of bytes.** `serial_poll` waits for a byte before it takes one, but
  not for the two behind ESC. Its echoes have to agree with its buffer after
  every shift.
* **Liveness.** Any user process can be given the command handler's priority;
  power-off waits for every ready process.

`PROJECT.json` lists these hazards at their lines, with the properties that
address each, or the reason why none does yet.

## 2. The modules

| Module | What it is |
|---|---|
| `Pcb` | `pcb.h` and `pcb.c` as operators on the queues and the table of PCBs |
| `Kernel` | extends `Pcb`: heap, `pcb_insert` with its panics, IDLE, EXIT, dispatch |
| `Comhand` | extends `Kernel`: `load`, every command that changes state, what the show commands list, the handler's loop |
| `Mpx` | extends `Comhand`: `kmain`, the programs of the processes, the specification, the properties |
| `ProcessTable` | what MPX promises of its processes, without queues and contexts; `Mpx` implements it |
| `PcbQueues` | what process queues promise: sequences that change at one place at a time |
| `PcbList` | extends `Pcb`: `pcb_insert` and `pcb_remove` on `front` and `next`, with every call that moves a PCB; implements `PcbQueues` |
| `LineEditor` | what a line editor promises: a text, a cursor in it, one character at a time |
| `SerialPoll` | `serial_poll` byte by byte, with the device and the terminal; implements `LineEditor` |
| `CommandText` | from what was typed to a command's arguments: `trim_input`, `comhand`'s split, `strtok`, `atoi`, shutdown's answer |
| `Rtc` | the clock chip (external), BCD, and reading and writing its registers one at a time |
| `RtcCommands` | extends `Rtc`: getdate, setdate, gettime, settime |
| `AlarmClock` | extends `Rtc`: `alarm_command` and `alarm_proc` with the globals and the line buffer they share |
| `VirtualMemory` | `vm_init` and the allocations around it |
| `MCMpx`, `MCSerialPoll`, `MCCommandText`, `MCRtcCommands`, `MCAlarmClock`, `MCVirtualMemory` | values of the constants for TLC |
| `PcbTheorems` | lemmas about the operators of `Pcb` |
| `MpxProofs` | the inductive invariant of `Mpx` and what follows from it at once, the show commands included |
| `SchedulerProofs` | extends `MpxProofs`: stacks, priority order, dispatch, who may overtake whom, system processes and power-off, the refinement of `ProcessTable`, faults |
| `PcbListProofs` | `PcbList` and the refinement of `PcbQueues` |
| `SerialProofs` | `SerialPoll` and the refinement of `LineEditor` |
| `TextProofs` | `CommandText` |
| `ClockProofs` | `RtcCommands` and `AlarmClock` |
| `VirtualMemoryProofs` | `VirtualMemory` |

`Mpx` is the composition: heap, queues, scheduler, commands, test processes and
alarms run together in it. The other state machines look into one part that
`Mpx` takes as a single step or a single value, and share its operators where
they mean the same thing (`PcbList` files and finds by the operators of `Pcb`).

### Processes: `Pcb`, `Kernel`, `Comhand`, `Mpx`

| In the model | In the code |
|---|---|
| `pcb`, a sequence of records; a PCB is named by its number, 0 is NULL | the PCBs in the heap and their addresses |
| `queue[n]`, a sequence, front first | the list from the queue's `front` through `next` |
| `made` | the queue pointers that are not NULL |
| `heap_addr` | the static variable of `alloc`, less `KHEAP_BASE` |
| `current_process`, `insert_flag`, `initial_context` | the same |
| `cpu` | the running context: the stack it is in, a label for the place in the program, and the one local variable that matters there |
| `pcb[p].stack_ptr` | the context saved in the PCB's stack |
| `machine` | on, powered off, or the panic that stopped it |
| `should_shutdown`, `global_time` | the same; the three global bytes of an alarm time as seconds |
| `ended`, `freed` | history variables: PCBs that ended, PCBs `pcb_free` was called on |

A model step runs from one point where the CPU may change hands, or where
memory may run out, to the next; interrupts being masked, nothing can come in
between. `loadR3` is one step per load, and the alarm process reads its time in
a step of its own. `pcb_insert` has three cases, `CreateQueue`,
`WalkEmptyFifo` and `LinkIn`; the first may end in the panic "Heap is full!",
the second always ends in a page fault, since `vm_init` leaves page 0 unmapped.

A command is an action for the case in which its function changes something. A
refusal only prints and is `CommandWithoutEffect`, as are the commands that
only show something. `Missing` stands for an argument that was not typed.

`ImplementsProcessTable` maps a PCB to "running", "ended", "ready" or "waiting".
What it says of waiting comes from the state fields and what it says of running
from the scheduler, so it relates the two: a suspended or blocked process is not
run, whatever queue it is on.

### Links: `PcbList`

`front` and `next` are the pointers of the code. The `next` of a new PCB is any
value, `Wild` standing for what is no PCB. `pcb_insert` follows and writes the
pointers line by line, and does not write `next` where the code does not. The
environment is the whole of what calls it, `kmain`, the commands and system
calls, because whether the unwritten pointer matters depends on who else is
queued. `Chain` reads the lists back, and the mapping to `PcbQueues` is that.

### The console: `SerialPoll`, `CommandText`

`Mpx` takes a line as one step, since no other process runs while it is read.
`SerialPoll` is that step in detail: one action for each case of the loop, each
with its echoes; the reads behind ESC are actions of their own, because bytes
may arrive between them. `buffer`, `bytesRead`, `cursorPosition`, `len` and
`next1` are the variables of `serial_poll`, `at` is where it is. `wire` and `rx`
are what the terminal has sent and what has arrived; `screen` and `column` are
what the terminal shows behind the prompt and where its cursor is. An empty cell
of the screen and an unwritten byte of the buffer are `NUL`. A read from an
empty device gives any byte. Between two calls what was typed ahead stays in
the device. `EditsALine` maps `serial_poll` to `LineEditor`: the text is the
buffer up to `bytesRead`, and nothing else of the loop is visible.

`CommandText` goes on from there: `typed` is what the user has yet to be asked
for, already edited. A call takes a line of it, or as much as the buffer holds.
A pointer into the buffer is a position, NULL is 0; `strtok` is `FirstToken` and
`NextToken`, with the NUL it writes and `tok_tmp`. `asked` is what the function
finally asks for, which is what an action of `Comhand` takes as its arguments.

### The clock: `Rtc`, `RtcCommands`, `AlarmClock`

A function that accesses the clock sets `todo` to the registers in the order in
which the code names them; `ReadRtc` and `WriteRtc` take one each, and a second
may pass before any of them. `got` is what was read, `want` the numbers that are
written; both are bytes, typed characters are byte codes, and the conversions
are those of `interface.c`, modulo 256. In `AlarmClock` the handler and the
alarms alternate, as their priorities 0 and 1 have it, an alarm being a record
of the time it waits for and, as history, what was typed for it and when. `line`
is what the buffer holds at the place `global_message` points to. Both modules
extend `Rtc` and are proved about together, so the definitions of `AlarmClock`
have names of their own (`AlarmInit`, `AlarmNext`, `AlarmSpec`).

### Memory: `VirtualMemory`

Addresses count in page entries, so that a page table is one page long and the
directory two. `mem` is the memory that was written, `frames` the bitmap, `i`
the counter of the loops of `vm_init`, and one iteration a step.
`find_free` and the choice of a table are as in the code; `Translate` is what the
processor makes of the tables, entry by entry, from memory.

## 3. What TLC checks

The constants of the code would give an endless state space, so a run chooses
small ones.

| Run | Properties | What it shows |
|---|---|---|
| `core` | `TypeOK`, `FiledByState`, `NoProcessLost`, `RunsOwnStack`, `StopsOnlyAfterShutdown`, `SystemProcessesStay`, `ReadyInPriorityOrder`, `FaultsAreKnown`, `ShowsWhatIsQueued`, `NoOvertaking`, `DispatchIsByPriority` | all commands, with a missing name, a user process and a system process to name, a priority that is refused, and a heap that runs out. About 1.3 million states. |
| `liveness` | `ImplementsProcessTable`, `ConsoleComesBack`, `ShutdownCompletes` | under fairness; commands can give P1 and the alarm the command handler's priority or the idle process's, suspend and block them; refused alarm times. About 260 000 states. |
| `links` | `UnqueuedHasNoNext`, `ImplementsQueues` | pointers through boot, commands and system calls. About 19 000 states. |
| `line` | `SerialTypeOK`, `InBuffer`, `ScreenShowsBuffer`, `EditsALine` | every order of letters, arrows, backspace, delete, line ends, into buffers for one and for three characters. About 1.7 million states. |
| `words` | `TextTypeOK`, `ArgumentsAreNotEmpty`, `PriorityIsAsTyped`, `MessageIsTheRest`, `StopsOnlyOnYes` | every short text behind three commands, spaces anywhere. About 150 000 states. |
| `clock` | `RtcTypeOK`, `ShownIsNotOver`, `DateSetIsOnTheClock`, `TimeSetIsNotLate`, `RefusedLeavesClock` | the four date and time commands while a second passes. About 4 800 states. |
| `alarm` | `AlarmTypeOK`, `AloneKeepsItsTime`, `AloneIsHardlyEarly`, `DueAlarmIsNotPutOff`, `AlarmsAreShown` | two alarms around a full hour and around midnight. About 146 000 states. |
| `frames` | `UsedIsMappedToItself`, `FramesAreApart`, `TablesAreApart`, `BlocksAreMemory`, `ComesUpIfItFits` | `vm_init` for an image of any length, and allocations until the heap is full. About 12 000 states. |

### Bounds

* `core`, `liveness`: processes never give memory back, so **the heap bounds the
  number of processes ever loaded**, as it does in the code; no other bound is
  needed. With `PcbSize = 4` and `QueueSize = 1`, a heap of 20 holds four PCBs
  with their four queues (the system processes and two more; a fifth load
  panics), a heap of 23 holds five PCBs and leaves room for only three of the
  queues, so that creating a queue runs out of memory as well. Two user
  processes are the fewest that can wait in line, have one name or overtake one
  another; there are three. The program of `R3Procs` has one iteration, the
  number of which only repeats the same step. The clock has two times.
* `links`: four PCBs, two of them the user's, which is as many as an insertion
  in the middle or at the end, a removal at the front or behind it, and a queue
  that is emptied and filled again take on any one queue.
* `line`: `MaxPending = 3` lets the longest key wait in the device as a whole,
  or arrive byte by byte; more would only be typed further ahead. `Lens` is 2,
  with room for one character, and 4, the smallest with a character on both
  sides of an insertion. The letters are `a` and the three an arrow sends.
* `words`: a line of 7 characters, so that texts end before, at and behind the
  end of the buffer; names of two characters, so that some are too long; an int
  of 6 bits (`IntMax` is 31), so that two digits may wrap. `Texts` holds every text up to
  a small length of the characters that are told apart. The user may stop
  typing, which is why deadlock is not checked.
* `clock`: `Moments` are the last seconds before every kind of carry (minute,
  hour, day, month, February, year, century) and one without a carry; at most one
  second, `MaxTicks`, passes during a command, which takes microseconds. The
  proofs assume less: that a command takes less than a day.
* `alarm`: at most two alarms wait, enough for one to read the other's time; the
  moments are two seconds around an hour and two around midnight; lines may be
  typed hours apart. The alarm for 11:59:59 is the one that is told its time
  earliest by a carry. About 300 000 states.
* `frames`: pages of 8 entries, 28 frames, images that end at every word from
  the second page to far beyond what fits, a heap of three pages. Mapping
  the used memory makes up to four tables, each of which adds to what is to be
  mapped. `vm_init` ends, and after a panic nothing runs: deadlock is not checked.

### What the properties say

* `FiledByState`: a queued PCB is on the queue its state fields name, once.
* `NoProcessLost`: each PCB is exactly one of running, queued, ended. After a
  panic nothing is claimed: a full heap stops `pcb_insert` half way.
* `RunsOwnStack`: the CPU is in the stack of `current_process`, and each waiting
  process has a context of its own to go on with.
* `StopsOnlyAfterShutdown`: `kmain` gets the CPU back only after a confirmed
  shutdown, with the handler ended and nothing ready.
* `SystemProcessesStay`: the two system processes are running or ready until a
  shutdown, although three commands accept their names.
* `ReadyInPriorityOrder`, `NoOvertaking`: the ready queues are ordered by
  priority, and a step moves at most one PCB of a queue, behind its equals.
* `DispatchIsByPriority`: who gets the CPU has no one waiting before it but the
  process that has just given it up.
* `FaultsAreKnown`: the kernel faults from a command only, in the two known ways.
* `ShowsWhatIsQueued`: where names are unique, the show commands list what is
  ready and what is blocked, no more and no less.
* `ImplementsProcessTable`: `Mpx` implements `ProcessTable`.
* `ConsoleComesBack`: the prompt comes back for ever, until shutdown or panic.
* `ShutdownCompletes`: a confirmed shutdown ends in power-off (or a panic).
* `UnqueuedHasNoNext`: a PCB on no queue has a NULL `next`, which is why
  `pcb_insert` may leave it as it is. `ImplementsQueues`: the pointers are four
  lists and change as the sequences of `PcbQueues` do.
* `InBuffer`: after every byte there is room for the NUL behind the text, and
  the cursor is in the text.
* `ScreenShowsBuffer`: while a line is read the terminal shows the buffer and its
  cursor is at `cursorPosition`.
* `EditsALine`: each byte types, erases or moves by one character at the cursor,
  or does nothing, and a line ends with a newline or because the room is used up.
* `ArgumentsAreNotEmpty`: a function gets NULL or a text that begins in the line
  and is not empty. `PriorityIsAsTyped`: setpcbprio asks for the second word and
  the number of the third one, modulo what an int holds. `MessageIsTheRest`: time
  and message put together are the line. `StopsOnlyOnYes`: the rest of a long
  answer is not taken for a confirmation.
* `ShownIsNotOver`: a date or time that is shown was not over when the command
  began, and is less than an hour and the seconds that pass, or a year at most,
  ahead. `DateSetIsOnTheClock`: "Date set successfully" is true, or was until
  midnight. `TimeSetIsNotLate`: a carry may put the clock ahead of what was typed,
  an hour for each second that passes at most, but never behind.
  `RefusedLeavesClock`: after what is refused the clock shows what it would have
  shown without it.
* `AloneKeepsItsTime`, `AloneIsHardlyEarly`: an alarm that is set while there is
  no other waits for the time it was given, and fires less than an hour, and the
  seconds that pass while it reads the clock, early.
  `DueAlarmIsNotPutOff`: when it is polled and its time has come, it fires.
  `AlarmsAreShown`: if lines are typed again and again, no alarm waits for a time
  that has come and is not over by midnight.
* `UsedIsMappedToItself`: when paging is switched on, what is in use has the
  address it had before, the tables included, and page 0 is not mapped.
  `FramesAreApart`, `TablesAreApart`, `BlocksAreMemory`: nothing that is written
  in one place shows in another. `ComesUpIfItFits`: the kernel runs out of frames
  only if image, tables, rest and heap do not fit.

### Fairness

In `Mpx`, `Fairness` is weak fairness of `CpuStep`, everything the CPU does
without waiting for a line to be typed, because a CPU does not stop between two
instructions; and strong fairness of `AlarmFire`. The latter says that an alarm
that asks the time again and again is told one day that its time has come. When
it matters, after a shutdown, nothing waits for input, and the alarm is polled
many times a second. It is stated for alarm times the clock can show: the run
`liveness` uses no other. Nobody has to type anything: `ReadCommand` has no
fairness.

`AlarmClock` assumes weak fairness of `AlarmStep` for the same reason, and nothing
of the clock or the user: `AlarmsAreShown` has their part as its premise.

### Where the code and its comments part

Each of these runs checks one statement made by a comment of the repository and
finds a behaviour of the code that breaks it.

| Run | Statement | What happens |
|---|---|---|
| `block_again` | `pcb.h:51`, `pcb.c:214` | block, unblock, block: `pcb_insert` walks from the NULL front of the emptied blocked queue |
| `idle_early` | `processes.h:43` | idle runs after any other process that yields alone, and a process loaded in the meantime waits behind it |
| `arrow_text` | `serial.c:92` | the bytes of an arrow key arrive after they were read; later they are typed characters |
| `alarm_message` | `interface.c:163` | the line typed after an alarm was set overwrites its message |

The models show more that a reader may not expect. It is part of their actions,
and the properties above are stated so as to allow it:

* `suspendpcb` without a name goes on after its usage message and faults
  (`interface.c:520`); of two PCBs with one name, the show commands show the
  first one twice (`interface.c:427`).
* `sys_call` calls `pcb_free` on the PCB it is about to run (`sys_call.c:50`),
  which is harmless only because freeing does nothing (`lib/core.c:59`); for the
  same reason the heap fills up with the PCBs of processes that have ended.
* A refused alarm time has already replaced the time of an alarm that waits for
  its first turn (`interface.c:886`). An alarm may fire up to an hour early when
  a carry falls between its reads (844), is polled only when lines are typed
  (`serial.c:87`), and waits another day if that was not in its last seconds
  (839).
* getdate and gettime may show a moment that never was (68); setdate takes 30
  February (259); settime may be an hour ahead after a carry (346).
* `setpcbprio` takes 0, the highest priority, from a word without a digit, and a
  number that wraps for what is left of it (755).
* What is left of a long answer to shutdown is the next command (222).
* Page tables are not cleared (`core-c.c:411`): with anything but zeros in
  memory at start, pages would keep frames that nothing set.

## 4. What is proved

Every safety property that a passing run checks is a theorem, for all values of
the constants that the assumptions below allow, and so are the refinements of the
three abstract specifications.

| Assumption | What it says | Why the code justifies it |
|---|---|---|
| `HeapAssumption`, `ListAssumption`, `AlarmAssumption`, and `ArgAssumption` of `Comhand` and of `RtcCommands` | types of the constants; a time that is not refused is one the clock can show | |
| `R3Assumption` | some program can be loaded, none is called "Comhand" | `proc1` to `proc5` |
| `SerialAssumption` | types; the bytes of an arrow are printable characters | `serial.c` compares them with printable ones |
| `TextAssumption` | types, so `IntMax` is any number; what is typed has no tab and no NUL in it, the confirmation no Enter, and no command is the empty text | `serial.c` puts characters from space to `~` into a buffer, and Enter; the command table |
| `RtcAssumption` | when a command begins, or an alarm its turn, the clock shows a time and a date, in BCD; it ends within a day | the clock is external and this is what the chip promises; a function takes microseconds |
| `MemoryAssumption` | types; the heap ends below the limit of the addresses | `core-c.c`: `0xD000000 + 0x10000` is below `2^32` |

### The invariant of `Mpx`: `PcbTheorems`, `MpxProofs`

* `TypeCorrect`: `Spec => []TypeOK`
* `QueuesAgreeWithStates`: `Spec => []FiledByState`
* `EachProcessInOnePlace`: `Spec => []NoProcessLost`

All three follow from `Invariance`, `Spec => []Inv`, where `Inv` is inductive.
The properties alone are not inductive. `Dispatch` on an empty ready queue leaves
the caller unfiled and `insert_flag` set, and from an arbitrary such state the
next system call would file a NULL or a second process. So `Inv` adds
`ContextsOK`: a context saved in a PCB is at one of a few labels, never inside
`loadR3` or `kmain`; `initial_context` is absent only during boot and at the
very end, and then the CPU is in `kmain`; and `insert_flag` is set only at the
halt, from which no system call is made. It also adds `UnmadeEmpty`, that a
queue without a struct is empty, which `CreateQueue` relies on. `Exclusive` and
`NoneMissing` are the two halves of `NoProcessLost`; the first holds after a
panic too.

The proof goes by kind of step and not by action: `InsertFiles` and
`RemoveUnfiles` say what `pcb_insert` and `pcb_remove` do to filed queues,
`DispatchKeeps` what the end of a system call does, and `LoadKeepsInv`,
`RefileKeepsInv`, `IdleKeepsInv`, `ExitKeepsInv` and `QuietKeepsInv` cover the
five kinds of action; each action is then an instance. They rest on
`PcbTheorems`, which proves what `Enqueue`, `PcbRemove` and `PcbFind` do to the
range and the uniqueness of a queue.

* `ShowsAreTrue`: `Spec => []ShowsWhatIsQueued`. `FoundByName`: what `pcb_find`
  returns is queued and has the name, so with unique names it is the PCB that
  was looked up.

### The scheduler: `SchedulerProofs`

* `EachOnItsOwnStack`: `Spec => []RunsOwnStack`. `StacksOK` is stronger: a saved
  context is in the stack of the PCB it is saved in, whether the PCB is queued
  or not. A command may file a PCB again at any time, so what is true of the
  queued ones alone does not survive.
* `ReadyStaysInOrder`: `Spec => []ReadyInPriorityOrder`. `InsertionPointSplits`
  says that what is in front of the place `Enqueue` chooses has a priority at
  least as high and what is behind it a lower one; `EnqueueKeepsOrder` and
  `RemoveKeepsOrder` follow. A priority changes only while its PCB is off the
  queues.
* `HighestPriorityRuns`: `Spec => DispatchIsByPriority`. `sys_call` takes the
  front of the ready queue before it files the caller; the front of an ordered
  queue goes before the rest (`GoesFirst`), and the caller is what is added.
* `FirstComeFirstServed`: `Spec => NoOvertaking`. A step is `Fair` if PCBs that
  stay keep their order (`SameOrder`) and one that is filed goes behind those of
  its priority (`Behind`). `RemoveFirstKeepsBefore` and `InsertAtKeepsBefore` are
  that for sequences; a dispatch, a load and a refiling are each one removal and
  one insertion in queues that do not get in each other's way.

### Start, end and the process table: `SchedulerProofs`

* `SystemProcessesAreKept`: `Spec => []SystemProcessesStay`, and
  `PowerOffIsAsked`: `Spec => []StopsOnlyAfterShutdown`, by `RolesAreKept`. The
  invariant `Roles` ties code to processes: `kmain`'s two loads are the PCBs 1
  and 2, nobody else is at a label of the command handler or of the idle process,
  and the handler ends only behind a confirmed shutdown. So the idle process never
  ends, is ready whenever it does not run, and a dispatch finds nothing
  only when the idle process itself calls with nothing else ready.
* `ProcessTableIsImplemented`: `Spec => ImplementsProcessTable`. Each action is one
  of six kinds of step, loading (`LoadStep`), a command (`CommandStep`), a switch
  (`SwitchStep`), the return to `kmain`, a panic and a step the table does not
  show, and each kind maps to a step of `ProcessTable` or to a stutter. The
  mapping takes a process that gives up the CPU for ready, which needs
  `RunningIsReady`: no command blocks or suspends its own process.
* `SystemCallsDoNotFault`: `Spec => []FaultsAreKnown`. Filing faults only in a FIFO
  queue that was emptied (`InsertFaults`), and loading and system calls file
  only PCBs that are ready.

### The line editor: `SerialProofs`

`SerialProofs` proves, from `SerialAssumption`, which gives the constants their
types and makes the bytes of an arrow printable:

* `WritesInBuffer`: `Spec => []InBuffer`
* `EchoIsFaithful`: `Spec => []ScreenShowsBuffer`
* `SerialTypesHold`: `Spec => []SerialTypeOK`

for every buffer size and however many bytes wait in the device. The inductive
invariant is the three properties together: where a shift and its echoes write
depends on the cursor being in the line, and what they leave on the screen
depends on the terminal's cursor having been there too. `EraseKeepsInv` is the
shift, the redrawn rest, the blank and the way back, for any place in the line;
backspace and delete are instances of it.

`PollEditsALine`, `Spec => EditsALine`, is the refinement of `LineEditor`, action
by action: `InsertTypes`, `BackspaceErases` and `DeleteErases` say that what the
shifting loops make of `buffer` is one character put in or taken out of the text
(`TextIsTheBuffer`), for a cursor anywhere in it; an arrow moves the cursor or
does nothing, and the other cases do not touch the text.

### The line's words: `TextProofs`

* `TextTypes`: `Spec => []TextTypeOK`
* `ArgumentsAreThere`: `Spec => []ArgumentsAreNotEmpty`
* `PriorityIsTaken`: `Spec => []PriorityIsAsTyped`
* `MessageIsAsTyped`: `Spec => []MessageIsTheRest`
* `OnlyYesStops`: `Spec => []StopsOnlyOnYes`

for every text the user types, every length of a line and every size of an int.
All but the third follow from `TextIsTaken`, `Spec => []TextInv`. None of them is inductive: `strtok` goes on from a
pointer it kept, so what it finds depends on what is behind that pointer in a
buffer it has written into. `TextInv` therefore describes the buffer by the line:
it is `Cut(t, S)`, the trimmed line `t` with a NUL at the places in `S`, first where
the command ended (`Called`) and then also where the first word of the arguments
did (`FirstWord`). `AlarmTokens` says which of the two tokens of an alarm are found
and kept. `WordIsFound` and `MessageIsFound` are what the first and the second call
of `strtok` do to such a buffer; they rest on lemmas about the first and the last
place in a text at which a character is in a set (`FirstInIsFirst`,
`FirstNotInIsFirst`, `TrimIsPrefix`). `LineIsTogether` puts the pieces together again.
For `shutdown`, `Reads` says that the line is the last that was read when the
answer is awaited, so an Enter in it is where the answer's own line begins.

`PriorityIsTaken` needs three things more.

* What strtok has found when. `PriorityInv`, proved on top of `TextInv`
  (`PriorityIsFound`), says for setpcbprio which words the tokens are and where the
  buffer is cut. A third call of strtok may write behind the number before the loop
  ends, so of the buffer at the end only what can be read at the two tokens is
  stated. `Splits` says that the arguments are behind the line's first space.
* That these are the line's words. `Words` counts; `WordIs` says that the n-th word
  is the one that begins at a place with n such places up to it, and `WordInLine`
  that the next such place is where strtok finds its next token. The line is longer
  than the text in the buffer; `WordInLine` says, too, that no word begins in what
  was trimmed.
* That `atoi` computes the number. `atoi` goes through the digits from the left and
  wraps at every step, `Decimal` adds what each digit is worth at its place.
  `NumberIsDecimal` relates both to the value of the first k digits: the
  sum up to k is that value times a power of ten, and `atoi`'s result differs
  from it by a multiple of the number of ints, which a step keeps
  (`SameIntWraps`). Both are recursive functions on the places of a word, whose
  existence is proved (`Recursion`), and the induction is over the places of one
  word, by the least one at which the claim fails (`UpTo`).

### The links: `PcbListProofs`

* `QueuesAreLists`: `Spec => []ListInv`
* `OffTheQueuesNextIsNull`: `Spec => []UnqueuedHasNoNext`
* `PointersImplementQueues`: `Spec => ImplementsQueues`

for any number of PCBs and any content of the memory they are made in. `IsList`
relates a `front` and the `next` pointers to a sequence, and `ChainIsTheList` says
that following the pointers gives that sequence back. `ListInv` says that the four
lists have no PCB in common (`Lists`), and that a PCB on none of them has a NULL
`next` (`NoNextOffQueues`). The latter is what `pcb_insert` relies on when it
does not write `next` of a PCB it puts on an empty priority queue, and is not
inductive alone: a new PCB's `next` is arbitrary, and would stay so if `kmain` or
a load could put one alone on the ready queue. So `Control` says who is queued when: the
first PCB ever made is alone, and its `next` is written by the step that makes
the ready queue; when the handler loads another, the idle process is on that queue,
and whoever is inserted beside it has its `next` written.
The walks of `pcb_insert` and `pcb_remove` are proved to stop at the place
`Enqueue` and `PcbRemove` name.

### The clock: `ClockProofs`

Both state machines are proved for every moment they may begin at and every
number of seconds, less than a day, that may pass between any two accesses.
`After(r, n)` is the clock `n` seconds after `r`. Lemmas about counting in BCD,
carries and midnight come first (`OneSecond`, `MidnightComes`, `AfterOneMore`), and
the rest is about numbers of seconds.

For the alarms `AlarmInv` holds (`AlarmsKeepInv`). `Reading` says what an alarm has
read: there are moments x <= y <= z, not before it began and not behind the
present, at which the clock had the seconds, minutes and hours that were read.
`TimeKept` says that an alarm that was set alone waits for what was typed, and `Polls`
where that time is until the alarm's first turn. From it follow

* `AlarmTypes`: `AlarmSpec => []AlarmTypeOK`
* `LoneAlarmKeepsItsTime`: `AlarmSpec => []AloneKeepsItsTime`
* `LoneAlarmIsHardlyEarly`: `AlarmSpec => []AloneIsHardlyEarly`
* `DueAlarmsFire`: `AlarmSpec => DueAlarmIsNotPutOff`

For the commands `RtcInv` holds (`CommandsKeepInv`), with one part for each phase.
`DateReading` is the date's `Reading`: each part is that of the day the command
began on or of the next. `WritingDate` says that what was written is there unless
midnight came; `VerifyingDate` that what was read back is on the clock, or that
midnight has come since and the clock shows the morrow of the date written;
`WritingTime` that the parts written so far are at most as far behind as the clock
has gone on since (`Ahead`). `Claim` says what each message promises. From it follow

* `ClockTypes`: `Spec => []RtcTypeOK`
* `NothingShownIsOver`: `Spec => []ShownIsNotOver`
* `DateIsSet`: `Spec => []DateSetIsOnTheClock`
* `TimeIsNotLate`: `Spec => []TimeSetIsNotLate`
* `RefusalsLeaveTheClock`: `Spec => []RefusedLeavesClock`

Two bounds come from these proofs. An alarm for 11:59:59 that reads 59 seconds and
59 minutes at 10:59:59 and the hour a second later fires a whole hour early,
counted from when it began to read, so the bound of `AloneIsHardlyEarly` has the
seconds that pass in it, and the run has that alarm. And setdate does not refuse a
year of two characters that are no digits: counting up the byte it becomes may
overflow at New Year, so `CountUp` stays in a byte, and a year read back is
at most 159.

### The memory: `VirtualMemoryProofs`

* `MemoryIsLaidOut`: `Spec => []VmInv`
* `TablesApart`: `Spec => []TablesAreApart`
* `UsedKeepsItsAddresses`: `Spec => []UsedIsMappedToItself`
* `FramesApart`: `Spec => []FramesAreApart`
* `KmallocGivesMemory`: `Spec => []BlocksAreMemory`
* `AnImageThatFitsComesUp`: `Spec => []ComesUpIfItFits`

for any page size, number of frames, place and size of the heap and end of the
image. `VmInv` has one part for each loop of `vm_init` and says how far it has come:
the tables lie behind the image, aligned and apart (`TablesOK`, `InSize`); the first
`lo` pages have the frames of their own numbers, and the first `hi` pages of the
heap the frames that come next (`Using`). That `new_frame` always finds the lowest
number not yet taken is what makes the mapping the identity. While the used pages are mapped,
a new table moves the end of what is used; since the loop goes on up to that
end, the table is mapped too. `Needed` counts the frames of all that,
and the panic comes only if there are fewer.

### What is only model-checked

Liveness (`ConsoleComesBack`, `ShutdownCompletes`, `AlarmsAreShown`) is beyond the
proof system.

## 5. What is not modelled

* The boot sequence before `vm_init`, descriptor tables, exception handlers, the
  ports of `serial_init`: they run once, in one order, and write tables that
  nothing changes. The models use two results: interrupts are masked, and an
  exception ends in a panic.
* Registers other than those a context stands for; stack sizes. An overflow of
  the 1024-byte stack into the PCB depends on the compiler.
* The wording of messages, and the columns of the show commands. `Mpx` compares
  names as a whole; how they come out of the line is `CommandText`.
* A line that wraps at the edge of the terminal, where moving the cursor left no
  longer undoes an echo; bytes lost because the 16-byte FIFO is full. The initial
  content of a buffer that is not cleared (`shutdown_command`) is taken as cleared;
  nothing reads behind `bytesRead`.
* In `CommandText`, a line that ends with a line feed and not with Enter; the line
  feed is not stored. `SerialPoll` has it.
* An alarm time of fewer than eight characters, whose digits are read from the
  message and the memory behind the line.
* The writeable and user bits of page entries, which nothing depends on in a
  kernel that runs everything at one level; memory that is not zero at start.
* `pcb_setup` and `sys_set_heap_functions`, which nothing calls.

## 6. Plan

What the runs check is proved, as far as the provers reach. What could be
added is a model of the parts that `CommandText` and `AlarmClock` leave to each
other: the digits of an alarm's time, which are read at fixed places of its word.
