# Verification of the Pintos kernel and the wish shell

TLA+ modules that model the programs in `src/`, TLC configurations that check
them on small instances, and TLAPS proofs of the central invariants for every
instance. Every definition is translated from the C source; `PROJECT.json` maps
each one to the lines it stands for, and lists the hazards of the code with the
properties that cover them.

## The system

`src/aos_pintos/src` is the Pintos teaching kernel, a uniprocessor kernel with
preemptive threads; `src/aos_wish_shell` is a Unix shell, `wish.c`, specified by
its `README.md`.

| part | source | modules | run |
|---|---|---|---|
| threads, scheduler | `threads/thread.c` | `Sched`, `Threads` | `threads` |
| semaphores, locks, condition variables | `threads/synch.c` | `Sched`, `Synch`, `Monitor` | `synch`, `synch_live` |
| interrupt queues, input buffer, serial port | `devices/intq.c`, `input.c`, `serial.c` | `IntQ`, `Serial` | `serial`, `serial_live`, `two_readers` |
| interrupt dispatch | `threads/interrupt.c`, `userprog/exception.c` | `Interrupt` | `machine`, `progress` |
| timer | `devices/timer.c` | `Timer` (preemption in `Sched`) | `machine`, `progress` |
| IDE disks | `devices/ide.c` | `Ide` | `machine`, `progress` |
| keyboard, display, speaker | `devices/kbd.c`, `vga.c`, `speaker.c` | `Kbd`, `Vga` | `machine` |
| kernel console | `lib/kernel/console.c` | `Console` | `progress` |
| start and end of the kernel | `threads/init.c`, `devices/shutdown.c`, `lib/random.c` | `Boot` | `machine` |
| wish shell | `wish.c` | `Wish` | `machine`, `progress` |
| page and block allocators | `threads/palloc.c`, `malloc.c` | `Palloc`, `Malloc` | `memory` |
| page directories, processes | `userprog/pagedir.c`, `process.c` | `PageDir`, `Process` | `memory` |
| block layer, partitions | `devices/block.c`, `partition.c` | `Partition` | `storage` |
| file system | `filesys/*.c` | `FileSys`, `Inodes` | `storage`, `two_openers` |
| archive commands | `filesys/fsutil.c`, `lib/ustar.c` | `FsUtil`, `Ustar`, `UstarHeader` | `storage`, `library` |
| lists, hash tables, bitmaps | `lib/kernel/*.c` | `List`, `Lists`, `Hash`, `Dictionary`, `Bitmap` | `library` |
| C library | `lib/string.c`, `stdlib.c`, `arithmetic.c`, `stdio.c` | `String`, `Stdlib`, `Arithmetic`, `Stdio` | `library` |

How the parts interact: device interrupt handlers wake threads through
semaphores and interrupt queues; every other part of the kernel sleeps and wakes
through `thread_block()`, `thread_unblock()` and the semaphores, and protects its
data by locks or by turning interrupts off. So the core is the scheduler with
semaphores (`Sched`), which `Threads`, `Synch`, `IntQ` and `Serial` extend. The
other modules use what the core is shown to promise: a lock has one holder, a
semaphore loses no wake-up. In the same way `Malloc` takes pages as `Palloc`
hands them out, a hash bucket is the sequence `List` implements, and `FsUtil`
reads headers with the operators of `Ustar`.

## How the model represents the code

* One CPU. In the core modules `current` is the thread on it. Code between
  `intr_disable()` and the restoring `intr_set_level()` cannot be interrupted, so
  it is one action, up to a call of `schedule()`, which ends the action with the
  next thread running. Everywhere else an interrupt may occur between two actions.
* `level[t]` is the interrupt level of thread `t`'s own code and `asleep[t]` the
  semaphore whose `sema_down()` loop it is in; together they say whether an
  interrupt can be delivered (`InterruptsOn`). Switching threads switches the
  level, because every primitive restores its caller's.
* In the other concurrent modules (`Palloc`, `Malloc`, `Console`, `Ide`,
  `Process`, `Inodes`, `Timer`) any thread may take the next step, and a call is
  cut into steps where a preemption or a sleep makes a difference: between
  accesses to shared data that no lock or disabled interrupt covers.
* A list is a sequence of its members, except in `List`, where it is the heap of
  `prev` and `next` pointers. That no member is linked twice is a property.
* An assertion of the code is a property where it depends on other threads, and
  a rule for the client where it restricts the caller.
* Sizes (words, pages, buffers, the screen, a name field) are constants, and the
  arithmetic on them wraps at the width the constants give, as the code's does.
* Hardware is external, with what the drivers expect of it: the interrupt
  controllers of `Interrupt`, the disk of `Ide`, the processor that caches page
  table entries in `PageDir`, the UART of `Serial`, the keyboard of `Kbd`.

Operators named with a suffix and commented "Mutant" are variants of the
definition that follows them, with a plausible mistake; each property of each
run is violated by at least one of them, and where a property is a conjunction
there is, as a rule, one for each conjunct.

### Modules of the core

* `Sched`: the state and the operations of the scheduler and of semaphores, with
  the invariants that any user of them keeps.
* `Threads`: `thread_start()` and the idle thread, creation of threads step by
  step (page, `all_list`, `tid_lock`, the load and store of `next_tid`,
  unblocking), exit, yield, clients of semaphores, timer and device interrupts. A
  page is a member of `Thread`; `status` is "FREE" when the page is free.
* `Monitor`: what locks and condition variables promise: one owner, atomic wait,
  FIFO signals, return only with the lock.
* `Synch`: `lock_acquire()`, `lock_try_acquire()`, `lock_release()`,
  `cond_wait()`, `cond_signal()`, `cond_broadcast()`, each as the preemptible
  sequence of calls it is, used by clients in any legal order. `Abstract` is the
  refinement mapping to `Monitor`: the owner of a lock is the thread between the
  `sema_down()` and the `sema_up()` on it; a thread in `cond_wait()` joins the
  abstract queue when it gives up the lock.
* `IntQ`: the circular queues with their waiting threads, used by threads and
  interrupt handlers. `Serial`: the transmit queue and the input buffer, the
  serial driver in its three modes, handlers that print, and a UART with one
  receive and one transmit register.

### Modules of the machine

* `Interrupt`: `intr_handler()` with the two 8259A controllers; a thread is the
  stack of what it was stopped in (external interrupts, traps, its own yield).
* `Timer`: the calibration loop, `real_time_sleep()` and `real_time_delay()`
  against a real time that passes in fractions of a tick.
* `Ide`: detection, identification, reads and writes of one channel, two threads
  sharing its registers; the disk answers in its own time, fails, and may
  interrupt unasked (`Spurious`).
* `Kbd`: scan codes to characters, with the set of keys that are really down
  beside the shift state the driver keeps. `Vga`: the text screen, cursor
  register and bell, beside the endless page that was printed.
* `Console`: the lock with its depth counter, prints within prints, handlers and
  panics that print without it.
* `Boot`: the command line, options, the order of starting, the actions, and how
  a run ends. `Wish`: the shell's loop, its nested `strtok_r()` parsers, built-in
  commands, redirection, and the processes it starts and waits for.

### Modules of memory

* `Palloc`: the geometry `palloc_init()` computes, and allocation bit by bit under
  the pool's lock against frees that take no lock.
* `Malloc`: descriptors, arenas and free lists with their locks; `malloc()`,
  `calloc()`, `realloc()` and `free()` by two threads, page by page.
* `PageDir`: entries the kernel changes while a processor walks them, sets their
  bits and keeps copies. `used` and `written` remember what the processor did.
* `Process`: `process_execute()`, `load()` with each failure path, the stack, the
  exit and the order of its page directory switch.

### Modules of storage

* `FileSys`: the free map, inodes, the root directory, open files and symbolic
  links. `map_file`, `disk_inode`, `entry` and `content` are the disk, `free_map`,
  `open_inodes` and `file` memory, `pc` and `call` the call in progress. The code
  takes no lock, so its callers must run one call at a time, and so does the
  model; a step makes at most one disk write (the zeroing of a new file's sectors
  is one step), and `filesys_init` at any moment is a power failure and reboot.
  `setting` is chosen at the start and never changes: the sizes of new files,
  whether a `malloc()` may fail (`MemoryFails`) and whether links are made
  (`Links`). A failed assertion or a followed null pointer leads to `pc = "panic"`.
* `Inodes`: the table of open inodes used by several threads, cut where
  `inode_open()` can be preempted or sleeps. Nothing locks it, and calls overlap.
* `FsUtil`: extract, append, `rm` and `cat`, one sector at a time, with panics and
  reboots between transfers. `Ustar`: headers, as operators; `UstarHeader`: a
  header that is written, perhaps damaged, and read.
* `Partition`: the recursive walk of partition tables, registration, roles, and
  transfers through partitions, with sector numbers that wrap.

### Modules of the library

* `List` implements `Lists` (sequences); `Hash` implements `Dictionary`, with
  `rehash()` failing at will; `Bitmap` keeps bits in words and in a file.
* `String`, `Stdlib`, `Arithmetic`, `Stdio`: the functions as operators, with
  widths that wrap, compared with a definition of what they should return.

`MCLibrary`, `MCMachine`, `MCMemory`, `MCStorage` and `MCSynch` hold the instances
for TLC. `SchedProofs`, `ThreadsProofs`, `SynchProofs`, `SerialSteps`,
`SerialProofs`, `FileSysSteps`, `FileSysProofs` and `KernelProofs` hold theorems;
`KernelProofs` those of `PageDir`, `Palloc` and `Interrupt`.

## Runs

Four MC modules hold several components side by side. Their components do not
interact in such a run: the variable `component` is chosen in the initial state,
a behaviour is one component's from then on, and each property is about that
component. The components that do interact are composed in modules of their own
(`Threads`, `Serial`, `Process`, `FsUtil`, ...). A component that occurs twice
(`ide` and `noisy_ide`, `process` and `image`) is one module with two sets of
constants. `MCMachine` extends `Interrupt`, `MCMemory` `PageDir` and `Palloc`, and
`MCStorage` `FileSys`, so that these runs check the very definitions the theorems
are about; the other components are instances.

| run | config | properties |
|---|---|---|
| `threads` | `Threads.cfg` | `IInv`: one running thread, ready list and waiter lists exact, tids unique, `all_list` live, no wake-up lost, the semaphore of `thread_start()` in scope; `SomeThreadToRun`; `FreeOnlyDying`; `ReadyRuns`: every ready thread runs; `BootCompletes`: `thread_start()` returns |
| `synch` | `Synch.cfg` | `LocksExact`: `holder` is the one thread that owns the lock, waiters' semaphores are in scope; `ImplementsMonitor` |
| `synch_live` | `SynchLive.cfg` | `SignalledReturns`; `FreeLockTaken`: a free lock with a sleeper is taken |
| `serial` | `Serial.cfg` | `SleepersSafe`: sleepers are registered and the interrupt they need is enabled; `BytesInOrder` in both directions |
| `serial_live` | `SerialLive.cfg` | `PutcReturns`, `GetcReturns` |
| `storage` | `Storage.cfg` | `ImagesConsistent`: what a power failure leaves; `OpenFilesKept` after removal and while writes are denied; `CallsExact`: opens and closes match, no assertion fails, names unique; `ArchiveKept` through panics and reboots; `PartitionsRight` |
| `memory` | `Memory.cfg` | `TranslationsRight`: nothing stale is used, no access or write missed; `PoolsExact`; `HeapExact`; `ProcessesSafe`: no page shared or leaked, the active directory exists; `ImageRight` |
| `machine` | `Machine.cfg` | `DisksRight`; `InterruptsRight`; `TypedAndShown`; `StartRight`: command line, calibration and delays; `LinesRight`: what the shell does for a line |
| `progress` | `Progress.cfg` | `SleepsRight`: sleepers wake, and not early; `NoMixing` of messages; `CallsEnd`: prints and disk requests that have their lock, a panic's message, timer interrupts and the shell's input come to an end, and a free lock is not left alone |
| `library` | `Library.cfg` | `ImplementsLists`; `ImplementsDictionary`; `BitmapsRight`; `FunctionsRight`; `PrintsRight`; `HeadersRight` |
| `two_readers` | `TwoReaders.cfg` | violated: `WaitAssertion` with two threads in `input_getc()` |
| `two_openers` | `Openers.cfg` | violated: `OneInodePerSector` with two threads in `inode_open()` |

Where the table names a property of an MC module, that module states it as the
conjunction of properties of the component's module, each with its own comment
there.

### Bounds

* `Threads.cfg`: the initial thread and three pages (idle, one more and one for a
  creation that is under way), one client semaphore with value at most 2, tids up
  to 4, a time slice of 2 ticks so that both branches of `thread_tick()` are
  taken. Two concurrent creators contending for `tid_lock`, page reuse after exit
  and failure for lack of pages all occur.
* `Synch.cfg`: three clients and the idle thread, two locks that may be nested,
  one condition, preemption at every step. Three clients are the fewest for a
  third thread that takes a lock between a wake-up and the woken thread's turn,
  and for two queued waiters. `SynchLive.cfg` has one lock.
* `Serial.cfg`: queues of 3 slots, so 2 bytes, wrap-around included; two byte
  values to tell orders apart; one reader and one writer, since console output
  holds the console lock. `SerialLive.cfg` has one byte value and no printing
  handlers.
* `Storage.cfg`. `filesys`: two names, two handles, a directory of two entries,
  eight sectors (four of them the system's), up to two openers of an inode, and
  four settings: one-sector files where memory fails, or with links; links and
  failing memory together; and files of 0 and 2 sectors, for which runs of free
  sectors must be found. The disk and the directory fill up, a removed file stays
  open, a link's target is removed, replaced or never existed. `fsutil`: five
  archives (stale data behind the end, no end, a directory entry, one name
  twice), three file systems, four commands, two boots. `partition`: a disk of 6
  sectors with 3-bit sector numbers, every table of two out of nine entries.
  States that differ only in contents nobody can read are merged by `VIEW`.
* `Memory.cfg`. Two page directories besides the initial one, one page, two
  frames; two threads allocating one or two pages from pools of different shapes;
  two threads, two pages of heap, block sizes 2 and 4 and whole pages, and 6-bit
  sizes of which the largest wraps, as do some products; two
  processes with three creations and too little memory for both; for `image`,
  every program header with offsets to 5, addresses to 9, sizes to 4 and 5.
* `Machine.cfg`. Delays at 124 processor speeds around powers of two; two threads,
  two sectors and six kinds of device for `ide`, two spurious interrupts for
  `noisy_ide`; six interrupt lines on both controllers, the spurious ones
  included; ten keys; a screen of 3 rows of 4; command lines of up to two
  options and three words; shell lines of up to five symbols, then a second line.
* `Progress.cfg` is smaller: two sleepers for 9 units of time, two printing
  threads with two messages each, one sector, three lines, shell lines of three
  symbols in every way the shell can be invoked.
* `Library.cfg`. Four elements in two lists; five elements, two with equal keys,
  whose hashes collide; bitmaps of 3 to 5 bits in words of 2; strings in five
  bytes of memory; arrays of six; words of 4 bits; formats with up to two flags, a
  width, negative ones included, a precision and a type; names of three characters.

### Fairness

* Core: `SF(TimerInterrupt)` and `SF(serial_interrupt)`: the controller keeps a
  request pending while interrupts are off; it is delivered if they are on again
  and again. The CPU executes: weak fairness of all thread steps together
  (`Threads`), and where a scheduled thread must get on, strong fairness per
  thread (`Synch`, `Serial`), because a time slice is far longer than a step.
  `WF(UartTransmits)`: the UART finishes sending.
* `Timer`: weak fairness of the interrupt, the calibration and a sleeper's wake-up:
  time passes, and a sleeping thread yields, so it gets its turn.
* `Console`: weak fairness of each thread's steps, and of taking the free lock, by
  whichever thread gets it: a woken waiter competes with threads that print again.
* `Ide`: weak fairness of the device, of the interrupt and of a thread's steps, and
  of taking the free channel, as above: the disk answers, possibly with an error.
* `Interrupt`: weak fairness of finishing a handler, returning and a fault's
  handling; strong fairness of enabling interrupts and of delivering the timer's
  interrupt, which other lines and disabled sections interrupt again and again.
* `Wish`: weak fairness of the shell and of each child: programs end.
* Nothing is assumed of the clients of locks: they may hold them forever.
  Therefore no property says that a given thread gets a lock; a thread that
  acquires and releases in a loop can in fact keep another from it.

## Where the code and its documentation disagree

`two_readers`: `intq_getc()` and `intq_putc()` test the queue, sleep for `q->lock`
and then call `wait()` without testing again. If a byte arrives in between,
`wait()`'s assertion fails and the kernel panics. It takes two threads in
`input_getc()` (or two in `serial_putc()` on a full queue). With one of each the
assertion holds (theorem `WaitersHaveReason`).

`two_openers`: `inode_open()` searches `open_inodes`, may sleep in `malloc()`, and
inserts a new inode without searching again. Two threads that open one file get
two inodes, with an open count and a removed flag each. `inode.c:55` promises
one. Nothing in `filesys/` locks, and after `process_wait()`, which does not wait,
`main()` goes on to actions that open files too.

The other disagreements met while modelling are stated as definitions of the
modules, or as a conjunct of the runs above with other constants. They are not
runs of their own. TLC refuted each of them while the module was written. The
last column says what the runs above leave out, or their properties leave open,
so that what they check holds.

| claim | code | definition | what happens; what is left out or open |
|---|---|---|---|
| `filesys.c:101` | `filesys.c:108` | `FileSys!CallsReturn`, links | `filesys_symlink()` follows a null pointer on a full disk or directory; `CallsExact` speaks of settings without links |
| `directory.c:107` | `filesys.c:77` | `FileSys!OpenCntExact`, links | `filesys_open()` never closes a link it follows; as above |
| `directory.c:150` | `inode.c:225` | `FileSys!NamesUnique`, memory fails | a short read for lack of memory looks like the end of the directory, and a name is added twice; `CallsExact` speaks of settings with memory |
| `inode.c:103` | `inode.c:129` | `Inodes!ReturnsContents` | a second `inode_open()` returns an inode that the first has not read yet; `FileSys` has one call at a time |
| `fsutil.c:141` | `fsutil.c:71` | `FsUtil!Idempotent` | a third extract of a boot reads what follows the archive; only the first of a boot is checked |
| `partition.c:34` | `partition.c:86` | `Partition!ReadsGivenSector` | the table of an extended partition is read from sector 0; `ScanRight` describes what is registered |
| `ide.c:71` | `ide.c:399` | `Ide!ExpectingExact` | `expecting_interrupt` is never cleared |
| `ide.c:353` | `ide.c:493` | `Ide!WriteAcknowledged` | after a spurious interrupt a write returns early; `noisy_ide` only reads |
| `malloc.c:86` | `malloc.c:107` | `Malloc!AtLeastSize` | the largest sizes wrap around; `BlocksLargeEnough` exempts them (`WrapsUnnoticed`), and `realloc()` is not called with them |
| `malloc.c:161` | `malloc.c:163` | `Malloc!CallocFits` | some products that wrap are missed; as above |
| `init.c:344` | `process.c:86` | `Process!RunWaits` | `process_wait()` does not wait |
| `init.c:358` | `debug.c:47` | `Boot!PowersOff` | a panic before `-q` is read does not power off |
| `random.c:31` | `random.c:38` | `Boot!Reinitializes` | a second seed has no effect; `SeedRight` leaves open which `-rs` holds |
| `kbd.c:122` | `kbd.c:112` | `Kbd!CtrlOverridesShift` | Shift chooses the map before Ctrl is looked at |
| `bitmap.c:292` | `bitmap.c:282` | `Bitmap!ScanOfNothingIsZero` | with `CNT` 0, `START` is returned; `CallAgrees` leaves the result open |
| `string.c:20` | `string.c:43` | `String!ReturnsDst` | `memmove()` upwards returns the end of the destination; `MoveRight` leaves the result open |
| `arithmetic.c:124` | `arithmetic.c:126` | `Arithmetic!Remainders` | a remainder loses its high word; `ShortRemainders` has divisors of one word |
| `stdio.c:478` | `stdio.c:392` | `Stdio!FieldFilled`, negative `*` width | with the flag `0` a field is padded on both sides; `FieldFilled` exempts it |
| shell `README.md:178` | `wish.c:469` | `Wish!ExitWithSpace` | `exit` after white space does not end the loop; `ExitAsked` leaves it open |
| shell `README.md:106` | `wish.c:171` | `Wish!CdTakesOne` | `cd` with more arguments uses the first; `LineMeaning` says nothing of such lines (`Departs`) |
| shell `README.md:129` | `wish.c:347` | `Wish!OneRedirection` | a second `>` is taken for a file name; as above |
| shell `README.md:56` | `wish.c:217` | `Wish!ArgumentsKept` | arguments beyond `MAX_ARGS` are dropped |

## Proofs

The theorems hold for every value of the constants that satisfies the named
assumptions. Each rests on an inductive invariant: TLC checked it on the run's
instance, then one lemma per action shows that the action keeps it.

| theorem | module | states |
|---|---|---|
| `Invariant` | `ThreadsProofs` | `IInv` of `Threads` |
| `TypeCorrect`, `SchedulerSafe`, `SemaphoresSafe`, `TidsUnique`, `AllListSafe`, `StartSafe`, `AlwaysSomeThread` | `ThreadsProofs` | its parts, `NoLostWakeup` among them, and `SomeThreadToRun` |
| `FreesOnlyDying` | `ThreadsProofs` | the action property `FreeOnlyDying` |
| `LocksSafe` | `SynchProofs` | `LocksExact` |
| `MonitorImplemented` | `SynchProofs` | `ImplementsMonitor` |
| `SleepersWoken` | `SerialProofs` | `SleepersSafe` |
| `WaitersHaveReason` | `SerialProofs` | `WaitAssertion`, if each queue has one user |
| `BytesArriveInOrder` | `SerialProofs` | `BytesInOrder` |
| `CrashConsistent` | `FileSysProofs` | `ImagesConsistent` |
| `CallsSound` | `FileSysProofs` | `CallsExact` |
| `OpenFilesSafe` | `FileSysProofs` | `OpenFilesKept`, an invariant and an action property |
| `PagesExact` | `KernelProofs` | `PoolsExact` |
| `TranslationsCoherent` | `KernelProofs` | `TranslationsRight` |
| `InterruptsSafe` | `KernelProofs` | `InterruptsRight` |

**Scheduler and semaphores.** `SchedProofs` shows that each operation of `Sched`
keeps `SchedInv` (types, `OneRunning`, `ReadyListExact`, `WaitersBlocked`,
`NoLostWakeup`). `NoLostWakeup` is a counting argument: while threads wait on a
semaphore, its value is at most the number of woken threads that have not yet
looked at it; `sema_up()` adds one to both sides, `sema_down()` of a third thread
lowers only the value, and a woken thread that finds 0 goes back to the list.
`Threads`, `Synch` and `Serial` all use these lemmas.

**Threads.** `IInv` consists of

* `SchedInv`, from `SchedProofs`;
* `CreateInv`: a page without a program is free, dying or owned by one creator;
* `SleepInv`: which program points sleep on which semaphore;
* `TidLockInv`: the value of `tid_lock` counts the threads in the critical
  section, at most one;
* `TidInv`: the loaded `next_tid` is still current at the store, and tids that
  are allocated but not yet assigned are distinct from all others;
* `BootInv`: what may exist before the idle thread has announced itself, without
  which `schedule()` could not be shown to have a thread to switch to.

**Locks and condition variables.** `LocksExact` is not inductive: that `holder`
is right needs that the lock's semaphore admits one thread, and that a waiter's
semaphore is in scope needs to know who may still raise it. The invariant adds

* `Locals` and `HeldLocks`: what a thread's place in the code says of its
  variables, its locks and the semaphore it may sleep on;
* `OneOwner`: the semaphore of a lock is 0 if some thread owns the lock, and
  otherwise 1, and two threads never own it;
* `Queues`: a thread is in one queue of waiters at most, once, not signalled,
  and all but the last of a queue have given up the lock;
* `Signals`: a thread in `cond_wait()` is queued, or popped by one signaller
  that has not yet raised its semaphore, or its semaphore is 1; never two of them.

`MonitorImplemented` shows under this invariant that each step of `Synch` is a
step of `Monitor` or one that `Monitor` does not see. The step that counts is
the `sema_up()` inside `cond_wait()`'s `lock_release()`: there the thread leaves
the lock and joins the abstract queue at once, and `Queues` says that it is last
in `cwaiters` too. So the abstract queue, which leaves out a waiter that has not
released the lock yet, is FIFO.

**Interrupt queues and the serial port.** The invariant says what a thread that
has interrupts off has seen of the queue and may still rely on (`Seen`), that the
queue's lock has one owner (`QueueLocks`), that a registered waiter sleeps in the
matching operation (`Waiters`) and a sleeper is registered while it must wait
(`Sleepers`), that only `main()` runs before `serial_init_queue()` (`Booting`),
and that `write_ier()` has been called since the queues changed or is about to be
(`IerRight`). `SleepersWoken` follows. For the order of bytes, `Items` reads a
circular buffer as a sequence; `AddedItems` and `RemovedItems` show that
`intq_putc()` appends to it and `intq_getc()` takes its first, for every
buffer size above 1, wrap-around included. `WaitersHaveReason` has the hypothesis
`OneUser`: at most one thread reads the keyboard and at most one writes the port.
Without it the assertion fails, as the run `two_readers` shows.

**File system.** A consistent image does not stay consistent by itself: whether
the next disk write destroys it depends on memory and on the call in progress.
The invariant (`IInv` of `FileSysSteps`) relates the three:

* `FilesApart`: a file that is named by the directory or open has its inode on
  disk, its sectors marked in `free_map`, and none in common with another;
* `MapOnDisk`: whatever is marked in memory is marked in the free map's file, so
  a power failure can lose sectors but never gives one away twice;
* `CallApart`: the sectors that a call has allocated and not yet linked, or
  unlinked and not yet released, are marked and belong to no file;
* `EntriesOK`, `OpenOK`: an inode has one entry, an open inode is the one on disk,
  and a removed one has no entry;
* `Counted`: `open_cnt` is at least the number of files, calls and the free map
  that refer to the inode, and without links equal to it (`filesys_open()` never
  closes a link it followed, so with links only the inequality is inductive);
* `DenyWriteExact`, and `NamesUnique` where memory does not fail.

`FileSysSteps` has the lemmas on the table of open inodes and on the creation of
files and links, `FileSysProofs` those on removal, closing, writing and reboots,
and the theorems. The number of openers is a cardinality; it is changed one
handle at a time, with two facts on finite sets.

**Page allocator.** `palloc_free_multiple()` clears its bits without the pool's
lock, while another call scans them. The invariant says what that call may still
rely on: only the holder of the lock scans a pool or sets bits (`LockRight`); what
the scan has passed in the current group, and what is still to be set of the
group it found, is clear (`CallRight`); and a group that was free when the call
got the lock is not behind the scan, since bits are only cleared meanwhile. So a
null pointer is justified. `PallocInitInv` shows that the pools and bitmaps that
`palloc_init()` computes lie in RAM for every size of RAM and limit on user pages.

**Interrupts.** `InterruptsRight` speaks of the innermost frame of the running
thread, and returning uncovers the next one, so it is not inductive.
`PinnedOnTop` speaks of all frames of all threads: the handler of an external
interrupt, and a page fault before it has read CR2, are innermost, in the running
thread, with interrupts off. Nothing else can then run, so the variables shared by
all interrupts (`in_external_intr`, `yield_on_return`, the lines in service, CR2)
are those of that frame (`Shared`). The depth of the stacks is not bounded.

**Page directories.** `TranslationsRight` is not inductive: a cached entry that
is already marked dirty lets the processor write without touching the entry in
memory. `Coherent` adds that a cached entry has its accessed bit set in memory,
and its dirty bit if it is cached dirty, which is why clearing a bit must
invalidate the cache.

### Assumptions

* `Sched`: `Thread` is finite, `NULL` is neither a thread nor a semaphore, the time
  slice is positive.
* `Threads`: `tid_lock` and `idle_started` are different semaphores, and a page is
  free at boot (`PagesAssumption`: `thread_start()` ignores the result of
  `thread_create()`).
* `Synch`: the semaphores are those of the locks and one per thread, for the
  `semaphore_elem` on its stack; a condition is used with one lock, as
  `cond_wait()`'s comment asks; the idle thread is not the initial one.
* `IntQ`, `Serial`: a buffer has at least two slots (one stays empty); there are
  two queues, the transmit queue and the input buffer, and the idle thread uses
  neither.
* `Interrupt`: external vectors are 0x20 to 0x2f, internal ones are not, as
  `intr_register_ext()` and `intr_register_int()` assert.
* `PageDir`: the null pointer is no entry, and the initial page directory is a
  directory.
* `Palloc`: page, bitmap element and word sizes are positive; nobody is not a
  thread.
* `FileSys`: the disk has the four sectors of the free map and the root directory,
  the directory has an entry, the callers have finitely many handles.

### Only model-checked

* Liveness: the prover has no `ENABLED` and no fairness.
* The refinements of `Lists` and `Dictionary`, and `Bitmap`, `Stdio`, `Stdlib`,
  `String`, `Arithmetic`, `Ustar`: these compute with recursive operators or
  bitwise arithmetic, and what they return for every input needs induction over
  data, which the provers cannot do here.
* `FsUtil`, `Partition`, `Inodes`, `Malloc`, `Process`, `Timer`, `Ide`, `Kbd`, `Vga`,
  `Console`, `Boot` and `Wish`: their invariants were not made inductive. `FsUtil`
  and `Wish` use recursive operators as well.

## Not modelled, and why

* Priorities and the multi-level feedback queue are stubs in the source; system
  calls end in `thread_exit()` whatever their number; `vm/` is empty.
* The boot loader, `paging_init()`, descriptor tables and the task-state segment
  are machine code or constant set-up, done once before anything else runs.
* The real-time clock is an input of `Boot`: its one read of the clock seeds the
  random numbers, which no property depends on. Colours of the display, the tone
  of the speaker, the reset pulse of a disk and statistics have no state that a
  property is about.
* In the file system: positions of open files, `dir_readdir()`, byte ranges beyond
  the first sector, and a power failure while formatting.
* The wording of messages, backtraces and dumps, the permutation of the random
  number generator.
* Test programs, examples and build scripts are clients.
