------------------------------ MODULE MCMemory ------------------------------
(* Page directories, the page and the block allocator and processes side   *)
(* by side: a behaviour is one of a single component, and the page         *)
(* directories and the pools of the others stay as they are at the start.  *)
EXTENDS PageDir, Palloc, Integers, Sequences, TLC

CONSTANTS Proc, main, FREED

VARIABLES component,  \* whose behaviour it is
          arena, malloc_used, free_list, malloc_lock, malloc_th, malloc_held, mem,
          free, thread, dir, tab, frame, cur, process_cr3, caller

\* Palloc: pages of RAM and the limit on user pages.
Machines == {<<6, 2>>, <<7, 9>>}

\* Process: executables.
Segment(type, offset, vaddr, filesz, memsz, writable) ==
  [type |-> type, offset |-> offset, vaddr |-> vaddr, filesz |-> filesz, memsz |-> memsz, writable |-> writable]
File(header, length, segments) == [header |-> header, length |-> length, segments |-> segments]
Text == Segment("load", 0, 2, 2, 2, FALSE)
\* One that runs and one that fails late, for the interleavings; every kind of segment for the image.
FewPrograms == {File(TRUE, 3, <<Text>>), File(TRUE, 3, <<Text, Text>>)}
ManyPrograms ==
  {File(FALSE, 0, << >>), File(TRUE, 3, <<Text, Segment("interp", 0, 0, 0, 0, FALSE)>>)} \cup
  {File(TRUE, length, <<Segment("ignored", 0, 0, 0, 0, FALSE), Segment("load", offset, vaddr, filesz, memsz, TRUE)>>) :
     length \in {4, 6}, offset \in 0 .. 5, vaddr \in 0 .. 9, filesz \in 0 .. 4, memsz \in (0 .. 5) \cup {12}}

\* Threads are interchangeable; processes bear the same names.
Symmetry == Permutations(Caller)

-----------------------------------------------------------------------------
MALLOC == INSTANCE Malloc WITH
  Thread <- Caller,
  PageCnt <- 2, PGSIZE <- 16, ArenaSize <- 9, MinBlock <- 2, SIZE_BITS <- 6,
  Sizes <- {0, 2, 4, 8, 63}, Counts <- {1, 9, 10}, MaxHeld <- 4, used <- malloc_used,
  lock <- malloc_lock, th <- malloc_th, held <- malloc_held
malloc_vars == <<arena, malloc_used, free_list, malloc_lock, malloc_th, malloc_held, mem>>

PROCESS == INSTANCE Process WITH
  KernelPool <- 0 .. 5, UserPool <- 7 .. 9, PGSIZE <- 2, PtSize <- 4, PHYS_BASE <- 8,
  Word <- 16, MaxRuns <- 3, Program <- FewPrograms, cr3 <- process_cr3
IMAGE == INSTANCE Process WITH
  KernelPool <- 0 .. 6, UserPool <- 7 .. 10, PGSIZE <- 2, PtSize <- 2, PHYS_BASE <- 8,
  Word <- 16, MaxRuns <- 1, Program <- ManyPrograms, Proc <- {"p"}, cr3 <- process_cr3
process_vars == <<free, thread, dir, tab, frame, cur, process_cr3, caller>>

ASSUME Assumptions == MALLOC!MallocAssumption /\ PROCESS!ProcessAssumption /\ IMAGE!ProcessAssumption

-----------------------------------------------------------------------------
(* A variable of a component that is not running has the value Off. *)
Off == 0

MCInit ==
  /\ component \in {"pagedir", "palloc", "malloc", "process", "image"}
  /\ PageDirInit
  /\ palloc_init /\ (component # "palloc" => ram = 6)
  /\ IF component = "malloc" THEN MALLOC!malloc_init
     ELSE arena = Off /\ malloc_used = Off /\ free_list = Off /\ malloc_lock = Off /\
          malloc_th = Off /\ malloc_held = Off /\ mem = Off
  /\ IF component = "process" THEN PROCESS!Init
     ELSE IF component = "image" THEN IMAGE!Init
     ELSE free = Off /\ thread = Off /\ dir = Off /\ tab = Off /\ frame = Off /\ cur = Off /\
          process_cr3 = Off /\ caller = Off

OnlyPageDirs == UNCHANGED <<component, palloc_vars, malloc_vars, process_vars>>
PageDirs == component = "pagedir" /\ PageDirNext /\ OnlyPageDirs

OnlyPallocs == UNCHANGED <<component, pagedir_vars, malloc_vars, process_vars>>
Pallocs == component = "palloc" /\ PallocNext /\ OnlyPallocs

OnlyMallocs == UNCHANGED <<component, pagedir_vars, palloc_vars, process_vars>>
Mallocs == component = "malloc" /\ MALLOC!Next /\ OnlyMallocs

OnlyProcesses == UNCHANGED <<component, pagedir_vars, palloc_vars, malloc_vars>>
Processes == component = "process" /\ PROCESS!Next /\ OnlyProcesses
Images == component = "image" /\ IMAGE!Next /\ OnlyProcesses

\* The calls have returned, or the component has stopped.
Stopped ==
  /\ CASE component = "process" -> caller.pc = "complete" /\ caller.runs = 3
       [] component = "image" -> caller.pc = "complete"
       [] OTHER -> FALSE
  /\ UNCHANGED <<component, pagedir_vars, palloc_vars, malloc_vars, process_vars>>

MCNext == PageDirs \/ Pallocs \/ Mallocs \/ Processes \/ Images \/ Stopped

MCvars == <<component, pagedir_vars, palloc_vars, malloc_vars, process_vars>>

MCSpec == MCInit /\ [][MCNext]_MCvars

-----------------------------------------------------------------------------
(* A free list of malloc() holds exactly the blocks not in use and         *)
(* free_cnt counts them; no page stays allocated without a block in use,   *)
(* and no block in use lies in a page given back; a block keeps its        *)
(* contents until the owner frees it, through every call of other threads, *)
(* and is as large as the owner asked for, unless the size wraps around    *)
(* where malloc() or calloc() does not notice (AtLeastSize, CallocFits).   *)
HeapExact == component = "malloc" =>
  MALLOC!FreeListExact /\ MALLOC!NoPageLeaks /\ MALLOC!BlocksLargeEnough /\ MALLOC!ContentsKept

(* Each page is free or held by exactly one process, through every failure *)
(* of load() and every exit; the active page directory exists, and a       *)
(* running process runs in its own.                                        *)
ProcessesSafe ==
  /\ component = "process" => PROCESS!PagesAccounted /\ PROCESS!ActiveDirectoryLive
  /\ component = "image" => IMAGE!PagesAccounted

(* A process that runs has every segment of its executable in memory,      *)
(* zero-filled, with its protection.                                       *)
ImageRight == component = "image" => IMAGE!ImageRight
=============================================================================
