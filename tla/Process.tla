------------------------------- MODULE Process -------------------------------
(***************************************************************************)
(* userprog/process.c with the page directories of userprog/pagedir.c:     *)
(* processes are created, loaded from an executable page by page, run in   *)
(* user mode and exit, while the processor may switch to another thread    *)
(* between any two steps.  Memory is a small set of pages; a page          *)
(* directory maps the groups of PtSize user pages to page tables.          *)
(***************************************************************************)
EXTENDS Integers, FiniteSets, Sequences, Functions, FiniteSetsExt, TLC

CONSTANTS Proc, main, NULL,
          KernelPool, UserPool,  \* the page numbers that palloc can hand out
          PGSIZE, PtSize,  \* bytes of a page, entries of a page table
          PHYS_BASE, Word,  \* end of user addresses; addresses are modulo Word
          Program,       \* executables: [header, length, segments]
          init_page_dir,
          MaxRuns        \* bound on the actions of the command line

\* What the constants satisfy.
ProcessAssumption ==
  /\ main \notin Proc /\ init_page_dir \notin KernelPool \cup UserPool
  /\ KernelPool \subseteq Nat /\ UserPool \subseteq Nat /\ KernelPool \cap UserPool = {}
  /\ PGSIZE \in Nat \ {0} /\ PtSize \in Nat \ {0} /\ PHYS_BASE % PGSIZE = 0 /\ PHYS_BASE < Word

VARIABLES free,          \* pages not in use
          thread,        \* [Proc -> [pc, page, fn, pagedir, file, seg, at, kpage]]
          dir,           \* [page directory -> [table number -> page table or NULL]]
          tab,           \* [page table -> [entry -> [kpage, writable] or NULL]]
          frame,         \* [page -> the bytes loaded into it]
          cur, cr3,
          caller         \* main's progress in run_task(): [pc, child, runs]

vars == <<free, thread, dir, tab, frame, cur, cr3, caller>>

Page == KernelPool \cup UserPool
Dead == [pc |-> "none", page |-> NULL, fn |-> NULL, pagedir |-> NULL, file |-> NULL,
         seg |-> 1, at |-> 0, kpage |-> NULL]
Last == PHYS_BASE \div PGSIZE - 1       \* the stack's page
NoTable == [i \in 0 .. Last \div PtSize |-> NULL]
NoPage == [i \in 0 .. PtSize - 1 |-> NULL]
None == [p \in {} |-> NULL]

Init ==
  /\ free = Page /\ thread = [p \in Proc |-> Dead]
  /\ dir = None /\ tab = None /\ frame = None
  /\ cur = main /\ cr3 = init_page_dir
  /\ caller = [pc |-> "start", child |-> NULL, runs |-> 1]

Out(pool) == free \cap pool = {}
palloc_get_page(pool) == Min(free \cap pool)     \* first fit

-----------------------------------------------------------------------------
(* Context switches *)

pd_of(t) == IF t = main THEN init_page_dir
            ELSE IF thread[t].pagedir = NULL THEN init_page_dir ELSE thread[t].pagedir

Runnable(t) == IF t = main THEN TRUE ELSE thread[t].pc \notin {"none", "dying"}

\* Any thread may come next at any time; process_activate() loads its page
\* directory, and the page of a thread that died is given back.
Switch(t) ==
  /\ t # cur /\ Runnable(t)
  /\ cur' = t /\ cr3' = pd_of(t)
  /\ LET died == {p \in Proc : thread[p].pc = "dying"}
     IN  /\ free' = free \cup {thread[p].page : p \in died}
         /\ thread' = [p \in Proc |-> IF p \in died THEN Dead ELSE thread[p]]
  /\ UNCHANGED <<dir, tab, frame, caller>>

-----------------------------------------------------------------------------
(* run_task(): process_execute(), then process_wait(), which returns at once *)

process_execute(p) ==
  /\ cur = main /\ caller.pc = "start" /\ thread[p].pc = "none"
  /\ Cardinality(free \cap KernelPool) >= 2
  /\ \E file \in Program :
       LET fn   == palloc_get_page(KernelPool)
           page == Min((free \cap KernelPool) \ {fn})
       IN
       /\ free' = free \ {fn, page}
       /\ thread' = [thread EXCEPT ![p] = [Dead EXCEPT !.pc = "create", !.page = page, !.fn = fn, !.file = file]]
  /\ caller' = [caller EXCEPT !.pc = "wait", !.child = p]
  /\ UNCHANGED <<dir, tab, frame, cur, cr3>>

\* Without two pages the copy of the name, if made, is freed again.
ExecuteFails ==
  /\ cur = main /\ caller.pc = "start" /\ Cardinality(free \cap KernelPool) < 2
  /\ caller' = [caller EXCEPT !.pc = "wait"]
  /\ UNCHANGED <<free, thread, dir, tab, frame, cur, cr3>>

process_wait ==
  /\ cur = main /\ caller.pc = "wait"
  /\ caller' = [caller EXCEPT !.pc = "complete"]
  /\ UNCHANGED <<free, thread, dir, tab, frame, cur, cr3>>

\* The next action of the kernel command line.
NextTask ==
  /\ cur = main /\ caller.pc = "complete" /\ caller.runs < MaxRuns
  /\ caller' = [pc |-> "start", child |-> NULL, runs |-> caller.runs + 1]
  /\ UNCHANGED <<free, thread, dir, tab, frame, cur, cr3>>

-----------------------------------------------------------------------------
(* load() *)

At(p, pc) == cur = p /\ thread[p].pc = pc
Goto(p, pc) == thread' = [thread EXCEPT ![p].pc = pc]

pagedir_create(p) ==
  /\ At(p, "create")
  /\ IF Out(KernelPool) THEN Goto(p, "close_failed") /\ UNCHANGED <<free, dir>>
     ELSE LET pd == palloc_get_page(KernelPool) IN
            /\ free' = free \ {pd}
            /\ dir' = dir @@ (pd :> NoTable)
            /\ thread' = [thread EXCEPT ![p].pc = "activate", ![p].pagedir = pd]
  /\ UNCHANGED <<tab, frame, cur, cr3, caller>>

process_activate(p) ==
  /\ At(p, "activate")
  /\ cr3' = pd_of(p)
  /\ Goto(p, IF thread[p].file.header THEN "header" ELSE "close_failed")
  /\ UNCHANGED <<free, dir, tab, frame, cur, caller>>

Offset(a) == a % PGSIZE
PageOf(a) == a \div PGSIZE
ROUND_UP(n) == ((n + PGSIZE - 1) \div PGSIZE) * PGSIZE
is_user_vaddr(a) == a < PHYS_BASE

validate_segment(s, length) ==
  /\ Offset(s.offset) = Offset(s.vaddr)
  /\ s.offset <= length
  /\ s.memsz >= s.filesz /\ s.memsz # 0
  /\ is_user_vaddr(s.vaddr)
  /\ is_user_vaddr((s.vaddr + s.memsz) % Word)
  /\ (s.vaddr + s.memsz) % Word >= s.vaddr
  /\ s.vaddr >= PGSIZE

\* The pages of a segment, counted from its first one.
PageCount(s) == ROUND_UP(Offset(s.vaddr) + s.memsz) \div PGSIZE

\* The program header at hand: ignored, refused, or loaded.
ProgramHeader(p) ==
  /\ At(p, "header")
  /\ LET f == thread[p].file
     IN  IF thread[p].seg > Len(f.segments) THEN Goto(p, "stack")
         ELSE LET s == f.segments[thread[p].seg]
              IN  CASE s.type = "ignored" -> thread' = [thread EXCEPT ![p].seg = @ + 1]
                    [] s.type = "load" /\ validate_segment(s, f.length) ->
                         thread' = [thread EXCEPT ![p].pc = "page", ![p].at = 0]
                    [] OTHER -> Goto(p, "close_failed")
  /\ UNCHANGED <<free, dir, tab, frame, cur, cr3, caller>>

(* Mutant of read_bytes: the offset of the segment in its page is ignored. *)
read_bytes_unaligned(s) == s.filesz

read_bytes(s) == IF s.filesz > 0 THEN Offset(s.vaddr) + s.filesz ELSE 0

\* The bytes of page number N of segment S, as file offsets; 0 stands for a
\* zero byte, a file's bytes are numbered from 1.
LoadedPage(s, n) ==
  [i \in 0 .. PGSIZE - 1 |-> IF n * PGSIZE + i < read_bytes(s)
                             THEN PageOf(s.offset) * PGSIZE + n * PGSIZE + i + 1 ELSE 0]
ReadShort(s, n, length) == \E i \in 0 .. PGSIZE - 1 : LoadedPage(s, n)[i] > length

\* One turn of load_segment()'s loop: get a page, fill it from the file.  After a short read the page
\* holds what there was of the file, until ReadFails.
load_segment(p) ==
  /\ At(p, "page")
  /\ LET f == thread[p].file
         s == f.segments[thread[p].seg]
         n == thread[p].at
     IN  IF n = PageCount(s)
         THEN thread' = [thread EXCEPT ![p].pc = "header", ![p].seg = @ + 1] /\ UNCHANGED <<free, frame>>
         ELSE IF Out(UserPool) THEN Goto(p, "close_failed") /\ UNCHANGED <<free, frame>>
         ELSE LET k == palloc_get_page(UserPool)
                  short == ReadShort(s, n, f.length)
                  Read(b) == IF short /\ b > f.length THEN 0 ELSE b
              IN  /\ free' = free \ {k}
                  /\ frame' = frame @@ (k :> [i \in 0 .. PGSIZE - 1 |-> Read(LoadedPage(s, n)[i])])
                  /\ thread' = [thread EXCEPT ![p].pc = IF short THEN "short" ELSE "install", ![p].kpage = k]
  /\ UNCHANGED <<dir, tab, cur, cr3, caller>>

\* setup_stack() gets a zeroed page.
setup_stack(p) ==
  /\ At(p, "stack")
  /\ IF Out(UserPool) THEN Goto(p, "close_failed") /\ UNCHANGED <<free, frame>>
     ELSE LET k == palloc_get_page(UserPool) IN
            /\ free' = free \ {k}
            /\ frame' = frame @@ (k :> [i \in 0 .. PGSIZE - 1 |-> 0])
            /\ thread' = [thread EXCEPT ![p].pc = "install_stack", ![p].kpage = k]
  /\ UNCHANGED <<dir, tab, cur, cr3, caller>>

lookup_page(pd, upage) ==
  LET pt == dir[pd][upage \div PtSize]
  IN  IF pt = NULL THEN NULL ELSE tab[pt][upage % PtSize]

(* Mutant of Unused: the page is not given back. *)
Unused_kept(p) ==
  /\ thread' = [thread EXCEPT ![p].pc = "close_failed", ![p].kpage = NULL]
  /\ UNCHANGED <<free, dir, tab, frame>>

\* The page that could not be filled or installed is freed.
Unused(p) ==
  /\ free' = free \cup {thread[p].kpage}
  /\ frame' = Restrict(frame, DOMAIN frame \ {thread[p].kpage})
  /\ thread' = [thread EXCEPT ![p].pc = "close_failed", ![p].kpage = NULL]
  /\ UNCHANGED <<dir, tab>>

\* install_page() with pagedir_set_page(): refuses a mapped page, and makes
\* a page table where there is none.
Install(p, upage, writable, then) ==
  LET pd == thread[p].pagedir
      i  == upage \div PtSize
      entry == [kpage |-> thread[p].kpage, writable |-> writable]
  IN  IF lookup_page(pd, upage) # NULL \/ (dir[pd][i] = NULL /\ Out(KernelPool))
      THEN Unused(p)
      ELSE /\ IF dir[pd][i] = NULL
              THEN LET pt == palloc_get_page(KernelPool) IN
                     /\ free' = free \ {pt}
                     /\ dir' = [dir EXCEPT ![pd][i] = pt]
                     /\ tab' = tab @@ (pt :> [NoPage EXCEPT ![upage % PtSize] = entry])
              ELSE /\ tab' = [tab EXCEPT ![dir[pd][i]][upage % PtSize] = entry]
                   /\ UNCHANGED <<free, dir>>
           /\ thread' = [thread EXCEPT ![p].pc = then, ![p].kpage = NULL,
                                       ![p].at = IF then = "page" THEN @ + 1 ELSE @]
           /\ UNCHANGED frame

\* load_segment() frees a page that could not be filled.
ReadFails(p) ==
  /\ At(p, "short") /\ Unused(p)
  /\ UNCHANGED <<cur, cr3, caller>>

install_page(p) ==
  /\ At(p, "install")
  /\ LET s == thread[p].file.segments[thread[p].seg]
     IN  Install(p, PageOf(s.vaddr) + thread[p].at, s.writable, "page")
  /\ UNCHANGED <<cur, cr3, caller>>

InstallStack(p) ==
  /\ At(p, "install_stack") /\ Install(p, Last, TRUE, "close")
  /\ UNCHANGED <<cur, cr3, caller>>

\* file_close(), then start_process() frees the copy of the name.
Started(p) ==
  /\ cur = p /\ thread[p].pc \in {"close", "close_failed"}
  /\ free' = free \cup {thread[p].fn}
  /\ thread' = [thread EXCEPT ![p].pc = IF @ = "close" THEN "user" ELSE "exit", ![p].fn = NULL]
  /\ UNCHANGED <<dir, tab, frame, cur, cr3, caller>>

-----------------------------------------------------------------------------
(* User mode and process_exit() *)

\* A system call, or an exception that kill() handles, ends the process; an
\* access to memory that is mapped changes nothing here.
kill(p) ==
  /\ At(p, "user") /\ Goto(p, "exit")
  /\ UNCHANGED <<free, dir, tab, frame, cur, cr3, caller>>

(* Mutant of process_exit: the directory is cleared after the switch. *)
process_exit_late(p) ==
  /\ cur = p
  /\ \/ /\ thread[p].pc = "exit"
        /\ cr3' = init_page_dir
        /\ Goto(p, IF thread[p].pagedir = NULL THEN "dying" ELSE "destroy")
     \/ /\ thread[p].pc = "switch"
        /\ Goto(p, "destroy") /\ UNCHANGED cr3
  /\ UNCHANGED <<free, dir, tab, frame, cur, caller>>

\* Clears cur->pagedir, then activates the base page directory.  `kpage'
\* holds the local variable pd.
process_exit(p) ==
  /\ cur = p
  /\ \/ /\ thread[p].pc = "exit"
        /\ thread' = [thread EXCEPT ![p].pc = IF thread[p].pagedir = NULL THEN "dying" ELSE "switch",
                                    ![p].kpage = thread[p].pagedir, ![p].pagedir = NULL]
        /\ UNCHANGED cr3
     \/ /\ thread[p].pc = "switch"
        /\ Goto(p, "destroy") /\ cr3' = init_page_dir
  /\ UNCHANGED <<free, dir, tab, frame, cur, caller>>

Used(i) == {x \in Range(i) : x # NULL}
pd_owned(p) == IF thread[p].pagedir # NULL THEN thread[p].pagedir ELSE thread[p].kpage

\* Frees the mapped pages, the page tables and the directory.
pagedir_destroy(p) ==
  /\ At(p, "destroy")
  /\ LET pd  == pd_owned(p)
         pts == Used(dir[pd])
         kps == {e.kpage : e \in UNION {Used(tab[pt]) : pt \in pts}}
     IN  /\ free' = free \cup {pd} \cup pts \cup kps
         /\ dir' = Restrict(dir, DOMAIN dir \ {pd})
         /\ tab' = Restrict(tab, DOMAIN tab \ pts)
         /\ frame' = Restrict(frame, DOMAIN frame \ kps)
  /\ thread' = [thread EXCEPT ![p].pc = "dying", ![p].kpage = NULL, ![p].pagedir = NULL]
  /\ UNCHANGED <<cur, cr3, caller>>

Step(p) == \/ pagedir_create(p) \/ process_activate(p) \/ ProgramHeader(p) \/ load_segment(p) \/ ReadFails(p)
           \/ setup_stack(p) \/ install_page(p) \/ InstallStack(p) \/ Started(p)
           \/ kill(p) \/ process_exit(p) \/ pagedir_destroy(p)

Next ==
  \/ \E t \in Proc \cup {main} : Switch(t)
  \/ \E p \in Proc : process_execute(p) \/ Step(p)
  \/ ExecuteFails \/ process_wait \/ NextTask

Spec == Init /\ [][Next]_vars

-----------------------------------------------------------------------------
(* Properties *)

Live == {p \in Proc : thread[p].pc # "none"}
Tables(p) == IF pd_owned(p) \in DOMAIN dir THEN Used(dir[pd_owned(p)]) ELSE {}
Frames(p) == {e.kpage : e \in UNION {Used(tab[pt]) : pt \in Tables(p)}}

\* The pages that process P has to give back.
Owned(p) == ({thread[p].page, thread[p].fn, thread[p].pagedir, thread[p].kpage}
               \cup Tables(p) \cup Frames(p)) \ {NULL}

(* Through every failure of load() and every exit, each page is either     *)
(* free or held by exactly one process: none leaks, none is shared, none   *)
(* is freed while in use.                                                  *)
PagesAccounted ==
  /\ Page = free \cup UNION {Owned(p) : p \in Live}
  /\ \A p, q \in Live : p # q => Owned(p) \cap Owned(q) = {}
  /\ \A p \in Live : Owned(p) \cap free = {}

(* The comment in process_exit(): the active page directory is never one   *)
(* that has been freed, and a process in user mode runs on its own.        *)
ActiveDirectoryLive ==
  /\ cr3 = init_page_dir \/ cr3 \in DOMAIN dir
  /\ cur # main /\ thread[cur].pc = "user" => cr3 = thread[cur].pagedir

\* The byte at user address A of a segment, per the program header.
ByteOf(s, a) == IF a < s.vaddr + s.filesz THEN s.offset + (a - s.vaddr) + 1 ELSE 0

(* When a program starts, every byte of its segments is mapped and holds   *)
(* what the executable says, zero past p_filesz, writable as asked; the    *)
(* stack's page is there, and page 0 is not.                               *)
ImageRight ==
  \A p \in Proc : thread[p].pc = "user" =>
    LET pd == thread[p].pagedir
        loads == {s \in Range(thread[p].file.segments) : s.type = "load"}
    IN  /\ \A s \in loads : \A a \in s.vaddr .. s.vaddr + s.memsz - 1 :
             /\ a < PHYS_BASE /\ lookup_page(pd, PageOf(a)) # NULL
             /\ frame[lookup_page(pd, PageOf(a)).kpage][Offset(a)] = ByteOf(s, a)
             /\ lookup_page(pd, PageOf(a)).writable = s.writable
        /\ lookup_page(pd, Last) # NULL /\ lookup_page(pd, 0) = NULL

(* init.c, of the action run: "Run PROG and wait for it to complete."      *)
RunWaits == caller.pc = "complete" /\ caller.child # NULL => thread[caller.child].pc = "none"
==============================================================================
