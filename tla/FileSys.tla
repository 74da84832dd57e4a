------------------------------ MODULE FileSys ------------------------------
(***************************************************************************)
(* The Pintos file system (filesys.c, directory.c, inode.c, free-map.c,    *)
(* file.c): one flat root directory, files of a fixed number of            *)
(* consecutive sectors, symbolic links.                                    *)
(*                                                                         *)
(* The code takes no lock; its callers must run it one call at a time, and *)
(* so does the model.  A call is a sequence of steps, each of which makes  *)
(* at most one change to the disk, so that Crash between any two steps     *)
(* shows every disk image a power failure can leave.  Memory allocation    *)
(* can fail at every malloc() and calloc() when MemoryFails.               *)
(*                                                                         *)
(* Sizes are counted in sectors.  The contents of a file are its first     *)
(* sector, which holds a name (that of a link's target, or data that could *)
(* be read as one) or Nil, the zeros of a fresh sector.                    *)
(***************************************************************************)
EXTENDS Integers, FiniteSets

CONSTANTS
  Name,          \* file names
  Handle,        \* the caller's variables of type struct file *
  DiskSize,      \* number of sectors of fs_device
  DirEntries,    \* number of entries of the root directory (16 in the code)
  Setting,       \* what a behaviour may be given: sizes, fails, links, opens
  Nil

FREE_MAP_SECTOR == 0
ROOT_DIR_SECTOR == 1
DiskSector == 0 .. DiskSize - 1
Slot == 1 .. DirEntries

ASSUME SizesAssumption ==
  /\ DiskSize \in Nat /\ DiskSize >= 4
  /\ DirEntries \in Nat \ {0}
  /\ Setting \subseteq [sizes : SUBSET Nat, fails : BOOLEAN, links : BOOLEAN,
                        opens : Nat \ {0}]
  /\ IsFiniteSet(Handle)

VARIABLES
  setting,       \* a member of Setting, for the whole behaviour
  \* on disk
  map_file,      \* the sectors marked in the free map file
  disk_inode,    \* the struct inode_disk in each sector, Nil for other data
  entry,         \* the root directory's entries, Nil when not in use
  content,       \* the name in each data sector, or Nil
  \* in memory
  free_map,      \* the sectors marked in the bitmap
  open_inodes,   \* the struct inode of each sector, Nil when not open
  file,          \* what each handle points to, or Nil
  \* the call in progress
  pc, call

disk == <<map_file, disk_inode, entry, content>>
memory == <<free_map, open_inodes, file>>
vars == <<setting, map_file, disk_inode, entry, content, free_map, open_inodes, file,
          pc, call>>

Size == setting.sizes           \* sizes of created files, in sectors
MemoryFails == setting.fails    \* may malloc() return a null pointer?
Links == setting.links          \* is filesys_symlink() called?
MaxOpen == setting.opens        \* bound: none is opened once a file is open this often

-----------------------------------------------------------------------------
(* Inodes.                                                                 *)

Run(start, cnt) == start .. start + cnt - 1

InodeData == [start : DiskSector, cnt : Nat, link : BOOLEAN]
OpenInode == [open_cnt : Nat \ {0}, deny_write_cnt : Nat, removed : BOOLEAN,
              data : InodeData]
DirEntry == [name : Name, inode_sector : DiskSector]
File == [inode : DiskSector, deny_write : BOOLEAN]

ASSUME NilAssumption ==
  Nil \notin Name \cup DiskSector \cup InodeData \cup OpenInode \cup DirEntry \cup File

DiskInode(start, cnt, link) == [start |-> start, cnt |-> cnt, link |-> link]

Zeroed(d, blocks) == [s \in DiskSector |-> IF s \in blocks THEN Nil ELSE d[s]]

\* The sectors of the file whose inode is in sector s with contents d.
Blocks(s, d) == {s} \cup Run(d.start, d.cnt)

\* The open inodes oi after inode_open() and inode_close() of sector s.
Opened(oi, s) ==
  IF oi[s] # Nil
  THEN [oi EXCEPT ![s].open_cnt = @ + 1]
  ELSE [oi EXCEPT ![s] = [open_cnt |-> 1, deny_write_cnt |-> 0,
                          removed |-> FALSE, data |-> disk_inode[s]]]

(* Mutant of LastOpener: any opener's close frees the inode. *)
LastOpener_any(oi, s) == TRUE

LastOpener(oi, s) == oi[s].open_cnt = 1

Closed(oi, s) ==
  IF LastOpener(oi, s) THEN [oi EXCEPT ![s] = Nil]
  ELSE [oi EXCEPT ![s].open_cnt = @ - 1]

-----------------------------------------------------------------------------
(* The free map.                                                           *)

\* The lowest of a set of sectors or slots.
First(S) == {i \in S : \A j \in S : i <= j}

\* Where bitmap_scan_and_flip() may find cnt clear bits; it takes the first.
Fits(cnt) == {s \in DiskSector : Run(s, cnt) \subseteq DiskSector \ free_map}

(* Mutant of free_map_allocate: the map is changed in memory only. *)
free_map_allocate_unwritten(cnt, s) ==
  /\ s \in First(Fits(cnt))
  /\ free_map' = free_map \cup Run(s, cnt)
  /\ UNCHANGED map_file

\* Succeeds: marks the sectors and writes the map.  When the map cannot be
\* written for lack of a bounce buffer the bits are cleared again, so a
\* failure changes nothing.
free_map_allocate(cnt, s) ==
  /\ s \in First(Fits(cnt))
  /\ free_map' = free_map \cup Run(s, cnt)
  /\ map_file' = free_map'

AllocateFails(cnt) ==
  /\ Fits(cnt) = {} \/ MemoryFails
  /\ UNCHANGED <<free_map, map_file>>

(* Mutant of free_map_release: clears one bit too many. *)
free_map_release_off(s, cnt) ==
  /\ free_map' = free_map \ Run(s, cnt + 1)
  /\ map_file' = free_map'

\* The result of writing the map is ignored here.
free_map_release(s, cnt) ==
  /\ free_map' = free_map \ Run(s, cnt)
  /\ \/ map_file' = free_map'
     \/ MemoryFails /\ UNCHANGED map_file

\* The assertion at the head of free_map_release().
AllMarked(s, cnt) == Run(s, cnt) \subseteq free_map

-----------------------------------------------------------------------------
(* The directory.                                                          *)

\* How many entries a scan reads before inode_read_at() comes back short:
\* all of them, or fewer when it gets no bounce buffer.
Reach == IF MemoryFails THEN 0 .. DirEntries ELSE {DirEntries}

(* Mutant of Named: the search stops before the last entry. *)
Named_short(n, reach) ==
  {i \in 1 .. reach - 1 : entry[i] # Nil /\ entry[i].name = n}

Named(n, reach) == {i \in 1 .. reach : entry[i] # Nil /\ entry[i].name = n}

Unused(reach) == {i \in 1 .. reach : entry[i] = Nil}

\* What dir_lookup() may do to the open inodes and leave in *INODE.
dir_lookup(oi, n) ==
  {[oi |-> oi, inode |-> Nil] : reach \in {r \in Reach : Named(n, r) = {}}} \cup
  {LET s == entry[i].inode_sector IN [oi |-> Opened(oi, s), inode |-> s] :
     i \in UNION {First(Named(n, reach)) : reach \in Reach}}

\* The slot dir_add() writes after a scan of reach entries: the first unused
\* one, else the one at which the scan stopped.
SlotToWrite(reach) ==
  IF Unused(reach) # {} THEN First(Unused(reach)) ELSE {reach + 1}

-----------------------------------------------------------------------------
(* Calls.  A call that finds no memory for the root directory returns at   *)
(* once and changes nothing.                                               *)

NoCall == [op |-> "none", name |-> Nil, target |-> Nil, cnt |-> 0,
           sector |-> 0, start |-> 0, slot |-> 0]

MayCall == pc = "idle"

\* The bound on calls that open files: an inode that leaks stays open.
MayOpen ==
  \A s \in DiskSector \ {FREE_MAP_SECTOR} :
    open_inodes[s] # Nil => open_inodes[s].open_cnt < MaxOpen

Return == pc' = "idle" /\ call' = NoCall

\* An assertion fails or a null pointer is followed; only a reboot is left.
Panic == pc' = "panic" /\ call' = NoCall

filesys_create(n, cnt) ==
  /\ MayCall
  /\ open_inodes' = Opened(open_inodes, ROOT_DIR_SECTOR)
  /\ pc' = "allocate"
  /\ call' = [NoCall EXCEPT !.op = "create", !.name = n, !.cnt = cnt]
  /\ UNCHANGED <<disk, free_map, file>>

(* Mutant of CreateAllocate: the entry is written before the inode. *)
CreateAllocate_entry_first ==
  /\ pc = "allocate"
  /\ \E s \in DiskSector :
       /\ free_map_allocate(1, s)
       /\ pc' = "dir_add"
       /\ call' = [call EXCEPT !.sector = s]
  /\ UNCHANGED <<disk_inode, entry, content, open_inodes, file>>

CreateAllocate ==
  /\ pc = "allocate"
  /\ \/ \E s \in DiskSector :
          /\ free_map_allocate(1, s)
          /\ pc' = "inode_create"
          /\ call' = [call EXCEPT !.sector = s]
     \/ /\ AllocateFails(1)
        /\ pc' = "dir_close"
        /\ UNCHANGED call
  /\ UNCHANGED <<disk_inode, entry, content, open_inodes, file>>

\* The data sectors; a failure of the calloc() before it goes the same way.
inode_create ==
  /\ pc = "inode_create"
  /\ \/ \E s \in DiskSector :
          /\ free_map_allocate(call.cnt, s)
          /\ pc' = "write_inode"
          /\ call' = [call EXCEPT !.start = s]
     \/ /\ AllocateFails(call.cnt)
        /\ pc' = "undo"
        /\ UNCHANGED call
  /\ UNCHANGED <<disk_inode, entry, content, open_inodes, file>>

WriteInode ==
  /\ pc = "write_inode"
  /\ disk_inode' = [disk_inode EXCEPT ![call.sector] =
                      DiskInode(call.start, call.cnt, FALSE)]
  /\ content' = [content EXCEPT ![call.sector] = Nil]
  /\ pc' = "zero"
  /\ UNCHANGED <<map_file, entry, memory, call>>

WriteZeros ==
  /\ pc = "zero"
  /\ content' = Zeroed(content, Run(call.start, call.cnt))
  /\ disk_inode' = Zeroed(disk_inode, Run(call.start, call.cnt))
  /\ pc' = "dir_add"
  /\ UNCHANGED <<map_file, entry, memory, call>>

\* One scan for the name, one for a slot, and the write of the slot, which
\* fails beyond the end of the directory or without a bounce buffer.
dir_add ==
  /\ pc = "dir_add"
  /\ \E reach \in Reach :
       \/ /\ Named(call.name, reach) # {}
          /\ pc' = "undo"
          /\ UNCHANGED entry
       \/ /\ Named(call.name, reach) = {}
          /\ \E again \in Reach : \E i \in SlotToWrite(again) :
               \/ /\ i \in Slot
                  /\ entry' = [entry EXCEPT ![i] =
                       [name |-> call.name, inode_sector |-> call.sector]]
                  /\ pc' = "dir_close"
               \/ /\ i \notin Slot \/ MemoryFails
                  /\ pc' = "undo"
                  /\ UNCHANGED entry
  /\ UNCHANGED <<map_file, disk_inode, content, memory, call>>

CreateUndo ==
  /\ pc = "undo"
  /\ IF AllMarked(call.sector, 1)
     THEN /\ free_map_release(call.sector, 1)
          /\ pc' = "dir_close"
          /\ UNCHANGED call
     ELSE Panic /\ UNCHANGED <<free_map, map_file>>
  /\ UNCHANGED <<disk_inode, entry, content, open_inodes, file>>

(* Mutant of dir_close: the root directory stays open. *)
dir_close_leaks ==
  /\ pc = "dir_close"
  /\ IF call.op = "symlink"
     THEN pc' = "open_link" /\ UNCHANGED call
     ELSE Return
  /\ UNCHANGED <<disk, free_map, open_inodes, file>>

\* The end of filesys_create() and filesys_remove(); filesys_symlink() goes on.
dir_close ==
  /\ pc = "dir_close"
  /\ open_inodes' = Closed(open_inodes, ROOT_DIR_SECTOR)
  /\ IF call.op = "symlink"
     THEN pc' = "open_link" /\ UNCHANGED call
     ELSE Return
  /\ UNCHANGED <<disk, free_map, file>>

-----------------------------------------------------------------------------
(* Opening.                                                                *)

\* What the 15 bytes of target[] may hold once a link's file has been read
\* into them: an empty file, or one that cannot be read, leaves the stack's
\* old bytes.
link_target(d) ==
  IF d.cnt = 0 \/ MemoryFails THEN Name \cup {Nil} ELSE {content[d.start]}

\* The link's own inode stays open, and the root directory too when the
\* target is not found.
FollowLink(f) ==
  {IF g.inode = Nil
   THEN [oi |-> Opened(g.oi, ROOT_DIR_SECTOR), inode |-> Nil]
   ELSE g : g \in UNION {dir_lookup(f.oi, t) :
                           t \in link_target(f.oi[f.inode].data)}}

\* file_open() closes the inode when it gets no memory.
FileOpen(f) ==
  {f} \cup (IF MemoryFails /\ f.inode # Nil
            THEN {[oi |-> Closed(f.oi, f.inode), inode |-> Nil]} ELSE {})

IsLink(f) == f.inode # Nil /\ f.oi[f.inode].data.link

filesys_open(n) ==
  UNION {FileOpen(g) : g \in
    UNION {IF IsLink(f) THEN FollowLink(f) ELSE {f} :
             f \in dir_lookup(open_inodes, n)}}

\* Without memory for the second dir_open_root(), dir_lookup() asserts.
OpenPanics(n) ==
  MemoryFails /\ \E f \in dir_lookup(open_inodes, n) : IsLink(f)

OpenFile(n, h) ==
  /\ MayCall
  /\ MayOpen
  /\ file[h] = Nil
  /\ \/ \E f \in filesys_open(n) :
          /\ open_inodes' = f.oi
          /\ file' = [file EXCEPT ![h] =
               IF f.inode = Nil THEN Nil
               ELSE [inode |-> f.inode, deny_write |-> FALSE]]
          /\ UNCHANGED <<pc, call>>
     \/ OpenPanics(n) /\ Panic /\ UNCHANGED <<open_inodes, file>>
  /\ UNCHANGED <<disk, free_map>>

file_reopen(h, g) ==
  /\ MayCall
  /\ MayOpen
  /\ file[h] # Nil
  /\ file[g] = Nil
  /\ open_inodes' = Opened(open_inodes, file[h].inode)
  /\ file' = [file EXCEPT ![g] = [inode |-> file[h].inode, deny_write |-> FALSE]]
  /\ UNCHANGED <<disk, free_map, pc, call>>

file_deny_write(h) ==
  /\ MayCall
  /\ file[h] # Nil
  /\ ~file[h].deny_write
  /\ LET s == file[h].inode
     IN /\ open_inodes' = [open_inodes EXCEPT ![s].deny_write_cnt = @ + 1]
        /\ IF open_inodes'[s].deny_write_cnt <= open_inodes[s].open_cnt
           THEN UNCHANGED <<pc, call>> ELSE Panic
  /\ file' = [file EXCEPT ![h].deny_write = TRUE]
  /\ UNCHANGED <<disk, free_map>>

(* Mutant of Allowed: lowers the count whether or not the file denied. *)
Allowed_always(oi, f) == [oi EXCEPT ![f.inode].deny_write_cnt = @ - 1]

(* Mutant of Allowed: closing a file leaves its denial behind. *)
Allowed_never(oi, f) == oi

\* What file_allow_write() leaves of the open inodes.
Allowed(oi, f) ==
  IF f.deny_write THEN [oi EXCEPT ![f.inode].deny_write_cnt = @ - 1] ELSE oi

\* The two assertions of inode_allow_write().
AllowAsserts(oi, f) ==
  f.deny_write => oi[f.inode].deny_write_cnt \in 1 .. oi[f.inode].open_cnt

file_allow_write(h) ==
  /\ MayCall
  /\ file[h] # Nil
  /\ file[h].deny_write
  /\ IF AllowAsserts(open_inodes, file[h])
     THEN UNCHANGED <<pc, call>> ELSE Panic
  /\ open_inodes' = Allowed(open_inodes, file[h])
  /\ file' = [file EXCEPT ![h].deny_write = FALSE]
  /\ UNCHANGED <<disk, free_map>>

(* Mutant of inode_write_at: deny_write_cnt is not looked at. *)
inode_write_at_denied(s, v) ==
  LET i == open_inodes[s]
  IN content' = IF i.data.cnt > 0
                THEN [content EXCEPT ![i.data.start] = v] ELSE content

\* A write to the first sector of the open inode of sector s.
inode_write_at(s, v) ==
  LET i == open_inodes[s]
  IN content' = IF i.deny_write_cnt = 0 /\ i.data.cnt > 0
                THEN [content EXCEPT ![i.data.start] = v] ELSE content

file_write(h, v) ==
  /\ MayCall
  /\ file[h] # Nil
  /\ inode_write_at(file[h].inode, v)
  /\ UNCHANGED <<map_file, disk_inode, entry, memory, pc, call>>

-----------------------------------------------------------------------------
(* Closing and removing.                                                   *)

\* inode_close(s) on the open inodes oi, then the step next: the last opener
\* of a removed inode first releases its blocks.
CloseThen(oi, s, next) ==
  /\ open_inodes' = Closed(oi, s)
  /\ IF LastOpener(oi, s) /\ oi[s].removed
     THEN /\ pc' = "release_inode"
          /\ call' = [call EXCEPT !.sector = s, !.start = oi[s].data.start,
                                  !.cnt = oi[s].data.cnt]
     ELSE IF next = "idle" THEN Return ELSE pc' = next /\ UNCHANGED call

file_close(h) ==
  /\ MayCall
  /\ file[h] # Nil
  /\ IF AllowAsserts(open_inodes, file[h])
     THEN /\ CloseThen(Allowed(open_inodes, file[h]), file[h].inode, "idle")
          /\ file' = [file EXCEPT ![h] = Nil]
     ELSE Panic /\ UNCHANGED <<open_inodes, file>>
  /\ UNCHANGED <<disk, free_map>>

ReleaseInode ==
  /\ pc = "release_inode"
  /\ IF AllMarked(call.sector, 1)
     THEN /\ free_map_release(call.sector, 1)
          /\ pc' = "release_data"
          /\ UNCHANGED call
     ELSE Panic /\ UNCHANGED <<free_map, map_file>>
  /\ UNCHANGED <<disk_inode, entry, content, open_inodes, file>>

ReleaseData ==
  /\ pc = "release_data"
  /\ IF AllMarked(call.start, call.cnt)
     THEN /\ free_map_release(call.start, call.cnt)
          /\ IF call.op = "remove"
             THEN pc' = "dir_close" /\ UNCHANGED call
             ELSE Return
     ELSE Panic /\ UNCHANGED <<free_map, map_file>>
  /\ UNCHANGED <<disk_inode, entry, content, open_inodes, file>>

\* dir_remove() up to the write of the erased entry.  A name that is not
\* found, or an inode that gets no memory, changes nothing.
filesys_remove(n) ==
  /\ MayCall
  /\ \E reach \in Reach : \E i \in First(Named(n, reach)) :
       LET s == entry[i].inode_sector
       IN /\ open_inodes' =
               Opened(Opened(open_inodes, ROOT_DIR_SECTOR), s)
          /\ call' = [NoCall EXCEPT !.op = "remove", !.slot = i, !.sector = s]
  /\ pc' = "erase"
  /\ UNCHANGED <<disk, free_map, file>>

dir_remove ==
  /\ pc = "erase"
  /\ \/ /\ entry' = [entry EXCEPT ![call.slot] = Nil]
        /\ CloseThen([open_inodes EXCEPT ![call.sector].removed = TRUE],
                     call.sector, "dir_close")
     \/ /\ MemoryFails
        /\ CloseThen(open_inodes, call.sector, "dir_close")
        /\ UNCHANGED entry
  /\ UNCHANGED <<map_file, disk_inode, content, free_map, file>>

-----------------------------------------------------------------------------
(* Symbolic links.  The result of filesys_create() is only returned at the *)
(* end; whatever it was, the link path is opened and made a link.          *)

filesys_symlink(t, n) ==
  /\ Links
  /\ MayCall
  /\ MayOpen
  /\ \/ /\ open_inodes' = Opened(open_inodes, ROOT_DIR_SECTOR)
        /\ pc' = "allocate"
     \/ MemoryFails /\ pc' = "open_link" /\ UNCHANGED open_inodes
  /\ call' = [NoCall EXCEPT !.op = "symlink", !.name = n, !.target = t,
                            !.cnt = 1]
  /\ UNCHANGED <<disk, free_map, file>>

\* file_get_inode() follows the pointer that filesys_open() returned.
SymlinkOpen ==
  /\ pc = "open_link"
  /\ \/ \E f \in filesys_open(call.name) :
          /\ open_inodes' = f.oi
          /\ IF f.inode = Nil
             THEN Panic
             ELSE /\ pc' = "set_symlink"
                  /\ call' = [call EXCEPT !.sector = f.inode]
     \/ OpenPanics(call.name) /\ Panic /\ UNCHANGED open_inodes
  /\ UNCHANGED <<disk, free_map, file>>

inode_set_symlink ==
  /\ pc = "set_symlink"
  /\ open_inodes' = [open_inodes EXCEPT ![call.sector].data.link = TRUE]
  /\ disk_inode' = [disk_inode EXCEPT ![call.sector] =
                      open_inodes'[call.sector].data]
  /\ pc' = "write_target"
  /\ UNCHANGED <<map_file, entry, content, free_map, file, call>>

\* The write of the target, whose result is ignored, and file_close().
SymlinkWrite ==
  /\ pc = "write_target"
  /\ \/ inode_write_at(call.sector, call.target)
     \/ MemoryFails /\ UNCHANGED content
  /\ CloseThen(open_inodes, call.sector, "idle")
  /\ UNCHANGED <<map_file, disk_inode, entry, free_map, file>>

-----------------------------------------------------------------------------
(* Power failure and reboot: memory is lost, filesys_init(false) reads the *)
(* free map back from its file and keeps that file open.                   *)

Booted ==
  [s \in DiskSector |->
     IF s = FREE_MAP_SECTOR
     THEN [open_cnt |-> 1, deny_write_cnt |-> 0, removed |-> FALSE,
           data |-> disk_inode[s]]
     ELSE Nil]

filesys_init ==
  /\ free_map' = map_file
  /\ open_inodes' = Booted
  /\ file' = [h \in Handle |-> Nil]
  /\ Return
  /\ UNCHANGED disk

\* The disk as do_format() leaves it: the free map file and the root
\* directory, each with its inode and one sector of data.
do_format ==
  /\ map_file = 0 .. 3
  /\ disk_inode = [s \in DiskSector |->
                     CASE s = FREE_MAP_SECTOR -> DiskInode(2, 1, FALSE)
                       [] s = ROOT_DIR_SECTOR -> DiskInode(3, 1, FALSE)
                       [] OTHER -> Nil]
  /\ entry = [i \in Slot |-> Nil]
  /\ content = [s \in DiskSector |-> Nil]

Init ==
  /\ setting \in Setting
  /\ do_format
  /\ free_map = map_file
  /\ open_inodes = Booted
  /\ file = [h \in Handle |-> Nil]
  /\ pc = "idle"
  /\ call = NoCall

Step ==
  \/ CreateAllocate \/ inode_create \/ WriteInode \/ WriteZeros \/ dir_add
  \/ CreateUndo \/ dir_close \/ ReleaseInode \/ ReleaseData \/ dir_remove
  \/ SymlinkOpen \/ inode_set_symlink \/ SymlinkWrite

Call ==
  \/ \E n \in Name :
       \/ \E cnt \in Size : filesys_create(n, cnt)
       \/ filesys_remove(n)
       \/ \E t \in Name : filesys_symlink(t, n)
       \/ \E h \in Handle : OpenFile(n, h) \/ file_write(h, n)
  \/ \E h \in Handle :
       \/ \E g \in Handle : file_reopen(h, g)
       \/ file_deny_write(h) \/ file_allow_write(h) \/ file_close(h)

Next == (Call \/ Step \/ filesys_init) /\ UNCHANGED setting

Spec == Init /\ [][Next]_vars

-----------------------------------------------------------------------------
(* Properties.                                                             *)

(* Type invariant of the state of the file system code.                    *)
TypeOK ==
  /\ setting \in Setting
  /\ map_file \subseteq DiskSector /\ free_map \subseteq DiskSector
  /\ disk_inode \in [DiskSector -> InodeData \cup {Nil}]
  /\ entry \in [Slot -> DirEntry \cup {Nil}]
  /\ content \in [DiskSector -> Name \cup {Nil}]
  /\ open_inodes \in [DiskSector -> OpenInode \cup {Nil}]
  /\ file \in [Handle -> File \cup {Nil}]

Used == {i \in Slot : entry[i] # Nil}

EntryBlocks(i) ==
  Blocks(entry[i].inode_sector, disk_inode[entry[i].inode_sector])

SystemBlocks ==
  Blocks(FREE_MAP_SECTOR, disk_inode[FREE_MAP_SECTOR])
    \cup Blocks(ROOT_DIR_SECTOR, disk_inode[ROOT_DIR_SECTOR])

(* At every moment, so in every image a power failure leaves, each entry of *)
(* the root directory names an inode that was written, whose sectors are    *)
(* all marked in the free map file and belong to no other file: the order   *)
(* of the writes in filesys_create() and dir_remove().                      *)
DiskConsistent ==
  \A i \in Used :
    /\ disk_inode[entry[i].inode_sector] # Nil
    /\ EntryBlocks(i) \subseteq map_file \ SystemBlocks
    /\ \A j \in Used \ {i} : EntryBlocks(i) \cap EntryBlocks(j) = {}

(* A file that is open, even if it was removed since, keeps its sectors:   *)
(* they are marked in the bitmap, no other open or named file has them, and *)
(* the copy of the inode in memory is the one on disk.  inode_close()      *)
(* releases blocks only for the last opener.                               *)
OpenFilesKeepBlocks ==
  \A h \in Handle : file[h] # Nil =>
    LET s == file[h].inode
    IN /\ open_inodes[s] # Nil
       /\ open_inodes[s].data = disk_inode[s]
       /\ Blocks(s, disk_inode[s]) \subseteq free_map
       /\ \A i \in Used : entry[i].inode_sector # s =>
            EntryBlocks(i) \cap Blocks(s, disk_inode[s]) = {}
       /\ \A g \in Handle : file[g] # Nil /\ file[g].inode # s =>
            Blocks(file[g].inode, disk_inode[file[g].inode])
              \cap Blocks(s, disk_inode[s]) = {}

(* Every sector in use in memory is marked in the free map file, so that a *)
(* reboot never hands it out again: free_map_allocate() takes back what it *)
(* could not write, and a release that could not be written only leaks.    *)
MapOnDisk == free_map \subseteq map_file

(* An inode's deny_write_cnt is the number of open files that deny writes  *)
(* to it: file_close() and file_allow_write() undo file_deny_write() once. *)
DenyWriteExact ==
  \A s \in DiskSector : open_inodes[s] # Nil =>
    open_inodes[s].deny_write_cnt =
      Cardinality({h \in Handle : /\ file[h] # Nil /\ file[h].inode = s
                                  /\ file[h].deny_write})

\* A step that changes the contents of no file that denies writes.
DeniedKept ==
  \A h \in Handle :
    file[h] # Nil /\ file[h].deny_write /\ file'[h] = file[h] =>
      LET d == open_inodes[file[h].inode].data
      IN \A s \in Run(d.start, d.cnt) : content'[s] = content[s]

(* A file that is open, even if it was removed since, keeps its sectors to *)
(* itself. deny_write_cnt of an inode is the number of open files that     *)
(* deny writes to it, and while there is one nothing changes the contents: *)
(* no other file open on the inode, no link made of it, no new file that   *)
(* is zeroed.                                                              *)
OpenFilesKept ==
  /\ [](TypeOK /\ OpenFilesKeepBlocks /\ DenyWriteExact)
  /\ [][DeniedKept]_vars

(* Between calls every inode is open exactly as often as there are files   *)
(* open on it (the free map's own file counts for its inode):              *)
(* dir_lookup()'s "The caller must close *INODE."                          *)
OpenCntExact ==
  pc = "idle" => \A s \in DiskSector :
    LET openers == Cardinality({h \in Handle : file[h] # Nil
                                               /\ file[h].inode = s})
                     + (IF s = FREE_MAP_SECTOR THEN 1 ELSE 0)
    IN IF openers = 0 THEN open_inodes[s] = Nil
       ELSE open_inodes[s] # Nil /\ open_inodes[s].open_cnt = openers

(* filesys_symlink() and every other call returns: no assertion of the     *)
(* file system fails and no null pointer is followed.                      *)
CallsReturn == pc # "panic"

(* "Fails if a file named NAME already exists": no two entries of the root *)
(* directory have the same name.                                           *)
NamesUnique ==
  \A i, j \in Used : entry[i].name = entry[j].name => i = j

(* In every image a power failure leaves, an entry of the directory names  *)
(* an inode that was written, whose sectors are marked in the free map     *)
(* file and belong to no other file; and every sector in use in memory is  *)
(* marked in the free map file.                                            *)
ImagesConsistent == DiskConsistent /\ MapOnDisk

(* Without links, open_cnt of an inode is the number of its openers and    *)
(* every call returns; with memory left, no two entries of the directory   *)
(* have one name.                                                          *)
CallsExact ==
  /\ ~Links => OpenCntExact /\ CallsReturn
  /\ ~MemoryFails => NamesUnique
=============================================================================
