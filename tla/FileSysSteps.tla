---------------------------- MODULE FileSysSteps ----------------------------
EXTENDS FileSys, TLAPS

-----------------------------------------------------------------------------
(* The inductive invariant.                                                *)

\* The sectors of the file whose inode is on disk in sector s.
FileBlocks(s) == Blocks(s, disk_inode[s])
DataBlocks(s) == Run(disk_inode[s].start, disk_inode[s].cnt)

NamedBy(i, s) == entry[i] # Nil /\ entry[i].inode_sector = s

HasEntry(s) == \E i \in Slot : NamedBy(i, s)

\* A file whose sectors must not be given to another.
Live(s) == s \in {FREE_MAP_SECTOR, ROOT_DIR_SECTOR} \/ HasEntry(s) \/ open_inodes[s] # Nil

FilesApart ==
  \A s \in DiskSector : Live(s) =>
    /\ disk_inode[s] # Nil
    /\ s \notin DataBlocks(s)
    /\ FileBlocks(s) \subseteq free_map
    /\ \A t \in DiskSector : Live(t) /\ t # s => FileBlocks(s) \cap FileBlocks(t) = {}

SystemFiles ==
  /\ disk_inode[FREE_MAP_SECTOR] = DiskInode(2, 1, FALSE)
  /\ disk_inode[ROOT_DIR_SECTOR] = DiskInode(3, 1, FALSE)

EntriesOK ==
  \A i \in Slot : entry[i] # Nil =>
    /\ entry[i].inode_sector \notin {FREE_MAP_SECTOR, ROOT_DIR_SECTOR}
    /\ \A j \in Slot : NamedBy(j, entry[i].inode_sector) => i = j

\* The open inodes are those on disk, and a removed one has no entry.
OpenOK(oi) ==
  \A s \in DiskSector : oi[s] # Nil =>
    /\ oi[s].data = disk_inode[s]
    /\ oi[s].removed => ~HasEntry(s) /\ s \notin {FREE_MAP_SECTOR, ROOT_DIR_SECTOR}

Creating == {"allocate", "inode_create", "write_inode", "zero", "dir_add", "undo"}
Linking == {"open_link", "set_symlink", "write_target"}
Releasing == {"release_inode", "release_data"}

CallRecord ==
  [op : {"none", "create", "remove", "symlink"}, name : Name \cup {Nil}, target : Name \cup {Nil},
   cnt : Nat, sector : DiskSector, start : DiskSector, slot : Slot \cup {0}]

CallTypeOK ==
  /\ pc \in {"idle", "panic", "dir_close", "erase"} \cup Creating \cup Linking \cup Releasing
  /\ call \in CallRecord
  /\ pc = "idle" => call = NoCall
  /\ pc \in Creating => call.op \in {"create", "symlink"}
  /\ pc \in Linking => call.op = "symlink"
  /\ pc = "erase" => call.op = "remove"
  /\ call.op \in {"create", "symlink"} => call.name \in Name
  /\ call.op = "symlink" => call.target \in Name /\ Links

\* The sectors the call in progress has taken or is about to give back.
CallBlocks ==
  CASE pc \in {"inode_create", "undo"} -> {call.sector}
    [] pc \in {"write_inode", "zero", "dir_add", "release_inode"} ->
         {call.sector} \cup Run(call.start, call.cnt)
    [] pc = "release_data" -> Run(call.start, call.cnt)
    [] OTHER -> {}

CallApart ==
  /\ CallBlocks \subseteq free_map
  /\ \A s \in DiskSector : Live(s) => CallBlocks \cap FileBlocks(s) = {}
  /\ pc \in {"write_inode", "zero", "dir_add", "release_inode"} =>
       call.sector \notin Run(call.start, call.cnt)
  /\ pc \in {"zero", "dir_add"} =>
       disk_inode[call.sector] = DiskInode(call.start, call.cnt, FALSE)
  /\ pc = "erase" => call.slot \in Slot /\ NamedBy(call.slot, call.sector)
  /\ pc = "set_symlink" => HasEntry(call.sector)

\* How often the struct inode of sector s is referred to.
Cnt(oi, s) == IF oi[s] = Nil THEN 0 ELSE oi[s].open_cnt
Openers(s) == {h \in Handle : file[h] # Nil /\ file[h].inode = s}
Deniers(s) == {h \in Handle : file[h] # Nil /\ file[h].inode = s /\ file[h].deny_write}
RootOpen == pc \in Creating \cup {"dir_close", "erase"} \/ (pc \in Releasing /\ call.op = "remove")
InCall(s) == pc \in {"erase", "set_symlink", "write_target"} /\ s = call.sector
Extra(s) == (IF s = FREE_MAP_SECTOR THEN 1 ELSE 0)
            + (IF s = ROOT_DIR_SECTOR /\ RootOpen THEN 1 ELSE 0)
            + (IF InCall(s) THEN 1 ELSE 0)

Counted ==
  \A s \in DiskSector :
    /\ Cnt(open_inodes, s) >= Cardinality(Openers(s)) + Extra(s)
    /\ ~Links => Cnt(open_inodes, s) = Cardinality(Openers(s)) + Extra(s)

NoLinks ==
  ~Links => /\ pc # "panic"
            /\ \A s \in DiskSector : disk_inode[s] # Nil => ~disk_inode[s].link

FilesOK == FilesApart /\ SystemFiles /\ EntriesOK /\ OpenOK(open_inodes) /\ MapOnDisk

IInv == /\ TypeOK /\ CallTypeOK /\ FilesOK /\ CallApart
        /\ Counted /\ DenyWriteExact /\ NoLinks
        /\ ~MemoryFails => NamesUnique

-----------------------------------------------------------------------------
(* The table of open inodes.                                               *)

OpenTable == [DiskSector -> OpenInode \cup {Nil}]

LEMMA SystemSectors ==
  /\ FREE_MAP_SECTOR \in DiskSector /\ ROOT_DIR_SECTOR \in DiskSector
  /\ FREE_MAP_SECTOR # ROOT_DIR_SECTOR
  BY SizesAssumption DEF DiskSector, FREE_MAP_SECTOR, ROOT_DIR_SECTOR

LEMMA NilApart ==
  /\ Nil \notin Name /\ Nil \notin DiskSector /\ Nil \notin InodeData
  /\ Nil \notin OpenInode /\ Nil \notin DirEntry /\ Nil \notin File
  BY NilAssumption

(* inode_open() adds one reference and changes no other inode. *)
LEMMA OpenedIs ==
  ASSUME NEW oi \in OpenTable, NEW s \in DiskSector, oi[s] = Nil => disk_inode[s] \in InodeData
  PROVE  /\ Opened(oi, s) \in OpenTable
         /\ \A t \in DiskSector \ {s} : Opened(oi, s)[t] = oi[t]
         /\ Opened(oi, s)[s] # Nil
         /\ Cnt(Opened(oi, s), s) = Cnt(oi, s) + 1
         /\ oi[s] # Nil => Opened(oi, s)[s] = [oi[s] EXCEPT !.open_cnt = @ + 1]
         /\ oi[s] = Nil => Opened(oi, s)[s] = [open_cnt |-> 1, deny_write_cnt |-> 0,
                                               removed |-> FALSE, data |-> disk_inode[s]]
<1>1. CASE oi[s] # Nil
  <2>1. oi[s] \in OpenInode /\ oi[s].open_cnt \in Nat
    BY <1>1 DEF OpenTable, OpenInode
  <2>2. Opened(oi, s) = [oi EXCEPT ![s] = [oi[s] EXCEPT !.open_cnt = @ + 1]]
    BY <1>1 DEF Opened
  <2>3. [oi[s] EXCEPT !.open_cnt = @ + 1] \in OpenInode
    BY <2>1 DEF OpenInode
  <2>4. Opened(oi, s)[s] = [oi[s] EXCEPT !.open_cnt = @ + 1]
    BY <2>2 DEF OpenTable
  <2>5. Opened(oi, s) \in OpenTable /\ \A t \in DiskSector \ {s} : Opened(oi, s)[t] = oi[t]
    BY <2>2, <2>3 DEF OpenTable
  <2>6. [oi[s] EXCEPT !.open_cnt = @ + 1].open_cnt = oi[s].open_cnt + 1
    BY <2>1 DEF OpenInode
  <2>7. Opened(oi, s)[s] # Nil
    BY <2>3, <2>4, NilApart
  <2>. QED  BY <1>1, <2>4, <2>5, <2>6, <2>7 DEF Cnt
<1>2. CASE oi[s] = Nil
  <2>1. Opened(oi, s) = [oi EXCEPT ![s] = [open_cnt |-> 1, deny_write_cnt |-> 0,
                                           removed |-> FALSE, data |-> disk_inode[s]]]
    BY <1>2 DEF Opened
  <2>2. [open_cnt |-> 1, deny_write_cnt |-> 0, removed |-> FALSE, data |-> disk_inode[s]] \in OpenInode
    BY <1>2 DEF OpenInode
  <2>3. Opened(oi, s)[s] = [open_cnt |-> 1, deny_write_cnt |-> 0, removed |-> FALSE, data |-> disk_inode[s]]
    BY <2>1 DEF OpenTable
  <2>4. Opened(oi, s) \in OpenTable /\ \A t \in DiskSector \ {s} : Opened(oi, s)[t] = oi[t]
    BY <2>1, <2>2 DEF OpenTable
  <2>5. Opened(oi, s)[s] # Nil
    BY Zenon, <2>2, <2>3, NilApart
  <2>. QED  BY <1>2, <2>3, <2>4, <2>5 DEF Cnt
<1>. QED  BY <1>1, <1>2

(* inode_close() takes one reference away and changes no other inode. *)
LEMMA ClosedIs ==
  ASSUME NEW oi \in OpenTable, NEW s \in DiskSector, oi[s] # Nil
  PROVE  /\ Closed(oi, s) \in OpenTable
         /\ \A t \in DiskSector \ {s} : Closed(oi, s)[t] = oi[t]
         /\ Cnt(Closed(oi, s), s) = Cnt(oi, s) - 1
         /\ LastOpener(oi, s) <=> Closed(oi, s)[s] = Nil
         /\ Closed(oi, s)[s] # Nil => Closed(oi, s)[s] = [oi[s] EXCEPT !.open_cnt = @ - 1]
<1>1. oi[s] \in OpenInode /\ oi[s].open_cnt \in Nat \ {0}
  BY DEF OpenTable, OpenInode
<1>2. CASE LastOpener(oi, s)
  <2>1. Closed(oi, s) = [oi EXCEPT ![s] = Nil]
    BY <1>2 DEF Closed
  <2>2. Closed(oi, s)[s] = Nil /\ Closed(oi, s) \in OpenTable
        /\ \A t \in DiskSector \ {s} : Closed(oi, s)[t] = oi[t]
    BY <2>1 DEF OpenTable
  <2>. QED  BY <1>1, <1>2, <2>2 DEF Cnt, LastOpener
<1>3. CASE ~LastOpener(oi, s)
  <2>1. Closed(oi, s) = [oi EXCEPT ![s] = [oi[s] EXCEPT !.open_cnt = @ - 1]]
    BY <1>3 DEF Closed
  <2>2. oi[s].open_cnt - 1 \in Nat \ {0}
    BY <1>1, <1>3 DEF LastOpener
  <2>3. [oi[s] EXCEPT !.open_cnt = @ - 1] \in OpenInode
    BY <1>1, <2>2 DEF OpenInode
  <2>4. Closed(oi, s)[s] = [oi[s] EXCEPT !.open_cnt = @ - 1]
    BY <2>1 DEF OpenTable
  <2>5. Closed(oi, s) \in OpenTable /\ \A t \in DiskSector \ {s} : Closed(oi, s)[t] = oi[t]
    BY <2>1, <2>3 DEF OpenTable
  <2>6. [oi[s] EXCEPT !.open_cnt = @ - 1].open_cnt = oi[s].open_cnt - 1
    BY <1>1 DEF OpenInode
  <2>7. Closed(oi, s)[s] # Nil
    BY <2>3, <2>4, NilApart
  <2>. QED  BY <1>3, <2>4, <2>5, <2>6, <2>7 DEF Cnt
<1>. QED  BY <1>2, <1>3

\* The table oj is what openings of the root directory and of named files
\* may make of oi.
Grown(oi, oj) ==
  /\ oj \in OpenTable
  /\ \A s \in DiskSector :
       /\ oi[s] # Nil => /\ oj[s] # Nil
                         /\ oj[s].data = oi[s].data
                         /\ oj[s].removed = oi[s].removed
                         /\ oj[s].deny_write_cnt = oi[s].deny_write_cnt
       /\ oi[s] = Nil /\ oj[s] # Nil => /\ oj[s].data = disk_inode[s]
                                        /\ oj[s].removed = FALSE
                                        /\ oj[s].deny_write_cnt = 0
                                        /\ s = ROOT_DIR_SECTOR \/ HasEntry(s)
       /\ Cnt(oj, s) >= Cnt(oi, s)

LEMMA CntNat == ASSUME NEW oi \in OpenTable, NEW s \in DiskSector PROVE Cnt(oi, s) \in Nat
  BY DEF Cnt, OpenTable, OpenInode

LEMMA GrownRefl == ASSUME NEW oi \in OpenTable PROVE Grown(oi, oi)
  BY CntNat DEF Grown

LEMMA GrownOpened ==
  ASSUME NEW oi \in OpenTable, NEW oj, Grown(oi, oj), NEW s \in DiskSector,
         disk_inode[s] \in InodeData, oi[s] # Nil \/ s = ROOT_DIR_SECTOR \/ HasEntry(s)
  PROVE  Grown(oi, Opened(oj, s))
<1>. DEFINE ok == Opened(oj, s)
<1>1. oj \in OpenTable
  BY DEF Grown
<1>2. /\ ok \in OpenTable
      /\ \A t \in DiskSector \ {s} : ok[t] = oj[t]
      /\ ok[s] # Nil
      /\ Cnt(ok, s) = Cnt(oj, s) + 1
      /\ oj[s] # Nil => ok[s] = [oj[s] EXCEPT !.open_cnt = @ + 1]
      /\ oj[s] = Nil => ok[s] = [open_cnt |-> 1, deny_write_cnt |-> 0,
                                 removed |-> FALSE, data |-> disk_inode[s]]
  BY <1>1, OpenedIs
<1>3. oj[s] # Nil => /\ ok[s].data = oj[s].data /\ ok[s].removed = oj[s].removed
                     /\ ok[s].deny_write_cnt = oj[s].deny_write_cnt
  BY <1>1, <1>2 DEF OpenTable, OpenInode
<1>4. oj[s] = Nil => /\ ok[s].data = disk_inode[s] /\ ok[s].removed = FALSE
                     /\ ok[s].deny_write_cnt = 0
  BY <1>2
<1>5. \A t \in DiskSector : Cnt(ok, t) >= Cnt(oj, t) /\ Cnt(ok, t) \in Nat /\ Cnt(oj, t) \in Nat /\ Cnt(oi, t) \in Nat
  BY <1>1, <1>2, CntNat DEF Cnt
<1>. HIDE DEF ok
<1>6. \A t \in DiskSector : Cnt(ok, t) >= Cnt(oi, t)
  BY <1>5 DEF Grown
<1>7. \A t \in DiskSector : oi[t] # Nil => /\ ok[t] # Nil
                         /\ ok[t].data = oi[t].data
                         /\ ok[t].removed = oi[t].removed
                         /\ ok[t].deny_write_cnt = oi[t].deny_write_cnt
  BY <1>2, <1>3 DEF Grown
<1>8. \A t \in DiskSector : oi[t] = Nil /\ ok[t] # Nil =>
        /\ ok[t].data = disk_inode[t]
        /\ ok[t].removed = FALSE
        /\ ok[t].deny_write_cnt = 0
        /\ t = ROOT_DIR_SECTOR \/ HasEntry(t)
  BY <1>2, <1>3, <1>4 DEF Grown
<1>9. Grown(oi, ok)
  BY <1>2, <1>6, <1>7, <1>8 DEF Grown
<1>. QED  BY <1>9 DEF ok

LEMMA ReachIs == ASSUME NEW reach \in Reach PROVE reach \in 0 .. DirEntries
<1>1. Reach = 0 .. DirEntries \/ Reach = {DirEntries}
  BY DEF Reach
<1>2. DirEntries \in 0 .. DirEntries
  BY SizesAssumption
<1>. QED  BY <1>1, <1>2

(* dir_lookup() finds nothing, or opens the inode of an entry. *)
LEMMA LookupIs ==
  ASSUME TypeOK, NEW oi, NEW n, NEW f \in dir_lookup(oi, n)
  PROVE  \/ f = [oi |-> oi, inode |-> Nil]
         \/ \E s \in DiskSector : HasEntry(s) /\ f = [oi |-> Opened(oi, s), inode |-> s]
<1>1. CASE f \in {[oi |-> oi, inode |-> Nil] : reach \in {r \in Reach : Named(n, r) = {}}}
  BY <1>1
<1>2. CASE f \in {LET s == entry[i].inode_sector IN [oi |-> Opened(oi, s), inode |-> s] :
                   i \in UNION {First(Named(n, reach)) : reach \in Reach}}
  <2>0. PICK reach \in Reach : \E i \in First(Named(n, reach)) :
          f = [oi |-> Opened(oi, entry[i].inode_sector), inode |-> entry[i].inode_sector]
    BY <1>2
  <2>1. PICK i \in First(Named(n, reach)) :
          f = [oi |-> Opened(oi, entry[i].inode_sector), inode |-> entry[i].inode_sector]
    BY <2>0
  <2>2. i \in 1 .. reach /\ entry[i] # Nil
    BY <2>1 DEF First, Named
  <2>3. i \in Slot
    BY <2>2, ReachIs, SizesAssumption DEF Slot
  <2>4. entry[i].inode_sector \in DiskSector
    BY <2>2, <2>3 DEF TypeOK, DirEntry
  <2>. QED  BY <2>1, <2>2, <2>3, <2>4 DEF HasEntry, NamedBy
<1>. QED  BY <1>1, <1>2 DEF dir_lookup

(* Closing what was just opened leaves the table as it was. *)
LEMMA OpenedClosed ==
  ASSUME NEW oi \in OpenTable, NEW s \in DiskSector, disk_inode[s] \in InodeData
  PROVE  Closed(Opened(oi, s), s) = oi
<1>. DEFINE oj == Opened(oi, s)
            ok == Closed(oj, s)
<1>1. /\ oj \in OpenTable
      /\ \A t \in DiskSector \ {s} : oj[t] = oi[t]
      /\ oj[s] # Nil
      /\ Cnt(oj, s) = Cnt(oi, s) + 1
      /\ oi[s] # Nil => oj[s] = [oi[s] EXCEPT !.open_cnt = @ + 1]
  BY ZenonT(60), OpenedIs
<1>2. /\ ok \in OpenTable
      /\ \A t \in DiskSector \ {s} : ok[t] = oj[t]
      /\ Cnt(ok, s) = Cnt(oj, s) - 1
      /\ ok[s] # Nil => ok[s] = [oj[s] EXCEPT !.open_cnt = @ - 1]
  BY <1>1, ClosedIs
<1>. HIDE DEF oj, ok
<1>3. Cnt(oi, s) \in Nat /\ Cnt(oj, s) \in Nat /\ Cnt(ok, s) \in Nat
  BY <1>1, <1>2, CntNat
<1>4. Cnt(ok, s) = Cnt(oi, s)
  BY <1>1, <1>2, <1>3
<1>5. ok[s] = oi[s]
  <2>1. CASE oi[s] = Nil
    BY <2>1, <1>2, <1>4 DEF Cnt, OpenTable, OpenInode
  <2>2. CASE oi[s] # Nil
    <3>1. oi[s] \in OpenInode /\ oi[s].open_cnt \in Nat \ {0}
      BY <2>2 DEF OpenTable, OpenInode
    <3>2. ok[s] # Nil
      BY <2>2, <3>1, <1>4 DEF Cnt
    <3>3. [[oi[s] EXCEPT !.open_cnt = oi[s].open_cnt + 1] EXCEPT !.open_cnt = oi[s].open_cnt] = oi[s]
      BY Zenon, <3>1 DEF OpenInode
    <3>4. oj[s].open_cnt = oi[s].open_cnt + 1
      BY <2>2, <3>1, <1>1 DEF OpenInode
    <3>5. ok[s] = [oj[s] EXCEPT !.open_cnt = oi[s].open_cnt]
      BY <3>1, <3>2, <3>4, <1>2
    <3>. QED  BY Zenon, <2>2, <3>3, <3>5, <1>1
  <2>. QED  BY <2>1, <2>2
<1>6. \A t \in DiskSector : ok[t] = oi[t]
  BY <1>1, <1>2, <1>5
<1>7. ok = oi
  BY <1>6, <1>2 DEF OpenTable
<1>. QED  BY <1>7 DEF oj, ok

\* What filesys_open() may make of the table, and the inode it returns.
OpenResult(f) ==
  /\ Grown(open_inodes, f.oi)
  /\ f.inode \in DiskSector \cup {Nil}
  /\ f.inode # Nil => /\ HasEntry(f.inode)
                      /\ Cnt(f.oi, f.inode) >= Cnt(open_inodes, f.inode) + 1
  /\ ~Links => \A s \in DiskSector :
       Cnt(f.oi, s) = Cnt(open_inodes, s) + (IF s = f.inode THEN 1 ELSE 0)

LEMMA NamedHasInode ==
  ASSUME TypeOK, FilesApart, NEW s \in DiskSector, Live(s)
  PROVE  disk_inode[s] \in InodeData
  BY DEF TypeOK, FilesApart

LEMMA NothingFound ==
  ASSUME TypeOK, NEW X, Grown(open_inodes, X), Links \/ X = open_inodes
  PROVE  OpenResult([oi |-> X, inode |-> Nil])
<1>1. open_inodes \in OpenTable
  BY DEF TypeOK, OpenTable
<1>2. \A s \in DiskSector : s # Nil /\ Cnt(open_inodes, s) \in Nat
  BY <1>1, CntNat, NilApart
<1>. QED  BY <1>2 DEF OpenResult

LEMMA InodeFound ==
  ASSUME TypeOK, FilesApart, NEW X, Grown(open_inodes, X), Links \/ X = open_inodes,
         NEW s \in DiskSector, HasEntry(s)
  PROVE  OpenResult([oi |-> Opened(X, s), inode |-> s])
<1>. DEFINE Y == Opened(X, s)
<1>1. open_inodes \in OpenTable /\ X \in OpenTable
  BY DEF TypeOK, OpenTable, Grown
<1>2. disk_inode[s] \in InodeData
  BY NamedHasInode DEF Live
<1>3. Grown(open_inodes, Y)
  BY <1>1, <1>2, GrownOpened
<1>4. /\ Cnt(Y, s) = Cnt(X, s) + 1
      /\ \A t \in DiskSector \ {s} : Y[t] = X[t]
  BY Zenon, <1>1, <1>2, OpenedIs
<1>5. \A t \in DiskSector : Cnt(Y, t) \in Nat /\ Cnt(X, t) \in Nat /\ Cnt(open_inodes, t) \in Nat
                            /\ Cnt(X, t) >= Cnt(open_inodes, t)
  BY <1>1, <1>3, CntNat DEF Grown
<1>. HIDE DEF Y
<1>6. Cnt(Y, s) >= Cnt(open_inodes, s) + 1
  BY <1>4, <1>5
<1>7. ~Links => \A t \in DiskSector : Cnt(Y, t) = Cnt(open_inodes, t) + (IF t = s THEN 1 ELSE 0)
  <2>. SUFFICES ASSUME ~Links, NEW t \in DiskSector
                PROVE  Cnt(Y, t) = Cnt(open_inodes, t) + (IF t = s THEN 1 ELSE 0)
    OBVIOUS
  <2>1. X = open_inodes
    OBVIOUS
  <2>2. t # s => Cnt(Y, t) = Cnt(X, t)
    BY <1>4 DEF Cnt
  <2>. QED  BY <2>1, <2>2, <1>4, <1>5
<1>8. OpenResult([oi |-> Y, inode |-> s])
  BY <1>3, <1>6, <1>7 DEF OpenResult
<1>. QED  BY <1>8 DEF Y

LEMMA LookupResult ==
  ASSUME TypeOK, FilesApart, NEW n, NEW f \in dir_lookup(open_inodes, n)
  PROVE  OpenResult(f)
<1>1. Grown(open_inodes, open_inodes)
  BY GrownRefl DEF TypeOK, OpenTable
<1>2. \/ f = [oi |-> open_inodes, inode |-> Nil]
      \/ \E s \in DiskSector : HasEntry(s) /\ f = [oi |-> Opened(open_inodes, s), inode |-> s]
  BY LookupIs
<1>. QED  BY <1>1, <1>2, NothingFound, InodeFound

(* Only filesys_symlink() makes links. *)
LEMMA LinkMade ==
  ASSUME TypeOK, FilesApart, OpenOK(open_inodes), NoLinks,
         NEW n, NEW f \in dir_lookup(open_inodes, n), IsLink(f)
  PROVE  Links
<1>1. f.inode # Nil /\ f.oi[f.inode].data.link
  BY DEF IsLink
<1>2. OpenResult(f)
  BY LookupResult
<1>3. f.inode \in DiskSector /\ HasEntry(f.inode) /\ disk_inode[f.inode] \in InodeData
  BY <1>1, <1>2, NamedHasInode DEF OpenResult, Live
<1>4. Cnt(f.oi, f.inode) >= Cnt(open_inodes, f.inode) + 1 /\ Cnt(open_inodes, f.inode) \in Nat
  BY <1>1, <1>2, <1>3, CntNat DEF OpenResult, TypeOK, OpenTable
<1>5. f.oi[f.inode] # Nil
  BY <1>4 DEF Cnt
<1>6. f.oi[f.inode].data = disk_inode[f.inode]
  BY <1>2, <1>3, <1>5 DEF OpenResult, Grown, OpenOK
<1>. QED  BY <1>1, <1>3, <1>6, NilApart DEF NoLinks

(* A file that is opened, following at most one link, is one with an entry, *)
(* and one reference to it is added; only links leave others behind.        *)
LEMMA OpenIs ==
  ASSUME TypeOK, FilesApart, SystemFiles, OpenOK(open_inodes), NoLinks, NEW n, NEW g \in filesys_open(n)
  PROVE  OpenResult(g)
<1>0. open_inodes \in OpenTable /\ Grown(open_inodes, open_inodes)
  BY GrownRefl DEF TypeOK, OpenTable
<1>1. PICK f \in dir_lookup(open_inodes, n) :
        g \in UNION {FileOpen(e) : e \in IF IsLink(f) THEN FollowLink(f) ELSE {f}}
  BY DEF filesys_open
<1>2. PICK e \in (IF IsLink(f) THEN FollowLink(f) ELSE {f}) : g \in FileOpen(e)
  BY <1>1
<1>3. \/ f = [oi |-> open_inodes, inode |-> Nil]
      \/ \E s \in DiskSector : HasEntry(s) /\ f = [oi |-> Opened(open_inodes, s), inode |-> s]
  BY LookupIs
<1>4. OpenResult(f)
  BY LookupResult
<1>5. ASSUME IsLink(f) PROVE Links
  BY <1>5, LinkMade
<1>6. PICK X : /\ Grown(open_inodes, X) /\ (Links \/ X = open_inodes)
               /\ \/ e = [oi |-> X, inode |-> Nil]
                  \/ \E s \in DiskSector : HasEntry(s) /\ e = [oi |-> Opened(X, s), inode |-> s]
  <2>1. CASE ~IsLink(f)
    BY <2>1, <1>0, <1>2, <1>3
  <2>2. CASE IsLink(f)
    <3>1. Links /\ Grown(open_inodes, f.oi)
      BY <2>2, <1>4, <1>5 DEF OpenResult
    <3>2. PICK d \in UNION {dir_lookup(f.oi, t) : t \in link_target(f.oi[f.inode].data)} :
            e = IF d.inode = Nil THEN [oi |-> Opened(d.oi, ROOT_DIR_SECTOR), inode |-> Nil] ELSE d
      BY <2>2, <1>2 DEF FollowLink
    <3>3. PICK t : d \in dir_lookup(f.oi, t)
      BY <3>2
    <3>4. \/ d = [oi |-> f.oi, inode |-> Nil]
          \/ \E s \in DiskSector : HasEntry(s) /\ d = [oi |-> Opened(f.oi, s), inode |-> s]
      BY <3>3, LookupIs
    <3>5. CASE d = [oi |-> f.oi, inode |-> Nil]
      <4>1. e = [oi |-> Opened(f.oi, ROOT_DIR_SECTOR), inode |-> Nil]
        BY <3>2, <3>5
      <4>2. disk_inode[ROOT_DIR_SECTOR] \in InodeData
        BY SystemSectors, NamedHasInode DEF Live
      <4>3. Grown(open_inodes, Opened(f.oi, ROOT_DIR_SECTOR))
        BY <3>1, <4>2, <1>0, SystemSectors, GrownOpened
      <4>. QED  BY <3>1, <4>1, <4>3
    <3>6. CASE \E s \in DiskSector : HasEntry(s) /\ d = [oi |-> Opened(f.oi, s), inode |-> s]
      <4>1. e = d
        BY SMTT(30), <3>2, <3>6, NilApart
      <4>. QED  BY Zenon, <3>1, <3>6, <4>1
    <3>. QED  BY <3>4, <3>5, <3>6
  <2>. QED  BY <2>1, <2>2
<1>7. CASE g = e
  BY <1>6, <1>7, NothingFound, InodeFound
<1>8. CASE e.inode # Nil /\ g = [oi |-> Closed(e.oi, e.inode), inode |-> Nil]
  <2>1. PICK s \in DiskSector : HasEntry(s) /\ e = [oi |-> Opened(X, s), inode |-> s]
    BY SMTT(30), <1>6, <1>8
  <2>2. disk_inode[s] \in InodeData /\ X \in OpenTable
    BY <2>1, <1>6, NamedHasInode DEF Live, Grown
  <2>3. Closed(e.oi, e.inode) = X
    BY <2>1, <2>2, OpenedClosed
  <2>. QED  BY <2>3, <1>6, <1>8, NothingFound
<1>. QED  BY <1>2, <1>7, <1>8 DEF FileOpen

-----------------------------------------------------------------------------
(* Files keep their sectors.                                               *)

LEMMA KeepFiles ==
  ASSUME FilesApart,
         \A s \in DiskSector : Live(s)' =>
           /\ Live(s) /\ disk_inode'[s] # Nil
           /\ FileBlocks(s)' = FileBlocks(s) /\ DataBlocks(s)' = DataBlocks(s)
           /\ FileBlocks(s) \subseteq free_map'
  PROVE  FilesApart'
  BY DEF FilesApart

(* A change of the table that opens only live files. *)
LEMMA TableFiles ==
  ASSUME FilesApart, SystemFiles, MapOnDisk, EntriesOK',
         UNCHANGED <<map_file, disk_inode, free_map>>,
         \A s \in DiskSector : HasEntry(s)' => HasEntry(s),
         \A s \in DiskSector : open_inodes'[s] # Nil =>
           /\ Live(s)
           /\ open_inodes'[s].data = disk_inode[s]
           /\ open_inodes'[s].removed =>
                ~HasEntry(s)' /\ s \notin {FREE_MAP_SECTOR, ROOT_DIR_SECTOR}
  PROVE  FilesOK'
<1>1. \A s \in DiskSector : Live(s)' => Live(s)
  BY DEF Live
<1>2. \A s \in DiskSector : FileBlocks(s)' = FileBlocks(s) /\ DataBlocks(s)' = DataBlocks(s)
  BY Zenon DEF FileBlocks, DataBlocks, Blocks
<1>3. FilesApart'
  BY Zenon, <1>1, <1>2, KeepFiles DEF FilesApart
<1>. QED  BY Zenon, <1>3 DEF FilesOK, SystemFiles, MapOnDisk, OpenOK

LEMMA SameEntries ==
  ASSUME UNCHANGED entry
  PROVE  /\ EntriesOK => EntriesOK'
         /\ \A s : HasEntry(s)' <=> HasEntry(s)
  BY Zenon DEF EntriesOK, HasEntry, NamedBy

LEMMA GrownFiles ==
  ASSUME TypeOK, FilesOK, Grown(open_inodes, open_inodes'), UNCHANGED <<disk, free_map>>
  PROVE  FilesOK'
<1>1. UNCHANGED <<map_file, disk_inode, entry, free_map>>
  BY DEF disk
<1>2. \A s \in DiskSector : open_inodes'[s] # Nil =>
           /\ Live(s)
           /\ open_inodes'[s].data = disk_inode[s]
           /\ open_inodes'[s].removed =>
                ~HasEntry(s)' /\ s \notin {FREE_MAP_SECTOR, ROOT_DIR_SECTOR}
  <2>. SUFFICES ASSUME NEW s \in DiskSector, open_inodes'[s] # Nil
                PROVE  /\ Live(s)
                       /\ open_inodes'[s].data = disk_inode[s]
                       /\ open_inodes'[s].removed =>
                            ~HasEntry(s)' /\ s \notin {FREE_MAP_SECTOR, ROOT_DIR_SECTOR}
    OBVIOUS
  <2>1. HasEntry(s)' <=> HasEntry(s)
    BY Zenon, <1>1, SameEntries
  <2>2. CASE open_inodes[s] # Nil
    BY Zenon, <2>1, <2>2 DEF FilesOK, OpenOK, Grown, Live
  <2>3. CASE open_inodes[s] = Nil
    BY <2>1, <2>3 DEF Grown, Live
  <2>. QED  BY <2>2, <2>3
<1>. QED  BY <1>1, <1>2, SameEntries, TableFiles DEF FilesOK

HoldsBlocks == {"inode_create", "undo", "write_inode", "zero", "dir_add"} \cup Releasing

LEMMA NoCallBlocks ==
  ASSUME pc' \notin HoldsBlocks \cup {"erase", "set_symlink"}
  PROVE  CallApart'
  BY Zenon DEF CallApart, CallBlocks, HoldsBlocks, Releasing

\* The table oi, whose inode of sector s is about to be closed, as the
\* directory now stands.
Closable(oi) ==
  /\ oi \in OpenTable
  /\ \A t \in DiskSector : oi[t] # Nil =>
       /\ open_inodes[t] # Nil
       /\ oi[t].data = disk_inode[t]
       /\ oi[t].removed => ~HasEntry(t)' /\ t \notin {FREE_MAP_SECTOR, ROOT_DIR_SECTOR}

(* inode_close(): when it was the last opener of a removed file, nothing   *)
(* refers to its sectors any more and it is about to release them.         *)
LEMMA ClosingFiles ==
  ASSUME TypeOK, FilesOK, EntriesOK', NEW oi, Closable(oi), NEW s \in DiskSector, oi[s] # Nil,
         NEW next \in {"idle", "dir_close"}, CloseThen(oi, s, next), call \in CallRecord,
         UNCHANGED <<map_file, disk_inode, free_map>>,
         \A t \in DiskSector : HasEntry(t)' => HasEntry(t)
  PROVE  FilesOK' /\ CallApart'
<1>1. /\ open_inodes' \in OpenTable
      /\ \A t \in DiskSector \ {s} : open_inodes'[t] = oi[t]
      /\ LastOpener(oi, s) <=> open_inodes'[s] = Nil
      /\ open_inodes'[s] # Nil => open_inodes'[s] = [oi[s] EXCEPT !.open_cnt = @ - 1]
  BY SMTT(30), ClosedIs DEF CloseThen, Closable
<1>2. oi[s] \in OpenInode
  BY DEF Closable, OpenTable
<1>3. open_inodes'[s] # Nil => /\ open_inodes'[s].data = oi[s].data
                               /\ open_inodes'[s].removed = oi[s].removed
  BY <1>1, <1>2 DEF OpenInode
<1>4. \A t \in DiskSector : open_inodes'[t] # Nil =>
           /\ Live(t)
           /\ open_inodes'[t].data = disk_inode[t]
           /\ open_inodes'[t].removed =>
                ~HasEntry(t)' /\ t \notin {FREE_MAP_SECTOR, ROOT_DIR_SECTOR}
  BY Zenon, <1>1, <1>3 DEF Closable, Live
<1>5. FilesOK'
  BY <1>4, TableFiles DEF FilesOK
<1>6. CallApart'
  <2>1. CASE ~(LastOpener(oi, s) /\ oi[s].removed)
    <3>1. pc' \in {"idle", "dir_close"}
      BY <2>1 DEF CloseThen, Return
    <3>. QED  BY <3>1, NoCallBlocks DEF HoldsBlocks, Releasing
  <2>2. CASE LastOpener(oi, s) /\ oi[s].removed
    <3>1. pc' = "release_inode" /\ call'.sector = s /\ call'.start = oi[s].data.start
          /\ call'.cnt = oi[s].data.cnt
      BY Zenon, <2>2 DEF CloseThen, CallRecord
    <3>2. CallBlocks' = FileBlocks(s)
      BY <3>1 DEF CallBlocks, FileBlocks, Blocks, Closable
    <3>3. ~Live(s)' /\ Live(s)
      BY <1>1, <2>2 DEF Live, Closable
    <3>4. \A t \in DiskSector : Live(t)' => Live(t) /\ FileBlocks(t)' = FileBlocks(t)
      BY <1>4 DEF Live, FileBlocks, Blocks
    <3>5. CallBlocks' \subseteq free_map'
          /\ \A t \in DiskSector : Live(t)' => CallBlocks' \cap FileBlocks(t)' = {}
      BY <3>2, <3>3, <3>4 DEF FilesOK, FilesApart
    <3>6. call'.sector \notin Run(call'.start, call'.cnt)
      BY <3>1, <3>3 DEF FilesOK, FilesApart, DataBlocks, Closable
    <3>. QED  BY <3>1, <3>5, <3>6 DEF CallApart
  <2>. QED  BY <2>1, <2>2
<1>. QED  BY <1>5, <1>6

(* A change of the free map alone that keeps the sectors of live files. *)
LEMMA MapFiles ==
  ASSUME FilesOK, MapOnDisk', UNCHANGED <<disk_inode, entry, open_inodes>>,
         \A s \in DiskSector : Live(s) => FileBlocks(s) \subseteq free_map'
  PROVE  /\ FilesOK'
         /\ \A s \in DiskSector : (Live(s)' <=> Live(s)) /\ FileBlocks(s)' = FileBlocks(s)
<1>1. \A s \in DiskSector : /\ Live(s)' <=> Live(s)
                            /\ FileBlocks(s)' = FileBlocks(s) /\ DataBlocks(s)' = DataBlocks(s)
  BY DEF Live, HasEntry, NamedBy, FileBlocks, DataBlocks, Blocks
<1>2. FilesApart'
  BY <1>1, KeepFiles DEF FilesOK, FilesApart
<1>3. EntriesOK' /\ OpenOK(open_inodes)'
  BY SameEntries DEF FilesOK, OpenOK
<1>. QED  BY Zenon, <1>1, <1>2, <1>3 DEF FilesOK, SystemFiles

LEMMA AllocateIs ==
  ASSUME TypeOK, NEW cnt, NEW s \in DiskSector, free_map_allocate(cnt, s)
  PROVE  /\ free_map' \subseteq DiskSector /\ map_file' = free_map' /\ free_map \subseteq free_map'
         /\ Run(s, cnt) \subseteq free_map' /\ Run(s, cnt) \cap free_map = {}
  BY DEF free_map_allocate, First, Fits, TypeOK

LEMMA ReleaseIs ==
  ASSUME TypeOK, MapOnDisk, NEW s, NEW cnt, free_map_release(s, cnt)
  PROVE  /\ free_map' = free_map \ Run(s, cnt) /\ free_map' \subseteq DiskSector
         /\ map_file' \subseteq DiskSector /\ MapOnDisk'
  BY DEF free_map_release, MapOnDisk, TypeOK

LEMMA RunOne == \A s \in DiskSector : Run(s, 1) = {s}
  BY SizesAssumption DEF Run, DiskSector

LEMMA CreateAllocateBlocks ==
  ASSUME TypeOK, CallTypeOK, FilesOK, CallApart, CreateAllocate
  PROVE  FilesOK' /\ CallApart'
<1>1. CASE \E s \in DiskSector : /\ free_map_allocate(1, s) /\ pc' = "inode_create"
                                 /\ call' = [call EXCEPT !.sector = s]
  <2>1. PICK s \in DiskSector : /\ free_map_allocate(1, s) /\ pc' = "inode_create"
                                /\ call' = [call EXCEPT !.sector = s]
    BY <1>1
  <2>2. map_file' = free_map' /\ free_map \subseteq free_map' /\ s \in free_map' /\ s \notin free_map
    BY <2>1, AllocateIs, RunOne
  <2>3. UNCHANGED <<disk_inode, entry, open_inodes>> /\ MapOnDisk'
    BY <2>2 DEF CreateAllocate, MapOnDisk
  <2>4. /\ FilesOK'
        /\ \A t \in DiskSector : (Live(t)' <=> Live(t)) /\ FileBlocks(t)' = FileBlocks(t)
    BY <2>2, <2>3, MapFiles DEF FilesOK, FilesApart
  <2>5. CallBlocks' = {s}
    BY <2>1 DEF CallBlocks, CallTypeOK, CallRecord
  <2>6. \A t \in DiskSector : Live(t) => s \notin FileBlocks(t)
    BY <2>2 DEF FilesOK, FilesApart
  <2>. QED  BY <2>1, <2>2, <2>4, <2>5, <2>6 DEF CallApart
<1>2. CASE AllocateFails(1) /\ pc' = "dir_close"
  <2>1. UNCHANGED <<free_map, map_file, disk_inode, entry, open_inodes>>
    BY <1>2 DEF AllocateFails, CreateAllocate
  <2>2. FilesOK'
    BY <2>1, MapFiles DEF FilesOK, FilesApart, MapOnDisk
  <2>. QED  BY <1>2, <2>2, NoCallBlocks DEF HoldsBlocks, Releasing
<1>. QED  BY <1>1, <1>2 DEF CreateAllocate

LEMMA InodeCreateBlocks ==
  ASSUME TypeOK, CallTypeOK, FilesOK, CallApart, inode_create
  PROVE  FilesOK' /\ CallApart'
<1>0. CallBlocks = {call.sector} /\ call.sector \in free_map
      /\ \A t \in DiskSector : Live(t) => call.sector \notin FileBlocks(t)
  BY DEF inode_create, CallBlocks, CallApart
<1>1. CASE \E s \in DiskSector : /\ free_map_allocate(call.cnt, s) /\ pc' = "write_inode"
                                 /\ call' = [call EXCEPT !.start = s]
  <2>1. PICK s \in DiskSector : /\ free_map_allocate(call.cnt, s) /\ pc' = "write_inode"
                                /\ call' = [call EXCEPT !.start = s]
    BY <1>1
  <2>. DEFINE R == Run(s, call.cnt)
  <2>2. map_file' = free_map' /\ free_map \subseteq free_map' /\ R \subseteq free_map' /\ R \cap free_map = {}
    BY <2>1, AllocateIs
  <2>3. UNCHANGED <<disk_inode, entry, open_inodes>> /\ MapOnDisk'
    BY <2>2 DEF inode_create, MapOnDisk
  <2>4. /\ FilesOK'
        /\ \A t \in DiskSector : (Live(t)' <=> Live(t)) /\ FileBlocks(t)' = FileBlocks(t)
    BY <2>2, <2>3, MapFiles DEF FilesOK, FilesApart
  <2>5. call'.sector = call.sector /\ call'.start = s /\ call'.cnt = call.cnt
    BY <2>1 DEF CallTypeOK, CallRecord
  <2>6. CallBlocks' = {call.sector} \cup R
    BY <2>1, <2>5 DEF CallBlocks
  <2>7. Run(call'.start, call'.cnt) = R
    BY <2>5
  <2>. HIDE DEF R
  <2>8. \A t \in DiskSector : Live(t) => R \cap FileBlocks(t) = {}
    BY <2>2 DEF FilesOK, FilesApart
  <2>9. CallBlocks' \subseteq free_map' /\ call.sector \notin R
    BY <1>0, <2>2, <2>6
  <2>10. \A t \in DiskSector : Live(t)' => CallBlocks' \cap FileBlocks(t)' = {}
    BY Zenon, <1>0, <2>4, <2>6, <2>8
  <2>. QED  BY <2>1, <2>4, <2>5, <2>7, <2>9, <2>10 DEF CallApart
<1>2. CASE AllocateFails(call.cnt) /\ pc' = "undo" /\ UNCHANGED call
  <2>1. UNCHANGED <<free_map, map_file, disk_inode, entry, open_inodes>>
    BY Zenon, <1>2 DEF AllocateFails, inode_create
  <2>2. /\ FilesOK'
        /\ \A t \in DiskSector : (Live(t)' <=> Live(t)) /\ FileBlocks(t)' = FileBlocks(t)
    BY <2>1, MapFiles DEF FilesOK, FilesApart, MapOnDisk
  <2>3. CallBlocks' = {call.sector}
    BY <1>2 DEF CallBlocks
  <2>. QED  BY Zenon, <1>0, <1>2, <2>1, <2>2, <2>3 DEF CallApart
<1>. QED  BY <1>1, <1>2 DEF inode_create

LEMMA CreateUndoBlocks ==
  ASSUME TypeOK, CallTypeOK, FilesOK, CallApart, CreateUndo
  PROVE  FilesOK' /\ CallApart' /\ pc' = "dir_close" /\ free_map_release(call.sector, 1) /\ UNCHANGED call
<1>0. CallBlocks = {call.sector} /\ call.sector \in free_map
      /\ \A t \in DiskSector : Live(t) => call.sector \notin FileBlocks(t)
  BY DEF CreateUndo, CallBlocks, CallApart
<1>1. call.sector \in DiskSector /\ Run(call.sector, 1) = {call.sector}
  BY RunOne DEF CallTypeOK, CallRecord
<1>2. AllMarked(call.sector, 1)
  BY <1>0, <1>1 DEF AllMarked
<1>3. /\ free_map_release(call.sector, 1) /\ pc' = "dir_close" /\ UNCHANGED call
      /\ UNCHANGED <<disk_inode, entry, open_inodes>>
  BY <1>2 DEF CreateUndo
<1>4. free_map' = free_map \ {call.sector} /\ MapOnDisk'
  BY Zenon, <1>1, <1>3, ReleaseIs DEF FilesOK
<1>5. FilesOK'
  BY ZenonT(60), <1>0, <1>3, <1>4, MapFiles DEF FilesOK, FilesApart
<1>. QED  BY <1>3, <1>5, NoCallBlocks DEF HoldsBlocks, Releasing

LEMMA ReleaseInodeBlocks ==
  ASSUME TypeOK, CallTypeOK, FilesOK, CallApart, ReleaseInode
  PROVE  FilesOK' /\ CallApart' /\ pc' = "release_data" /\ free_map_release(call.sector, 1) /\ UNCHANGED call
<1>. DEFINE R == Run(call.start, call.cnt)
<1>0. CallBlocks = {call.sector} \cup R /\ call.sector \in free_map /\ R \subseteq free_map
      /\ call.sector \notin R
      /\ \A t \in DiskSector : Live(t) => call.sector \notin FileBlocks(t) /\ R \cap FileBlocks(t) = {}
  BY DEF ReleaseInode, CallBlocks, CallApart
<1>1. call.sector \in DiskSector /\ Run(call.sector, 1) = {call.sector}
  BY RunOne DEF CallTypeOK, CallRecord
<1>2. AllMarked(call.sector, 1)
  BY <1>0, <1>1 DEF AllMarked
<1>3. /\ free_map_release(call.sector, 1) /\ pc' = "release_data" /\ UNCHANGED call
      /\ UNCHANGED <<disk_inode, entry, open_inodes>>
  BY <1>2 DEF ReleaseInode
<1>4. free_map' = free_map \ {call.sector} /\ MapOnDisk'
  BY <1>1, <1>3, ReleaseIs DEF FilesOK
<1>5. /\ FilesOK'
      /\ \A t \in DiskSector : (Live(t)' <=> Live(t)) /\ FileBlocks(t)' = FileBlocks(t)
  BY <1>0, <1>3, <1>4, MapFiles DEF FilesOK, FilesApart
<1>6. CallBlocks' = R
  BY <1>3 DEF CallBlocks
<1>. HIDE DEF R
<1>7. CallBlocks' \subseteq free_map' /\ \A t \in DiskSector : Live(t)' => CallBlocks' \cap FileBlocks(t)' = {}
  BY <1>0, <1>4, <1>5, <1>6
<1>. QED  BY Zenon, <1>3, <1>5, <1>7 DEF CallApart

LEMMA ReleaseDataBlocks ==
  ASSUME TypeOK, CallTypeOK, FilesOK, CallApart, ReleaseData
  PROVE  /\ FilesOK' /\ CallApart' /\ free_map_release(call.start, call.cnt)
         /\ IF call.op = "remove" THEN pc' = "dir_close" /\ UNCHANGED call ELSE Return
<1>. DEFINE R == Run(call.start, call.cnt)
<1>0. /\ R \subseteq free_map
      /\ \A t \in DiskSector : Live(t) => R \cap FileBlocks(t) = {}
  BY DEF ReleaseData, CallBlocks, CallApart
<1>2. AllMarked(call.start, call.cnt)
  BY <1>0 DEF AllMarked
<1>3. /\ free_map_release(call.start, call.cnt)
      /\ IF call.op = "remove" THEN pc' = "dir_close" /\ UNCHANGED call ELSE Return
      /\ UNCHANGED <<disk_inode, entry, open_inodes>>
  BY <1>2 DEF ReleaseData
<1>4. free_map' = free_map \ R /\ MapOnDisk'
  BY <1>3, ReleaseIs DEF FilesOK
<1>. HIDE DEF R
<1>5. FilesOK'
  BY <1>0, <1>3, <1>4, MapFiles DEF FilesOK, FilesApart
<1>6. pc' \in {"dir_close", "idle"}
  BY <1>3 DEF Return
<1>. QED  BY <1>3, <1>5, <1>6, NoCallBlocks DEF HoldsBlocks, Releasing

(* A change of inodes on disk that are of no live file. *)
LEMMA InodeFiles ==
  ASSUME FilesOK, UNCHANGED <<map_file, free_map, entry, open_inodes>>,
         \A s \in DiskSector : Live(s) => disk_inode'[s] = disk_inode[s]
  PROVE  /\ FilesOK'
         /\ \A s \in DiskSector : /\ Live(s)' <=> Live(s)
                                  /\ Live(s) => FileBlocks(s)' = FileBlocks(s)
<1>1. \A s \in DiskSector : Live(s)' <=> Live(s)
  BY DEF Live, HasEntry, NamedBy
<1>2. \A s \in DiskSector : Live(s) => FileBlocks(s)' = FileBlocks(s) /\ DataBlocks(s)' = DataBlocks(s)
  BY DEF FileBlocks, DataBlocks, Blocks
<1>3. FilesApart'
  BY <1>1, <1>2, KeepFiles DEF FilesOK, FilesApart
<1>4. EntriesOK' /\ OpenOK(open_inodes)'
  BY SameEntries DEF FilesOK, OpenOK, Live
<1>5. SystemFiles' /\ MapOnDisk'
  BY Zenon, SystemSectors DEF FilesOK, SystemFiles, MapOnDisk, Live
<1>. QED  BY <1>1, <1>2, <1>3, <1>4, <1>5 DEF FilesOK

LEMMA CallInode ==
  ASSUME CallTypeOK
  PROVE  /\ DiskInode(call.start, call.cnt, FALSE) \in InodeData
         /\ DiskInode(call.start, call.cnt, FALSE) # Nil
         /\ call.sector \in DiskSector
<1>1. call.start \in DiskSector /\ call.cnt \in Nat /\ call.sector \in DiskSector
  BY DEF CallTypeOK, CallRecord
<1>2. DiskInode(call.start, call.cnt, FALSE) \in InodeData
  BY <1>1 DEF DiskInode, InodeData
<1>. QED  BY Zenon, <1>1, <1>2, NilApart

LEMMA WriteInodeBlocks ==
  ASSUME TypeOK, CallTypeOK, FilesOK, CallApart, WriteInode
  PROVE  FilesOK' /\ CallApart'
<1>1. /\ pc = "write_inode" /\ pc' = "zero"
      /\ disk_inode' = [disk_inode EXCEPT ![call.sector] = DiskInode(call.start, call.cnt, FALSE)]
      /\ UNCHANGED <<map_file, free_map, entry, open_inodes, call>>
  BY DEF WriteInode, memory
<1>2. /\ CallBlocks = {call.sector} \cup Run(call.start, call.cnt) /\ CallBlocks' = CallBlocks
      /\ call.sector \notin Run(call.start, call.cnt)
  BY <1>1 DEF CallBlocks, CallApart
<1>3. \A s \in DiskSector : Live(s) => s # call.sector
  BY <1>2 DEF CallApart, FileBlocks, Blocks
<1>4. /\ FilesOK'
      /\ \A s \in DiskSector : /\ Live(s)' <=> Live(s)
                               /\ Live(s) => FileBlocks(s)' = FileBlocks(s)
  BY Zenon, <1>1, <1>3, InodeFiles DEF TypeOK
<1>5. disk_inode'[call.sector] = DiskInode(call.start, call.cnt, FALSE)
  BY Zenon, <1>1, CallInode DEF TypeOK
<1>. QED  BY Zenon, <1>1, <1>2, <1>4, <1>5 DEF CallApart

LEMMA WriteZerosBlocks ==
  ASSUME TypeOK, CallTypeOK, FilesOK, CallApart, WriteZeros
  PROVE  FilesOK' /\ CallApart'
<1>1. /\ pc = "zero" /\ pc' = "dir_add"
      /\ disk_inode' = Zeroed(disk_inode, Run(call.start, call.cnt))
      /\ UNCHANGED <<map_file, free_map, entry, open_inodes, call>>
  BY DEF WriteZeros, memory
<1>2. /\ CallBlocks = {call.sector} \cup Run(call.start, call.cnt) /\ CallBlocks' = CallBlocks
      /\ call.sector \notin Run(call.start, call.cnt)
  BY <1>1 DEF CallBlocks, CallApart
<1>3. \A s \in DiskSector : Live(s) => s \notin Run(call.start, call.cnt)
  BY <1>2 DEF CallApart, FileBlocks, Blocks
<1>4. /\ FilesOK'
      /\ \A s \in DiskSector : /\ Live(s)' <=> Live(s)
                               /\ Live(s) => FileBlocks(s)' = FileBlocks(s)
  BY <1>1, <1>3, InodeFiles DEF Zeroed
<1>5. disk_inode'[call.sector] = DiskInode(call.start, call.cnt, FALSE)
  BY Zenon, <1>1, <1>2, CallInode DEF Zeroed, CallApart
<1>. QED  BY Zenon, <1>1, <1>2, <1>4, <1>5 DEF CallApart

LEMMA DirAddBlocks ==
  ASSUME TypeOK, CallTypeOK, FilesOK, CallApart, dir_add
  PROVE  FilesOK' /\ CallApart'
<1>. DEFINE R == Run(call.start, call.cnt)
<1>1. pc = "dir_add" /\ UNCHANGED <<map_file, free_map, disk_inode, open_inodes, call>>
  BY DEF dir_add, memory
<1>2. /\ {call.sector} \cup R \subseteq free_map /\ call.sector \notin R
      /\ \A s \in DiskSector : Live(s) => ({call.sector} \cup R) \cap FileBlocks(s) = {}
      /\ disk_inode[call.sector] = DiskInode(call.start, call.cnt, FALSE)
  BY Zenon, <1>1 DEF CallBlocks, CallApart
<1>. HIDE DEF R
<1>3. CASE pc' = "undo" /\ UNCHANGED entry
  <2>1. FilesOK' /\ \A s \in DiskSector : /\ Live(s)' <=> Live(s)
                                          /\ Live(s) => FileBlocks(s)' = FileBlocks(s)
    BY <1>1, <1>3, InodeFiles
  <2>2. CallBlocks' = {call.sector}
    BY <1>1, <1>3 DEF CallBlocks
  <2>. QED  BY Zenon, <1>1, <1>2, <1>3, <2>1, <2>2 DEF CallApart
<1>4. CASE pc' = "dir_close" /\ \E i \in Slot :
             entry' = [entry EXCEPT ![i] = [name |-> call.name, inode_sector |-> call.sector]]
  <2>1. PICK i \in Slot :
             entry' = [entry EXCEPT ![i] = [name |-> call.name, inode_sector |-> call.sector]]
    BY Zenon, <1>4
  <2>2. call.name \in Name /\ call.sector \in DiskSector
    BY <1>1 DEF CallTypeOK, CallRecord, Creating
  <2>3. [name |-> call.name, inode_sector |-> call.sector] \in DirEntry
    BY <2>2 DEF DirEntry
  <2>4. /\ entry'[i] # Nil /\ entry'[i].inode_sector = call.sector
        /\ \A j \in Slot \ {i} : entry'[j] = entry[j]
    BY <2>1, <2>3, NilApart DEF TypeOK
  <2>5. \A s \in DiskSector : HasEntry(s)' => HasEntry(s) \/ s = call.sector
    BY <2>1, <2>2, <2>4 DEF HasEntry, NamedBy
  <2>6. \A s \in DiskSector : Live(s)' => Live(s) \/ s = call.sector
    BY <1>1, <2>5 DEF Live
  <2>7. \A s \in DiskSector : Live(s) => s # call.sector
    BY <1>2 DEF FileBlocks, Blocks
  <2>8. FileBlocks(call.sector) = {call.sector} \cup R /\ DataBlocks(call.sector) = R
    BY <1>2 DEF FileBlocks, DataBlocks, Blocks, DiskInode, R
  <2>9. \A s \in DiskSector : FileBlocks(s)' = FileBlocks(s) /\ DataBlocks(s)' = DataBlocks(s)
    BY <1>1 DEF FileBlocks, DataBlocks, Blocks
  <2>10. FilesApart'
    <3>1. disk_inode'[call.sector] # Nil /\ free_map' = free_map /\ disk_inode' = disk_inode
      BY Zenon, <1>1, <1>2, CallInode
    <3>. SUFFICES ASSUME NEW s \in DiskSector, Live(s)'
                  PROVE  /\ disk_inode[s] # Nil
                         /\ s \notin DataBlocks(s)
                         /\ FileBlocks(s) \subseteq free_map
                         /\ \A t \in DiskSector : Live(t)' /\ t # s => FileBlocks(s) \cap FileBlocks(t) = {}
      BY <2>9, <3>1 DEF FilesApart
    <3>2. CASE s = call.sector
      BY <1>2, <2>6, <2>8, <3>1, <3>2
    <3>3. CASE Live(s)
      BY <1>2, <2>6, <2>8, <3>3 DEF FilesOK, FilesApart
    <3>. QED  BY <2>6, <3>2, <3>3
  <2>11. EntriesOK'
    <3>1. \A j \in Slot \ {i} : entry[j] # Nil => /\ entry[j].inode_sector \in DiskSector
                                                  /\ Live(entry[j].inode_sector)
      BY DEF TypeOK, DirEntry, Live, HasEntry, NamedBy
    <3>2. call.sector \notin {FREE_MAP_SECTOR, ROOT_DIR_SECTOR}
      BY <2>2, <2>7 DEF Live
    <3>. QED  BY <2>4, <2>7, <3>1, <3>2 DEF FilesOK, EntriesOK, NamedBy
  <2>12. OpenOK(open_inodes)'
    BY <1>1, <2>5, <2>7 DEF FilesOK, OpenOK, Live
  <2>13. FilesOK'
    BY Zenon, <1>1, <2>10, <2>11, <2>12 DEF FilesOK, SystemFiles, MapOnDisk
  <2>. QED  BY <1>4, <2>13, NoCallBlocks DEF HoldsBlocks, Releasing
<1>. QED  BY <1>3, <1>4 DEF dir_add

-----------------------------------------------------------------------------
(* Counting the files that are open on an inode.                           *)

\* What the proofs use of counting; that it holds is shown last.
CountFacts ==
  /\ Cardinality({}) = 0
  /\ \A S \in SUBSET Handle :
       /\ Cardinality(S) \in Nat
       /\ Cardinality(S) = 0 => S = {}
       /\ \A h \in Handle \ S : Cardinality(S \cup {h}) = Cardinality(S) + 1
       /\ \A h \in S : Cardinality(S \ {h}) = Cardinality(S) - 1
       /\ \A T \in SUBSET S : Cardinality(T) <= Cardinality(S)

LEMMA Counting ==
  ASSUME CountFacts, NEW S \in SUBSET Handle
  PROVE  /\ Cardinality(S) \in Nat
         /\ Cardinality(S) = 0 => S = {}
         /\ \A h \in Handle \ S : Cardinality(S \cup {h}) = Cardinality(S) + 1
         /\ \A h \in S : Cardinality(S \ {h}) = Cardinality(S) - 1
         /\ \A T \in SUBSET S : Cardinality(T) <= Cardinality(S)
  BY Zenon DEF CountFacts

LEMMA CountingNone == CountFacts => Cardinality({}) = 0
  BY Zenon DEF CountFacts

LEMMA OpenersCount ==
  ASSUME CountFacts
  PROVE  \A s : /\ Openers(s) \in SUBSET Handle /\ Deniers(s) \in SUBSET Openers(s)
                /\ Cardinality(Openers(s)) \in Nat /\ Cardinality(Deniers(s)) \in Nat
                /\ Cardinality(Deniers(s)) <= Cardinality(Openers(s))
<1>. SUFFICES ASSUME NEW s
              PROVE  /\ Openers(s) \in SUBSET Handle /\ Deniers(s) \in SUBSET Openers(s)
                     /\ Cardinality(Openers(s)) \in Nat /\ Cardinality(Deniers(s)) \in Nat
                     /\ Cardinality(Deniers(s)) <= Cardinality(Openers(s))
  OBVIOUS
<1>1. Openers(s) \in SUBSET Handle /\ Deniers(s) \in SUBSET Openers(s)
  BY DEF Openers, Deniers
<1>2. Deniers(s) \in SUBSET Handle
  BY <1>1
<1>. QED  BY <1>1, <1>2, Counting

LEMMA FileAdded ==
  ASSUME CountFacts, TypeOK, NEW h \in Handle, file[h] = Nil, NEW s \in DiskSector,
         file' = [file EXCEPT ![h] = [inode |-> s, deny_write |-> FALSE]]
  PROVE  /\ file' \in [Handle -> File \cup {Nil}]
         /\ \A t : /\ Cardinality(Openers(t)') = Cardinality(Openers(t)) + (IF t = s THEN 1 ELSE 0)
                   /\ Deniers(t)' = Deniers(t)
<1>1. [inode |-> s, deny_write |-> FALSE] \in File
  BY DEF File
<1>2. file' \in [Handle -> File \cup {Nil}] /\ [inode |-> s, deny_write |-> FALSE] # Nil
  BY Zenon, <1>1, NilApart DEF TypeOK
<1>3. \A t : /\ Openers(t)' = IF t = s THEN Openers(t) \cup {h} ELSE Openers(t)
             /\ Deniers(t)' = Deniers(t)
             /\ h \notin Openers(t)
  BY <1>2 DEF Openers, Deniers, TypeOK
<1>. QED  BY <1>2, <1>3, OpenersCount, Counting

LEMMA FileDropped ==
  ASSUME CountFacts, TypeOK, NEW h \in Handle, file[h] # Nil, file' = [file EXCEPT ![h] = Nil]
  PROVE  /\ file' \in [Handle -> File \cup {Nil}]
         /\ \A t : /\ Cardinality(Openers(t)') =
                        Cardinality(Openers(t)) - (IF t = file[h].inode THEN 1 ELSE 0)
                   /\ Cardinality(Deniers(t)') =
                        Cardinality(Deniers(t)) - (IF t = file[h].inode /\ file[h].deny_write
                                                   THEN 1 ELSE 0)
<1>1. file' \in [Handle -> File \cup {Nil}]
  BY DEF TypeOK
<1>2. \A t : /\ Openers(t)' = IF t = file[h].inode THEN Openers(t) \ {h} ELSE Openers(t)
             /\ Deniers(t)' = IF t = file[h].inode /\ file[h].deny_write
                              THEN Deniers(t) \ {h} ELSE Deniers(t)
             /\ t = file[h].inode => h \in Openers(t)
             /\ t = file[h].inode /\ file[h].deny_write => h \in Deniers(t)
  BY DEF Openers, Deniers, TypeOK
<1>3. \A t : Openers(t) \in SUBSET Handle /\ Deniers(t) \in SUBSET Handle
  BY DEF Openers, Deniers
<1>. QED  BY <1>1, <1>2, <1>3, OpenersCount, Counting

LEMMA FileDenies ==
  ASSUME CountFacts, TypeOK, NEW h \in Handle, file[h] # Nil, NEW b \in BOOLEAN, file[h].deny_write = ~b,
         file' = [file EXCEPT ![h].deny_write = b]
  PROVE  /\ file' \in [Handle -> File \cup {Nil}]
         /\ \A t : /\ Openers(t)' = Openers(t)
                   /\ Cardinality(Deniers(t)') =
                        Cardinality(Deniers(t)) + (IF t = file[h].inode THEN IF b THEN 1 ELSE -1 ELSE 0)
<1>1. file[h] \in File /\ [file[h] EXCEPT !.deny_write = b] \in File
  BY DEF TypeOK, File
<1>2. file' = [file EXCEPT ![h] = [file[h] EXCEPT !.deny_write = b]]
  OBVIOUS
<1>3. file' \in [Handle -> File \cup {Nil}] /\ [file[h] EXCEPT !.deny_write = b] # Nil
  BY <1>1, <1>2, NilApart DEF TypeOK
<1>4. [file[h] EXCEPT !.deny_write = b].inode = file[h].inode
      /\ [file[h] EXCEPT !.deny_write = b].deny_write = b
  BY <1>1 DEF File
<1>5. /\ file'[h] # Nil /\ file'[h].inode = file[h].inode /\ file'[h].deny_write = b
      /\ \A g \in Handle \ {h} : file'[g] = file[g]
  BY <1>2, <1>3, <1>4 DEF TypeOK
<1>6. \A t : /\ Openers(t)' = Openers(t)
             /\ Deniers(t)' = IF t = file[h].inode
                              THEN IF b THEN Deniers(t) \cup {h} ELSE Deniers(t) \ {h}
                              ELSE Deniers(t)
             /\ t = file[h].inode => (h \in Deniers(t) <=> ~b)
  BY ZenonT(60), <1>5 DEF Openers, Deniers
<1>7. \A t : Deniers(t) \in SUBSET Handle
  BY DEF Deniers
<1>. QED  BY <1>3, <1>6, <1>7, OpenersCount, Counting

-----------------------------------------------------------------------------
(* References are counted.                                                 *)

LEMMA ExtraNat == \A s : Extra(s) \in Nat
  BY DEF Extra

LEMMA Referred ==
  ASSUME CountFacts, TypeOK, Counted, NEW s \in DiskSector,
         \/ s = FREE_MAP_SECTOR \/ (s = ROOT_DIR_SECTOR /\ RootOpen) \/ InCall(s)
         \/ \E h \in Handle : file[h] # Nil /\ file[h].inode = s
  PROVE  open_inodes[s] # Nil
<1>1. Cnt(open_inodes, s) >= Cardinality(Openers(s)) + Extra(s)
  BY DEF Counted
<1>2. Cardinality(Openers(s)) \in Nat /\ Extra(s) \in Nat
  BY OpenersCount, ExtraNat
<1>3. Cardinality(Openers(s)) + Extra(s) > 0
  <2>1. CASE s = FREE_MAP_SECTOR \/ (s = ROOT_DIR_SECTOR /\ RootOpen) \/ InCall(s)
    <3>1. Extra(s) > 0
      BY <2>1 DEF Extra
    <3>. QED  BY <3>1, <1>2
  <2>2. CASE \E h \in Handle : file[h] # Nil /\ file[h].inode = s
    <3>1. Openers(s) # {} /\ Openers(s) \in SUBSET Handle
      BY <2>2 DEF Openers
    <3>2. Cardinality(Openers(s)) # 0
      BY <3>1, Counting
    <3>. QED  BY <3>2, <1>2
  <2>. QED  BY <2>1, <2>2
<1>. QED  BY <1>1, <1>2, <1>3 DEF Cnt

LEMMA DenyIs ==
  DenyWriteExact <=> \A s \in DiskSector : open_inodes[s] # Nil =>
                        open_inodes[s].deny_write_cnt = Cardinality(Deniers(s))
  BY DEF DenyWriteExact, Deniers

LEMMA DenyIsPrime ==
  ASSUME \A s \in DiskSector : open_inodes'[s] # Nil =>
           open_inodes'[s].deny_write_cnt = Cardinality(Deniers(s)')
  PROVE  DenyWriteExact'
  BY DEF DenyWriteExact, Deniers

LEMMA ClosedNotDenied ==
  ASSUME CountFacts, TypeOK, Counted, NEW s \in DiskSector, open_inodes[s] = Nil
  PROVE  Cardinality(Deniers(s)) = 0
<1>1. Cnt(open_inodes, s) = 0
  BY DEF Cnt
<1>2. 0 >= Cardinality(Openers(s)) + Extra(s)
  BY <1>1 DEF Counted
<1>. QED  BY <1>2, OpenersCount, ExtraNat

LEMMA GrownDeny ==
  ASSUME CountFacts, TypeOK, Counted, DenyWriteExact, Grown(open_inodes, open_inodes'),
         \A s : Deniers(s)' = Deniers(s)
  PROVE  DenyWriteExact'
<1>. SUFFICES ASSUME NEW s \in DiskSector, open_inodes'[s] # Nil
              PROVE  open_inodes'[s].deny_write_cnt = Cardinality(Deniers(s))
  BY DenyIsPrime
<1>1. CASE open_inodes[s] # Nil
  BY <1>1, DenyIs DEF Grown
<1>2. CASE open_inodes[s] = Nil
  BY Zenon, <1>2, ClosedNotDenied DEF Grown
<1>. QED  BY <1>1, <1>2

(* A step that leaves the table and the files as they are. *)
LEMMA SameCounts ==
  ASSUME Counted, DenyWriteExact, UNCHANGED <<open_inodes, file, setting>>,
         RootOpen' <=> RootOpen, \A s \in DiskSector : InCall(s)' <=> InCall(s)
  PROVE  Counted' /\ DenyWriteExact'
<1>1. \A s \in DiskSector : /\ Openers(s)' = Openers(s) /\ Extra(s)' = Extra(s)
                            /\ Cnt(open_inodes', s) = Cnt(open_inodes, s)
  BY DEF Openers, Extra, Cnt
<1>2. Links' <=> Links
  BY DEF Links
<1>. QED  BY Zenon, <1>1, <1>2 DEF Counted, DenyWriteExact

(* The root directory is opened, and the call refers to it. *)
LEMMA RootOpened ==
  ASSUME CountFacts, TypeOK, FilesOK, Counted, DenyWriteExact, UNCHANGED <<disk, free_map, file, setting>>,
         open_inodes' = Opened(open_inodes, ROOT_DIR_SECTOR),
         ~RootOpen, RootOpen', \A s \in DiskSector : ~InCall(s) /\ ~InCall(s)'
  PROVE  FilesOK' /\ Counted' /\ DenyWriteExact' /\ open_inodes' \in OpenTable
<1>1. open_inodes \in OpenTable /\ disk_inode[ROOT_DIR_SECTOR] \in InodeData
  BY Zenon, SystemSectors, NamedHasInode DEF TypeOK, OpenTable, FilesOK, Live
<1>2. Grown(open_inodes, open_inodes')
  BY <1>1, SystemSectors, GrownRefl, GrownOpened
<1>3. \A s : Openers(s)' = Openers(s) /\ Deniers(s)' = Deniers(s)
  BY DEF Openers, Deniers
<1>4. FilesOK' /\ DenyWriteExact' /\ open_inodes' \in OpenTable
  BY Zenon, <1>2, <1>3, GrownFiles, GrownDeny DEF Grown
<1>5. \A s \in DiskSector : Cnt(open_inodes', s) = Cnt(open_inodes, s) + (IF s = ROOT_DIR_SECTOR THEN 1 ELSE 0)
  <2>1. /\ Cnt(open_inodes', ROOT_DIR_SECTOR) = Cnt(open_inodes, ROOT_DIR_SECTOR) + 1
        /\ \A t \in DiskSector \ {ROOT_DIR_SECTOR} : open_inodes'[t] = open_inodes[t]
    <3>. DEFINE oj == Opened(open_inodes, ROOT_DIR_SECTOR)
    <3>1. /\ Cnt(oj, ROOT_DIR_SECTOR) = Cnt(open_inodes, ROOT_DIR_SECTOR) + 1
          /\ \A t \in DiskSector \ {ROOT_DIR_SECTOR} : oj[t] = open_inodes[t]
      BY Zenon, <1>1, SystemSectors, OpenedIs
    <3>2. open_inodes' = oj
      OBVIOUS
    <3>. QED  BY <3>1, <3>2 
  <2>. QED  BY <1>1, <2>1, CntNat DEF Cnt
<1>6. \A s \in DiskSector : Extra(s)' = Extra(s) + (IF s = ROOT_DIR_SECTOR THEN 1 ELSE 0)
  BY DEF Extra
<1>7. Links' <=> Links
  BY DEF Links
<1>8. \A s \in DiskSector : Cnt(open_inodes, s) \in Nat /\ Cardinality(Openers(s)) \in Nat /\ Extra(s) \in Nat
  BY <1>1, CntNat, OpenersCount, ExtraNat
<1>9. Counted'
  BY <1>3, <1>5, <1>6, <1>7, <1>8 DEF Counted
<1>. QED  BY <1>4, <1>9

-----------------------------------------------------------------------------
(* Every action keeps the invariant.                                       *)

LEMMA SameNames ==
  ASSUME ~MemoryFails => NamesUnique, UNCHANGED <<entry, setting>>
  PROVE  ~MemoryFails' => NamesUnique'
  BY DEF MemoryFails, NamesUnique, Used

LEMMA SameLinks ==
  ASSUME NoLinks, UNCHANGED <<disk_inode, setting>>, pc' # "panic" \/ Links
  PROVE  NoLinks'
  BY DEF NoLinks, Links

LEMMA NoCallTyped == NoCall \in CallRecord /\ NoCall.op = "none"
<1>1. 0 \in DiskSector
  BY SizesAssumption DEF DiskSector
<1>. QED  BY <1>1 DEF NoCall, CallRecord

LEMMA CreateInv ==
  ASSUME CountFacts, IInv, NEW n \in Name, NEW cnt \in Nat, filesys_create(n, cnt), UNCHANGED setting
  PROVE  IInv'
<1>1. /\ pc = "idle" /\ pc' = "allocate" /\ UNCHANGED <<disk, free_map, file, setting>>
      /\ open_inodes' = Opened(open_inodes, ROOT_DIR_SECTOR)
      /\ call' = [NoCall EXCEPT !.op = "create", !.name = n, !.cnt = cnt]
  BY DEF filesys_create, MayCall
<1>2. /\ ~RootOpen /\ RootOpen' /\ \A s \in DiskSector : ~InCall(s) /\ ~InCall(s)'
  BY <1>1 DEF RootOpen, InCall, Creating, Releasing
<1>3. FilesOK' /\ Counted' /\ DenyWriteExact' /\ open_inodes' \in OpenTable
  BY <1>1, <1>2, RootOpened DEF IInv
<1>4. UNCHANGED <<map_file, disk_inode, entry, content>>
  BY <1>1 DEF disk
<1>5. TypeOK'
  BY <1>1, <1>3, <1>4 DEF IInv, TypeOK, OpenTable
<1>6. CallTypeOK'
  <2>1. call' \in CallRecord /\ call'.op = "create" /\ call'.name = n
    BY Zenon, <1>1, NoCallTyped DEF CallRecord
  <2>. QED  BY <1>1, <2>1 DEF CallTypeOK, Creating, Linking
<1>7. CallApart'
  BY <1>1, NoCallBlocks DEF HoldsBlocks, Releasing
<1>8. NoLinks' /\ (~MemoryFails' => NamesUnique')
  BY <1>1, <1>4, SameLinks, SameNames DEF IInv
<1>. QED  BY <1>3, <1>5, <1>6, <1>7, <1>8 DEF IInv

(* The steps of filesys_create() and inode_close() that leave the table of *)
(* open inodes and the files as they are.                                  *)
LEMMA QuietInv ==
  ASSUME IInv, UNCHANGED <<open_inodes, file, setting>>,
         RootOpen' <=> RootOpen, \A s \in DiskSector : ~InCall(s) /\ ~InCall(s)',
         FilesOK', CallApart', CallTypeOK', NoLinks', ~MemoryFails' => NamesUnique',
         map_file' \subseteq DiskSector, free_map' \subseteq DiskSector,
         disk_inode' \in [DiskSector -> InodeData \cup {Nil}],
         entry' \in [Slot -> DirEntry \cup {Nil}],
         content' \in [DiskSector -> Name \cup {Nil}]
  PROVE  IInv'
<1>1. Counted' /\ DenyWriteExact'
  BY SameCounts DEF IInv
<1>2. TypeOK'
  BY ZenonT(60) DEF IInv, TypeOK
<1>. QED  BY <1>1, <1>2 DEF IInv

LEMMA CreateAllocateInv ==
  ASSUME IInv, CreateAllocate, UNCHANGED setting
  PROVE  IInv'
<1>1. /\ pc = "allocate" /\ pc' \in {"inode_create", "dir_close"}
      /\ UNCHANGED <<disk_inode, entry, content, open_inodes, file>>
  BY DEF CreateAllocate
<1>2. FilesOK' /\ CallApart'
  BY CreateAllocateBlocks DEF IInv
<1>3. (RootOpen' <=> RootOpen) /\ \A s \in DiskSector : ~InCall(s) /\ ~InCall(s)'
  BY <1>1 DEF RootOpen, InCall, Creating
<1>4. map_file' \subseteq DiskSector /\ free_map' \subseteq DiskSector
  BY Zenon, AllocateIs DEF CreateAllocate, AllocateFails, IInv, TypeOK
<1>5. CallTypeOK'
  <2>1. call' \in CallRecord /\ call'.op = call.op /\ call'.name = call.name /\ call'.target = call.target
    BY DEF CreateAllocate, IInv, CallTypeOK, CallRecord
  <2>. QED  BY <1>1, <2>1 DEF CallTypeOK, Creating, Linking, IInv, Links
<1>6. NoLinks' /\ (~MemoryFails' => NamesUnique')
  BY Zenon, <1>1, SameLinks, SameNames DEF IInv
<1>. QED  BY Zenon, <1>1, <1>2, <1>3, <1>4, <1>5, <1>6, QuietInv DEF IInv, TypeOK

LEMMA InodeCreateInv ==
  ASSUME IInv, inode_create, UNCHANGED setting
  PROVE  IInv'
<1>1. /\ pc = "inode_create" /\ pc' \in {"write_inode", "undo"}
      /\ UNCHANGED <<disk_inode, entry, content, open_inodes, file>>
  BY DEF inode_create
<1>2. FilesOK' /\ CallApart'
  BY InodeCreateBlocks DEF IInv
<1>3. (RootOpen' <=> RootOpen) /\ \A s \in DiskSector : ~InCall(s) /\ ~InCall(s)'
  BY <1>1 DEF RootOpen, InCall, Creating
<1>4. map_file' \subseteq DiskSector /\ free_map' \subseteq DiskSector
  BY AllocateIs DEF inode_create, AllocateFails, IInv, TypeOK
<1>5. CallTypeOK'
  <2>1. call' \in CallRecord /\ call'.op = call.op /\ call'.name = call.name /\ call'.target = call.target
    BY DEF inode_create, IInv, CallTypeOK, CallRecord
  <2>. QED  BY <1>1, <2>1 DEF CallTypeOK, Creating, Linking, IInv, Links
<1>6. NoLinks' /\ (~MemoryFails' => NamesUnique')
  BY <1>1, SameLinks, SameNames DEF IInv
<1>. QED  BY Zenon, <1>1, <1>2, <1>3, <1>4, <1>5, <1>6, QuietInv DEF IInv, TypeOK

LEMMA WriteInodeInv ==
  ASSUME IInv, WriteInode, UNCHANGED setting
  PROVE  IInv'
<1>1. /\ pc = "write_inode" /\ pc' = "zero"
      /\ disk_inode' = [disk_inode EXCEPT ![call.sector] = DiskInode(call.start, call.cnt, FALSE)]
      /\ content' = [content EXCEPT ![call.sector] = Nil]
      /\ UNCHANGED <<map_file, entry, free_map, open_inodes, file, call>>
  BY DEF WriteInode, memory
<1>2. FilesOK' /\ CallApart'
  BY WriteInodeBlocks DEF IInv
<1>3. (RootOpen' <=> RootOpen) /\ \A s \in DiskSector : ~InCall(s) /\ ~InCall(s)'
  BY <1>1 DEF RootOpen, InCall, Creating
<1>4. disk_inode' \in [DiskSector -> InodeData \cup {Nil}] /\ content' \in [DiskSector -> Name \cup {Nil}]
  BY ZenonT(60), <1>1, CallInode DEF IInv, TypeOK
<1>5. CallTypeOK'
  BY Zenon, <1>1 DEF CallTypeOK, Creating, Linking, IInv, Links
<1>6. ~MemoryFails' => NamesUnique'
  BY <1>1, SameNames DEF IInv
<1>7. NoLinks'
  <2>1. ~DiskInode(call.start, call.cnt, FALSE).link
    BY Zenon DEF DiskInode
  <2>. QED  BY Zenon, <1>1, <2>1 DEF NoLinks, Links, IInv, TypeOK
<1>. QED  BY Zenon, <1>1, <1>2, <1>3, <1>4, <1>5, <1>6, <1>7, QuietInv DEF IInv, TypeOK

LEMMA WriteZerosInv ==
  ASSUME IInv, WriteZeros, UNCHANGED setting
  PROVE  IInv'
<1>1. /\ pc = "zero" /\ pc' = "dir_add"
      /\ disk_inode' = Zeroed(disk_inode, Run(call.start, call.cnt))
      /\ content' = Zeroed(content, Run(call.start, call.cnt))
      /\ UNCHANGED <<map_file, entry, free_map, open_inodes, file, call>>
  BY DEF WriteZeros, memory
<1>2. FilesOK' /\ CallApart'
  BY WriteZerosBlocks DEF IInv
<1>3. (RootOpen' <=> RootOpen) /\ \A s \in DiskSector : ~InCall(s) /\ ~InCall(s)'
  BY <1>1 DEF RootOpen, InCall, Creating
<1>4. disk_inode' \in [DiskSector -> InodeData \cup {Nil}] /\ content' \in [DiskSector -> Name \cup {Nil}]
  BY <1>1 DEF IInv, TypeOK, Zeroed
<1>5. CallTypeOK'
  BY Zenon, <1>1 DEF CallTypeOK, Creating, Linking, IInv, Links
<1>6. ~MemoryFails' => NamesUnique'
  BY <1>1, SameNames DEF IInv
<1>7. NoLinks'
  BY <1>1 DEF NoLinks, Links, IInv, TypeOK, Zeroed
<1>. QED  BY Zenon, <1>1, <1>2, <1>3, <1>4, <1>5, <1>6, <1>7, QuietInv DEF IInv, TypeOK

LEMMA DirAddInv ==
  ASSUME IInv, dir_add, UNCHANGED setting
  PROVE  IInv'
<1>1. /\ pc = "dir_add" /\ pc' \in {"undo", "dir_close"}
      /\ UNCHANGED <<map_file, disk_inode, content, free_map, open_inodes, file, call>>
  BY DEF dir_add, memory
<1>2. FilesOK' /\ CallApart'
  BY DirAddBlocks DEF IInv
<1>3. (RootOpen' <=> RootOpen) /\ \A s \in DiskSector : ~InCall(s) /\ ~InCall(s)'
  BY <1>1 DEF RootOpen, InCall, Creating
<1>4. [name |-> call.name, inode_sector |-> call.sector] \in DirEntry /\ call.name \in Name
  BY Zenon, <1>1 DEF IInv, CallTypeOK, CallRecord, Creating, DirEntry
<1>5. CASE UNCHANGED entry
  <2>1. CallTypeOK'
    BY <1>1 DEF CallTypeOK, Creating, Linking, IInv, Links
  <2>2. NoLinks' /\ (~MemoryFails' => NamesUnique')
    BY <1>1, <1>5, SameLinks, SameNames DEF IInv
  <2>. QED  BY Zenon, <1>1, <1>2, <1>3, <1>5, <2>1, <2>2, QuietInv DEF IInv, TypeOK
<1>6. CASE \E reach \in Reach : /\ Named(call.name, reach) = {}
             /\ \E i \in Slot : entry' = [entry EXCEPT ![i] =
                  [name |-> call.name, inode_sector |-> call.sector]]
  <2>1. PICK reach \in Reach : /\ Named(call.name, reach) = {}
             /\ \E i \in Slot : entry' = [entry EXCEPT ![i] =
                  [name |-> call.name, inode_sector |-> call.sector]]
    BY Zenon, <1>6
  <2>2. PICK i \in Slot : entry' = [entry EXCEPT ![i] = [name |-> call.name, inode_sector |-> call.sector]]
    BY Zenon, <2>1
  <2>3. CallTypeOK'
    BY <1>1 DEF CallTypeOK, Creating, Linking, IInv, Links
  <2>4. entry' \in [Slot -> DirEntry \cup {Nil}]
    BY Zenon, <1>4, <2>2 DEF IInv, TypeOK
  <2>5. NoLinks'
    BY Zenon, <1>1, SameLinks DEF IInv
  <2>6. ASSUME ~MemoryFails' PROVE NamesUnique'
    <3>1. reach = DirEntries /\ NamesUnique
      BY <2>1, <2>6 DEF Reach, MemoryFails, IInv
    <3>2. \A j \in Slot : entry[j] # Nil => entry[j].name # call.name
      BY Zenon, <2>1, <3>1 DEF Named, Slot
    <3>3. /\ entry'[i].name = call.name
          /\ \A j \in Slot \ {i} : entry'[j] = entry[j]
      BY Zenon, <2>2 DEF IInv, TypeOK
    <3>. QED  BY <3>1, <3>2, <3>3 DEF NamesUnique, Used
  <2>. QED  BY Zenon, <1>1, <1>2, <1>3, <2>3, <2>4, <2>5, <2>6, QuietInv DEF IInv, TypeOK
<1>. QED  BY <1>5, <1>6 DEF dir_add

LEMMA CreateUndoInv ==
  ASSUME IInv, CreateUndo, UNCHANGED setting
  PROVE  IInv'
<1>1. FilesOK' /\ CallApart' /\ pc' = "dir_close" /\ free_map_release(call.sector, 1) /\ UNCHANGED call
  BY CreateUndoBlocks DEF IInv
<1>2. pc = "undo" /\ UNCHANGED <<disk_inode, entry, content, open_inodes, file>>
  BY DEF CreateUndo
<1>3. (RootOpen' <=> RootOpen) /\ \A s \in DiskSector : ~InCall(s) /\ ~InCall(s)'
  BY <1>1, <1>2 DEF RootOpen, InCall, Creating
<1>4. map_file' \subseteq DiskSector /\ free_map' \subseteq DiskSector
  BY Zenon, <1>1, ReleaseIs DEF IInv, FilesOK
<1>5. CallTypeOK'
  BY Zenon, <1>1, <1>2 DEF CallTypeOK, Creating, Linking, IInv, Links
<1>6. NoLinks' /\ (~MemoryFails' => NamesUnique')
  BY <1>1, <1>2, SameLinks, SameNames DEF IInv
<1>. QED  BY Zenon, <1>1, <1>2, <1>3, <1>4, <1>5, <1>6, QuietInv DEF IInv, TypeOK

LEMMA ReleaseInodeInv ==
  ASSUME IInv, ReleaseInode, UNCHANGED setting
  PROVE  IInv'
<1>1. FilesOK' /\ CallApart' /\ pc' = "release_data" /\ free_map_release(call.sector, 1) /\ UNCHANGED call
  BY ReleaseInodeBlocks DEF IInv
<1>2. pc = "release_inode" /\ UNCHANGED <<disk_inode, entry, content, open_inodes, file>>
  BY DEF ReleaseInode
<1>3. (RootOpen' <=> RootOpen) /\ \A s \in DiskSector : ~InCall(s) /\ ~InCall(s)'
  BY <1>1, <1>2 DEF RootOpen, InCall, Creating, Releasing
<1>4. map_file' \subseteq DiskSector /\ free_map' \subseteq DiskSector
  BY Zenon, <1>1, ReleaseIs DEF IInv, FilesOK
<1>5. CallTypeOK'
  BY Zenon, <1>1, <1>2 DEF CallTypeOK, Creating, Linking, Releasing, IInv, Links
<1>6. NoLinks' /\ (~MemoryFails' => NamesUnique')
  BY <1>1, <1>2, SameLinks, SameNames DEF IInv
<1>. QED  BY Zenon, <1>1, <1>2, <1>3, <1>4, <1>5, <1>6, QuietInv DEF IInv, TypeOK

LEMMA ReleaseDataInv ==
  ASSUME IInv, ReleaseData, UNCHANGED setting
  PROVE  IInv'
<1>1. /\ FilesOK' /\ CallApart' /\ free_map_release(call.start, call.cnt)
      /\ IF call.op = "remove" THEN pc' = "dir_close" /\ UNCHANGED call ELSE Return
  BY ReleaseDataBlocks DEF IInv
<1>2. pc = "release_data" /\ UNCHANGED <<disk_inode, entry, content, open_inodes, file>>
  BY DEF ReleaseData
<1>3. (RootOpen' <=> RootOpen) /\ \A s \in DiskSector : ~InCall(s) /\ ~InCall(s)'
  BY <1>1, <1>2 DEF RootOpen, InCall, Creating, Releasing, Return
<1>4. map_file' \subseteq DiskSector /\ free_map' \subseteq DiskSector
  BY <1>1, ReleaseIs DEF IInv, FilesOK
<1>5. CallTypeOK'
  BY Zenon, <1>1, <1>2, NoCallTyped DEF CallTypeOK, Creating, Linking, Releasing, IInv, Links, Return
<1>6. NoLinks' /\ (~MemoryFails' => NamesUnique')
  BY <1>1, <1>2, SameLinks, SameNames DEF IInv, Return
<1>. QED  BY Zenon, <1>1, <1>2, <1>3, <1>4, <1>5, <1>6, QuietInv DEF IInv, TypeOK

LEMMA DirCloseInv ==
  ASSUME CountFacts, IInv, dir_close, UNCHANGED setting
  PROVE  IInv'
<1>. DEFINE oj == Closed(open_inodes, ROOT_DIR_SECTOR)
<1>1. /\ pc = "dir_close" /\ pc' \in {"open_link", "idle"} /\ UNCHANGED <<disk, free_map, file>>
      /\ open_inodes' = oj
      /\ IF call.op = "symlink" THEN pc' = "open_link" /\ UNCHANGED call ELSE Return
  BY DEF dir_close, Return
<1>2. /\ RootOpen /\ ~RootOpen' /\ \A s \in DiskSector : ~InCall(s) /\ ~InCall(s)'
  BY Zenon, <1>1 DEF RootOpen, InCall, Creating, Releasing
<1>3. open_inodes \in OpenTable /\ open_inodes[ROOT_DIR_SECTOR] # Nil
  BY <1>2, SystemSectors, Referred DEF IInv, TypeOK, OpenTable
<1>4. /\ oj \in OpenTable
      /\ \A t \in DiskSector \ {ROOT_DIR_SECTOR} : oj[t] = open_inodes[t]
      /\ Cnt(oj, ROOT_DIR_SECTOR) = Cnt(open_inodes, ROOT_DIR_SECTOR) - 1
      /\ oj[ROOT_DIR_SECTOR] # Nil => oj[ROOT_DIR_SECTOR] = [open_inodes[ROOT_DIR_SECTOR] EXCEPT !.open_cnt = @ - 1]
  BY <1>3, SystemSectors, ClosedIs
<1>5. open_inodes[ROOT_DIR_SECTOR] \in OpenInode
  BY <1>3, SystemSectors DEF OpenTable
<1>6. oj[ROOT_DIR_SECTOR] # Nil =>
        /\ oj[ROOT_DIR_SECTOR].data = open_inodes[ROOT_DIR_SECTOR].data
        /\ oj[ROOT_DIR_SECTOR].removed = open_inodes[ROOT_DIR_SECTOR].removed
        /\ oj[ROOT_DIR_SECTOR].deny_write_cnt = open_inodes[ROOT_DIR_SECTOR].deny_write_cnt
  BY <1>4, <1>5 DEF OpenInode
<1>7. UNCHANGED <<map_file, disk_inode, entry, content>>
  BY <1>1 DEF disk
<1>. HIDE DEF oj
<1>8. \A s \in DiskSector : oj[s] # Nil =>
        /\ open_inodes[s] # Nil /\ oj[s].data = open_inodes[s].data
        /\ oj[s].removed = open_inodes[s].removed
        /\ oj[s].deny_write_cnt = open_inodes[s].deny_write_cnt
  BY <1>3, <1>4, <1>6
<1>9. FilesOK'
  <2>1. \A s \in DiskSector : open_inodes'[s] # Nil =>
           /\ Live(s)
           /\ open_inodes'[s].data = disk_inode[s]
           /\ open_inodes'[s].removed =>
                ~HasEntry(s)' /\ s \notin {FREE_MAP_SECTOR, ROOT_DIR_SECTOR}
    BY Zenon, <1>1, <1>7, <1>8, SameEntries DEF Live, IInv, FilesOK, OpenOK
  <2>. QED  BY Zenon, <1>1, <1>7, <2>1, SameEntries, TableFiles DEF IInv, FilesOK
<1>10. \A s : Openers(s)' = Openers(s) /\ Deniers(s)' = Deniers(s)
  BY Zenon, <1>1 DEF Openers, Deniers
<1>11. DenyWriteExact'
  BY ZenonT(60), <1>1, <1>8, <1>10, DenyIs, DenyIsPrime DEF IInv
<1>12. Counted'
  <2>1. \A s \in DiskSector : Extra(s)' = Extra(s) - (IF s = ROOT_DIR_SECTOR THEN 1 ELSE 0)
    BY <1>2 DEF Extra
  <2>2. \A s \in DiskSector : Cnt(open_inodes', s) = Cnt(open_inodes, s) - (IF s = ROOT_DIR_SECTOR THEN 1 ELSE 0)
    BY <1>1, <1>3, <1>4, CntNat DEF Cnt
  <2>3. \A s \in DiskSector : Cnt(open_inodes, s) \in Nat /\ Cardinality(Openers(s)) \in Nat /\ Extra(s) \in Nat
    BY <1>3, CntNat, OpenersCount, ExtraNat
  <2>4. Links' <=> Links
    BY DEF Links
  <2>. QED  BY <2>1, <2>2, <2>3, <2>4, <1>10 DEF IInv, Counted
<1>13. TypeOK'
  BY ZenonT(60), <1>1, <1>4, <1>7 DEF IInv, TypeOK, OpenTable
<1>14. CallTypeOK'
  BY Zenon, <1>1, NoCallTyped DEF CallTypeOK, Creating, Linking, IInv, Links, Return
<1>15. CallApart'
  BY <1>1, NoCallBlocks DEF HoldsBlocks, Releasing
<1>16. NoLinks' /\ (~MemoryFails' => NamesUnique')
  BY Zenon, <1>1, <1>7, SameLinks, SameNames DEF IInv
<1>. QED  BY Zenon, <1>9, <1>11, <1>12, <1>13, <1>14, <1>15, <1>16 DEF IInv

(* A step that opens inodes, each for a file or the call that refers to it *)
(* or, after a link, for nobody.                                           *)
Matched ==
  \A s \in DiskSector :
    LET grown == Cnt(open_inodes', s) - Cnt(open_inodes, s)
        due == (Cardinality(Openers(s)') + Extra(s)') - (Cardinality(Openers(s)) + Extra(s))
    IN  grown >= due /\ (~Links => grown = due)

LEMMA OpeningInv ==
  ASSUME CountFacts, IInv, Grown(open_inodes, open_inodes'),
         UNCHANGED <<disk, free_map>>, UNCHANGED setting,
         \A s : Deniers(s)' = Deniers(s), file' \in [Handle -> File \cup {Nil}],
         Matched, CallTypeOK', CallApart', pc' # "panic" \/ Links
  PROVE  IInv'
<1>1. UNCHANGED <<map_file, disk_inode, entry, content>>
  BY DEF disk
<1>2. FilesOK' /\ DenyWriteExact'
  BY ZenonT(60), GrownFiles, GrownDeny DEF IInv
<1>3. Counted'
  <2>1. open_inodes \in OpenTable /\ open_inodes' \in OpenTable
    BY Zenon DEF IInv, TypeOK, OpenTable, Grown
  <2>2. \A s \in DiskSector : /\ Cnt(open_inodes, s) \in Nat /\ Cnt(open_inodes', s) \in Nat
                              /\ Cardinality(Openers(s)) \in Nat /\ Extra(s) \in Nat
    BY <2>1, CntNat, OpenersCount, ExtraNat
  <2>3. \A s \in DiskSector : Cardinality(Openers(s)') \in Nat /\ Extra(s)' \in Nat
    <3>1. \A s : Openers(s)' \in SUBSET Handle
      BY DEF Openers
    <3>2. \A s : Cardinality(Openers(s)') \in Nat
      BY <3>1, Counting
    <3>. QED  BY <3>2 DEF Extra
  <2>4. Links' <=> Links
    BY DEF Links
  <2>5. Counted
    BY Zenon DEF IInv
  <2>. QED  BY SMTT(30), <2>2, <2>3, <2>4, <2>5 DEF Matched, Counted
<1>4. TypeOK'
  BY Zenon, <1>1 DEF IInv, TypeOK, OpenTable, Grown
<1>5. NoLinks' /\ (~MemoryFails' => NamesUnique')
  BY Zenon, <1>1, SameLinks, SameNames DEF IInv
<1>. QED  BY <1>2, <1>3, <1>4, <1>5 DEF IInv

(* filesys_open() adds a reference to what it returns and, after a link,   *)
(* perhaps others.                                                         *)
LEMMA OpenCounts ==
  ASSUME TypeOK, NEW f, OpenResult(f), NEW s \in DiskSector
  PROVE  /\ Cnt(open_inodes, s) \in Nat /\ Cnt(f.oi, s) \in Nat
         /\ Cnt(f.oi, s) >= Cnt(open_inodes, s) + (IF s = f.inode THEN 1 ELSE 0)
         /\ ~Links => Cnt(f.oi, s) = Cnt(open_inodes, s) + (IF s = f.inode THEN 1 ELSE 0)
<1>1. open_inodes \in OpenTable /\ f.oi \in OpenTable
  BY Zenon DEF TypeOK, OpenTable, OpenResult, Grown
<1>2. Cnt(open_inodes, s) \in Nat /\ Cnt(f.oi, s) \in Nat
  BY Zenon, <1>1, CntNat
<1>3. /\ Cnt(f.oi, s) >= Cnt(open_inodes, s)
      /\ s = f.inode => Cnt(f.oi, s) >= Cnt(open_inodes, s) + 1
  BY Zenon, NilApart DEF OpenResult, Grown
<1>4. ~Links => Cnt(f.oi, s) = Cnt(open_inodes, s) + (IF s = f.inode THEN 1 ELSE 0)
  BY Zenon DEF OpenResult
<1>. QED  BY SMTT(30), <1>2, <1>3, <1>4

LEMMA OpenFileInv ==
  ASSUME CountFacts, IInv, NEW n \in Name, NEW h \in Handle, OpenFile(n, h), UNCHANGED setting
  PROVE  IInv'
<1>1. pc = "idle" /\ file[h] = Nil /\ UNCHANGED <<disk, free_map>>
  BY Zenon DEF OpenFile, MayCall
<1>2. ASSUME NEW f \in filesys_open(n), open_inodes' = f.oi, UNCHANGED <<pc, call>>,
             file' = [file EXCEPT ![h] = IF f.inode = Nil THEN Nil
                                         ELSE [inode |-> f.inode, deny_write |-> FALSE]]
      PROVE  IInv'
  <2>1. OpenResult(f)
    BY Zenon, OpenIs DEF IInv, FilesOK
  <2>2. Grown(open_inodes, open_inodes')
    BY Zenon, <1>2, <2>1 DEF OpenResult
  <2>3. CallTypeOK' /\ CallApart' /\ pc' # "panic"
    BY Zenon, <1>1, <1>2, NoCallBlocks DEF HoldsBlocks, Releasing, IInv, CallTypeOK, Links
  <2>4. \A s \in DiskSector : Extra(s)' = Extra(s)
    BY <1>2 DEF Extra, RootOpen, InCall
  <2>5. \A s \in DiskSector : Cardinality(Openers(s)) \in Nat /\ Extra(s) \in Nat
    BY Zenon, OpenersCount, ExtraNat
  <2>6. \A s \in DiskSector :
          /\ Cnt(open_inodes, s) \in Nat /\ Cnt(open_inodes', s) \in Nat
          /\ Cnt(open_inodes', s) >= Cnt(open_inodes, s) + (IF s = f.inode THEN 1 ELSE 0)
          /\ ~Links => Cnt(open_inodes', s) = Cnt(open_inodes, s) + (IF s = f.inode THEN 1 ELSE 0)
    BY Zenon, <1>2, <2>1, OpenCounts DEF IInv
  <2>7. CASE f.inode = Nil
    <3>1. file' = file /\ file' \in [Handle -> File \cup {Nil}]
      BY Zenon, <1>1, <1>2, <2>7 DEF IInv, TypeOK
    <3>2. \A s : Openers(s)' = Openers(s) /\ Deniers(s)' = Deniers(s)
      BY Zenon, <3>1 DEF Openers, Deniers
    <3>3. \A s \in DiskSector : s # f.inode
      BY Zenon, <2>7, NilApart
    <3>4. Matched
      BY <2>4, <2>5, <2>6, <3>2, <3>3 DEF Matched
    <3>. QED  BY Zenon, <1>1, <2>2, <2>3, <3>1, <3>2, <3>4, OpeningInv
  <2>8. CASE f.inode # Nil
    <3>1. f.inode \in DiskSector
      BY Zenon, <2>1, <2>8 DEF OpenResult
    <3>2. /\ file' \in [Handle -> File \cup {Nil}]
          /\ \A t : /\ Cardinality(Openers(t)') = Cardinality(Openers(t)) + (IF t = f.inode THEN 1 ELSE 0)
                    /\ Deniers(t)' = Deniers(t)
      BY ZenonT(60), <1>1, <1>2, <2>8, <3>1, FileAdded DEF IInv
    <3>3. Matched
      BY <2>4, <2>5, <2>6, <3>2 DEF Matched
    <3>. QED  BY Zenon, <1>1, <2>2, <2>3, <3>2, <3>3, OpeningInv
  <2>. QED  BY Zenon, <2>7, <2>8
<1>3. ASSUME OpenPanics(n), Panic, UNCHANGED <<open_inodes, file>>
      PROVE  IInv'
  <2>1. Links
    BY <1>3, LinkMade DEF OpenPanics, IInv, FilesOK
  <2>2. pc' = "panic" /\ call' = NoCall
    BY Zenon, <1>3 DEF Panic
  <2>3. CallTypeOK' /\ CallApart'
    BY Zenon, <2>2, NoCallBlocks, NoCallTyped DEF HoldsBlocks, Releasing, CallTypeOK, Creating, Linking
  <2>4. (RootOpen' <=> RootOpen) /\ \A s \in DiskSector : ~InCall(s) /\ ~InCall(s)'
    BY <1>1, <2>2 DEF RootOpen, InCall, Creating, Releasing
  <2>5. UNCHANGED <<map_file, disk_inode, entry, content, free_map>>
    BY <1>1 DEF disk
  <2>6. NoLinks' /\ (~MemoryFails' => NamesUnique')
    BY Zenon, <2>1, <2>5, SameLinks, SameNames DEF IInv
  <2>7. FilesOK'
    BY <1>3, <2>5, InodeFiles DEF IInv
  <2>. QED  BY Zenon, <1>3, <2>3, <2>4, <2>5, <2>6, <2>7, QuietInv DEF IInv, TypeOK
<1>. QED  BY Zenon, <1>2, <1>3 DEF OpenFile

LEMMA ReopenInv ==
  ASSUME CountFacts, IInv, NEW h \in Handle, NEW g \in Handle, file_reopen(h, g), UNCHANGED setting
  PROVE  IInv'
<1>. DEFINE s == file[h].inode
            oj == Opened(open_inodes, s)
<1>1. /\ pc = "idle" /\ file[h] # Nil /\ file[g] = Nil /\ open_inodes' = oj
      /\ file' = [file EXCEPT ![g] = [inode |-> s, deny_write |-> FALSE]]
      /\ UNCHANGED <<disk, free_map, pc, call>>
  BY DEF file_reopen, MayCall
<1>2. s \in DiskSector
  BY Zenon, <1>1 DEF IInv, TypeOK, File
<1>3. open_inodes[s] # Nil /\ open_inodes \in OpenTable
  BY ZenonT(60), <1>1, <1>2, Referred DEF IInv, TypeOK, OpenTable
<1>4. disk_inode[s] \in InodeData
  BY <1>2, <1>3, NamedHasInode DEF IInv, FilesOK, Live
<1>5. Grown(open_inodes, oj)
  BY Zenon, <1>2, <1>3, <1>4, GrownRefl, GrownOpened
<1>6. /\ Cnt(oj, s) = Cnt(open_inodes, s) + 1
      /\ \A t \in DiskSector \ {s} : oj[t] = open_inodes[t]
  BY ZenonT(60), <1>2, <1>3, <1>4, OpenedIs
<1>. HIDE DEF s, oj
<1>7. /\ file' \in [Handle -> File \cup {Nil}]
      /\ \A t : /\ Cardinality(Openers(t)') = Cardinality(Openers(t)) + (IF t = s THEN 1 ELSE 0)
                /\ Deniers(t)' = Deniers(t)
  BY Zenon, <1>1, <1>2, FileAdded DEF IInv
<1>8. \A t \in DiskSector : Extra(t)' = Extra(t)
  BY <1>1 DEF Extra, RootOpen, InCall
<1>9. \A t \in DiskSector : Cnt(open_inodes', t) = Cnt(open_inodes, t) + (IF t = s THEN 1 ELSE 0)
  <2>1. \A t \in DiskSector \ {s} : Cnt(oj, t) = Cnt(open_inodes, t)
    BY Zenon, <1>6 DEF Cnt
  <2>2. \A t \in DiskSector : Cnt(open_inodes, t) + 0 = Cnt(open_inodes, t)
    BY <1>3, CntNat
  <2>3. open_inodes' = oj
    BY Zenon, <1>1
  <2>. QED  BY Zenon, <1>6, <2>1, <2>2, <2>3
<1>10. \A t \in DiskSector : /\ Cnt(open_inodes, t) \in Nat
                             /\ Cardinality(Openers(t)) \in Nat /\ Extra(t) \in Nat
  BY <1>3, CntNat, OpenersCount, ExtraNat
<1>11. CallTypeOK' /\ CallApart' /\ pc' # "panic"
  BY ZenonT(60), <1>1, NoCallBlocks DEF HoldsBlocks, Releasing, IInv, CallTypeOK, Links
<1>12. Matched
  BY <1>7, <1>8, <1>9, <1>10 DEF Matched
<1>. QED  BY Zenon, <1>1, <1>5, <1>7, <1>11, <1>12, OpeningInv

LEMMA SymlinkInv ==
  ASSUME CountFacts, IInv, NEW t \in Name, NEW n \in Name, filesys_symlink(t, n), UNCHANGED setting
  PROVE  IInv'
<1>1. /\ Links /\ pc = "idle" /\ pc' \in {"allocate", "open_link"} /\ UNCHANGED <<disk, free_map, file>>
      /\ call' = [NoCall EXCEPT !.op = "symlink", !.name = n, !.target = t, !.cnt = 1]
  BY DEF filesys_symlink, MayCall
<1>2. CallTypeOK'
  <2>1. call' \in CallRecord /\ call'.op = "symlink" /\ call'.name = n /\ call'.target = t
    BY Zenon, <1>1, NoCallTyped DEF CallRecord
  <2>. QED  BY <1>1, <2>1 DEF CallTypeOK, Creating, Linking, Links
<1>3. CallApart'
  BY <1>1, NoCallBlocks DEF HoldsBlocks, Releasing
<1>4. UNCHANGED <<map_file, disk_inode, entry, content>>
  BY <1>1 DEF disk
<1>5. NoLinks' /\ (~MemoryFails' => NamesUnique')
  BY <1>1, <1>4, SameLinks, SameNames DEF IInv
<1>6. CASE open_inodes' = Opened(open_inodes, ROOT_DIR_SECTOR) /\ pc' = "allocate"
  <2>1. /\ ~RootOpen /\ RootOpen' /\ \A s \in DiskSector : ~InCall(s) /\ ~InCall(s)'
    BY <1>1, <1>6 DEF RootOpen, InCall, Creating, Releasing
  <2>2. FilesOK' /\ Counted' /\ DenyWriteExact' /\ open_inodes' \in OpenTable
    BY Zenon, <1>1, <1>6, <2>1, RootOpened DEF IInv
  <2>3. TypeOK'
    BY Zenon, <1>1, <1>4, <2>2 DEF IInv, TypeOK, OpenTable
  <2>. QED  BY <1>2, <1>3, <1>5, <2>2, <2>3 DEF IInv
<1>7. CASE pc' = "open_link" /\ UNCHANGED open_inodes
  <2>1. (RootOpen' <=> RootOpen) /\ \A s \in DiskSector : ~InCall(s) /\ ~InCall(s)'
    BY <1>1, <1>7 DEF RootOpen, InCall, Creating, Releasing
  <2>2. FilesOK'
    BY Zenon, <1>1, <1>4, <1>7, InodeFiles DEF IInv
  <2>. QED  BY Zenon, <1>1, <1>2, <1>3, <1>4, <1>5, <1>7, <2>1, <2>2, QuietInv DEF IInv, TypeOK
<1>. QED  BY <1>6, <1>7 DEF filesys_symlink

(* An inode opened for the call and for no file. *)
LEMMA OpenedForCall ==
  ASSUME Links, NEW i,
         \A s \in DiskSector :
           /\ Cnt(open_inodes, s) \in Nat /\ Cnt(open_inodes', s) \in Nat
           /\ Cnt(open_inodes', s) >= Cnt(open_inodes, s) + (IF s = i THEN 1 ELSE 0)
           /\ Cardinality(Openers(s)) \in Nat /\ Extra(s) \in Nat,
         \A s : Openers(s)' = Openers(s),
         \A s \in DiskSector : Extra(s)' = Extra(s) + (IF s = i THEN 1 ELSE 0)
  PROVE  Matched
<1>. SUFFICES ASSUME NEW s \in DiskSector
              PROVE  Cnt(open_inodes', s) - Cnt(open_inodes, s)
                       >= (Cardinality(Openers(s)') + Extra(s)')
                            - (Cardinality(Openers(s)) + Extra(s))
  BY Zenon DEF Matched
<1>. DEFINE k == IF s = i THEN 1 ELSE 0
<1>1. k \in Nat
  OBVIOUS
<1>2. /\ Cnt(open_inodes', s) >= Cnt(open_inodes, s) + k
      /\ Cardinality(Openers(s)') = Cardinality(Openers(s)) /\ Extra(s)' = Extra(s) + k
  BY Zenon
<1>3. /\ Cnt(open_inodes, s) \in Nat /\ Cnt(open_inodes', s) \in Nat
      /\ Cardinality(Openers(s)) \in Nat /\ Extra(s) \in Nat
  BY Zenon
<1>. HIDE DEF k
<1>. QED  BY <1>1, <1>2, <1>3

LEMMA SymlinkOpenInv ==
  ASSUME CountFacts, IInv, SymlinkOpen, UNCHANGED setting
  PROVE  IInv'
<1>1. pc = "open_link" /\ UNCHANGED <<disk, free_map, file>>
  BY Zenon DEF SymlinkOpen
<1>2. Links /\ call.op = "symlink" /\ call.name \in Name /\ call.target \in Name /\ call \in CallRecord
  BY <1>1 DEF IInv, CallTypeOK, Linking
<1>3. UNCHANGED <<map_file, disk_inode, entry, content>>
  BY <1>1 DEF disk
<1>4. \A s : Openers(s)' = Openers(s) /\ Deniers(s)' = Deniers(s)
  BY <1>1 DEF Openers, Deniers
<1>5. file' \in [Handle -> File \cup {Nil}]
  BY Zenon, <1>1 DEF IInv, TypeOK
<1>6. ASSUME NEW f \in filesys_open(call.name), open_inodes' = f.oi,
             IF f.inode = Nil THEN Panic
             ELSE pc' = "set_symlink" /\ call' = [call EXCEPT !.sector = f.inode]
      PROVE  IInv'
  <2>1. OpenResult(f)
    BY OpenIs DEF IInv, FilesOK
  <2>2. Grown(open_inodes, open_inodes')
    BY <1>6, <2>1 DEF OpenResult
  <2>3. \A s \in DiskSector :
          /\ Cnt(open_inodes, s) \in Nat /\ Cnt(open_inodes', s) \in Nat
          /\ Cnt(open_inodes', s) >= Cnt(open_inodes, s) + (IF s = f.inode THEN 1 ELSE 0)
          /\ Cardinality(Openers(s)) \in Nat /\ Extra(s) \in Nat
    BY Zenon, <1>6, <2>1, OpenCounts, OpenersCount, ExtraNat DEF IInv
  <2>4. ~RootOpen /\ \A s \in DiskSector : ~InCall(s)
    BY <1>1 DEF RootOpen, InCall, Creating, Releasing
  <2>5. CASE f.inode = Nil
    <3>1. pc' = "panic" /\ call' = NoCall
      BY <1>6, <2>5 DEF Panic
    <3>2. CallTypeOK' /\ CallApart'
      BY Zenon, <3>1, NoCallBlocks, NoCallTyped DEF HoldsBlocks, Releasing, CallTypeOK, Creating, Linking
    <3>3. \A s \in DiskSector : Extra(s)' = Extra(s)
      BY Zenon, <2>4, <3>1 DEF Extra, RootOpen, InCall, Creating, Releasing
    <3>4. \A s \in DiskSector : Extra(s) + (IF s = f.inode THEN 1 ELSE 0) = Extra(s)
      <4>1. \A s \in DiskSector : s # f.inode
        BY Zenon, <2>5, NilApart
      <4>2. \A s \in DiskSector : Extra(s) + 0 = Extra(s)
        BY ExtraNat
      <4>. QED  BY Zenon, <4>1, <4>2
    <3>5. Matched
      BY Zenon, <1>2, <1>4, <2>3, <3>3, <3>4, OpenedForCall
    <3>. QED  BY Zenon, <1>1, <1>2, <1>4, <1>5, <2>2, <3>2, <3>5, OpeningInv
  <2>6. CASE f.inode # Nil
    <3>1. /\ f.inode \in DiskSector /\ HasEntry(f.inode) /\ pc' = "set_symlink"
          /\ call' = [call EXCEPT !.sector = f.inode]
      BY <1>6, <2>1, <2>6 DEF OpenResult
    <3>2. call' \in CallRecord /\ call'.op = "symlink" /\ call'.name = call.name
          /\ call'.target = call.target /\ call'.sector = f.inode
      BY <1>2, <3>1 DEF CallRecord
    <3>3. CallTypeOK'
      BY <1>2, <3>1, <3>2 DEF CallTypeOK, Creating, Linking, Links
    <3>4. CallApart'
      <4>1. HasEntry(call.sector)'
        BY <1>3, <3>1, <3>2 DEF HasEntry, NamedBy
      <4>. QED  BY <3>1, <4>1 DEF CallApart, CallBlocks
    <3>5. \A s \in DiskSector : Extra(s)' = Extra(s) + (IF s = f.inode THEN 1 ELSE 0)
      BY SMTT(30), <2>4, <3>1, <3>2 DEF Extra, RootOpen, InCall, Creating, Releasing
    <3>6. Matched
      BY Zenon, <1>2, <1>4, <2>3, <3>5, OpenedForCall
    <3>. QED  BY Zenon, <1>1, <1>2, <1>4, <1>5, <2>2, <3>3, <3>4, <3>6, OpeningInv
  <2>. QED  BY <2>5, <2>6
<1>7. ASSUME Panic, UNCHANGED open_inodes
      PROVE  IInv'
  <2>2. pc' = "panic" /\ call' = NoCall
    BY <1>7 DEF Panic
  <2>3. CallTypeOK' /\ CallApart'
    BY Zenon, <2>2, NoCallBlocks, NoCallTyped DEF HoldsBlocks, Releasing, CallTypeOK, Creating, Linking
  <2>4. (RootOpen' <=> RootOpen) /\ \A s \in DiskSector : ~InCall(s) /\ ~InCall(s)'
    BY <1>1, <2>2 DEF RootOpen, InCall, Creating, Releasing
  <2>6. NoLinks' /\ (~MemoryFails' => NamesUnique')
    BY Zenon, <1>2, <1>3, SameLinks, SameNames DEF IInv
  <2>7. FilesOK'
    BY <1>1, <1>3, <1>7, InodeFiles DEF IInv
  <2>. QED  BY Zenon, <1>1, <1>3, <1>7, <2>3, <2>4, <2>6, <2>7, QuietInv DEF IInv, TypeOK
<1>. QED  BY <1>6, <1>7 DEF SymlinkOpen

LEMMA RemoveInv ==
  ASSUME CountFacts, IInv, NEW n \in Name, filesys_remove(n), UNCHANGED setting
  PROVE  IInv'
<1>1. /\ pc = "idle" /\ pc' = "erase" /\ UNCHANGED <<disk, free_map, file>>
      /\ \E reach \in Reach : \E i \in First(Named(n, reach)) :
           /\ open_inodes' = Opened(Opened(open_inodes, ROOT_DIR_SECTOR), entry[i].inode_sector)
           /\ call' = [NoCall EXCEPT !.op = "remove", !.slot = i, !.sector = entry[i].inode_sector]
  BY Zenon DEF filesys_remove, MayCall
<1>2. PICK reach \in Reach : \E i \in First(Named(n, reach)) :
           /\ open_inodes' = Opened(Opened(open_inodes, ROOT_DIR_SECTOR), entry[i].inode_sector)
           /\ call' = [NoCall EXCEPT !.op = "remove", !.slot = i, !.sector = entry[i].inode_sector]
  BY Zenon, <1>1
<1>3. PICK i \in First(Named(n, reach)) :
           /\ open_inodes' = Opened(Opened(open_inodes, ROOT_DIR_SECTOR), entry[i].inode_sector)
           /\ call' = [NoCall EXCEPT !.op = "remove", !.slot = i, !.sector = entry[i].inode_sector]
  BY Zenon, <1>2
<1>4. i \in Slot /\ entry[i] # Nil
  <2>1. i \in 1 .. reach /\ entry[i] # Nil
    BY DEF First, Named
  <2>. QED  BY <2>1, ReachIs, SizesAssumption DEF Slot
<1>. DEFINE s == entry[i].inode_sector
            oi == Opened(open_inodes, ROOT_DIR_SECTOR)
            oj == Opened(oi, s)
<1>5. s \in DiskSector /\ s # ROOT_DIR_SECTOR /\ HasEntry(s) /\ NamedBy(i, s)
  BY Zenon, <1>4 DEF IInv, TypeOK, DirEntry, FilesOK, EntriesOK, HasEntry, NamedBy
<1>6. /\ open_inodes \in OpenTable
      /\ disk_inode[ROOT_DIR_SECTOR] \in InodeData /\ disk_inode[s] \in InodeData
  BY Zenon, <1>5, SystemSectors, NamedHasInode DEF IInv, TypeOK, OpenTable, FilesOK, Live
<1>. HIDE DEF s
<1>7. Grown(open_inodes, oi)
  BY Zenon, <1>6, SystemSectors, GrownRefl, GrownOpened
<1>8. Grown(open_inodes, oj)
  BY Zenon, <1>5, <1>6, <1>7, GrownOpened
<1>9. /\ Cnt(oi, ROOT_DIR_SECTOR) = Cnt(open_inodes, ROOT_DIR_SECTOR) + 1
      /\ \A t \in DiskSector \ {ROOT_DIR_SECTOR} : oi[t] = open_inodes[t]
  BY Zenon, <1>6, SystemSectors, OpenedIs
<1>10. oi \in OpenTable
  BY Zenon, <1>7 DEF Grown
<1>11. /\ Cnt(oj, s) = Cnt(oi, s) + 1
       /\ \A t \in DiskSector \ {s} : oj[t] = oi[t]
  BY Zenon, <1>5, <1>6, <1>10, OpenedIs
<1>12. open_inodes' = oj
  BY <1>3 DEF s
<1>. HIDE DEF oi, oj
<1>13. \A t \in DiskSector : /\ Cnt(open_inodes, t) \in Nat /\ Cnt(oi, t) \in Nat
                             /\ Cardinality(Openers(t)) \in Nat /\ Extra(t) \in Nat
  BY Zenon, <1>6, <1>10, CntNat, OpenersCount, ExtraNat
<1>14. \A t \in DiskSector : Cnt(open_inodes', t) =
         Cnt(open_inodes, t) + (IF t = ROOT_DIR_SECTOR THEN 1 ELSE 0) + (IF t = s THEN 1 ELSE 0)
  <2>1. \A t \in DiskSector \ {s} : Cnt(oj, t) = Cnt(oi, t)
    BY Zenon, <1>11 DEF Cnt
  <2>2. \A t \in DiskSector \ {ROOT_DIR_SECTOR} : Cnt(oi, t) = Cnt(open_inodes, t)
    BY Zenon, <1>9 DEF Cnt
  <2>3. ASSUME NEW t \in DiskSector
        PROVE  Cnt(oj, t) = Cnt(oi, t) + (IF t = s THEN 1 ELSE 0)
    BY <1>11, <1>13, <2>1
  <2>4. ASSUME NEW t \in DiskSector
        PROVE  Cnt(oi, t) = Cnt(open_inodes, t) + (IF t = ROOT_DIR_SECTOR THEN 1 ELSE 0)
    BY <1>9, <1>13, <2>2
  <2>. QED  BY Zenon, <1>12, <2>3, <2>4
<1>15. call' \in CallRecord /\ call'.op = "remove" /\ call'.slot = i /\ call'.sector = s
  BY Zenon, <1>3, <1>4, <1>5, NoCallTyped DEF CallRecord, s
<1>16. \A t \in DiskSector : Extra(t)' =
         Extra(t) + (IF t = ROOT_DIR_SECTOR THEN 1 ELSE 0) + (IF t = s THEN 1 ELSE 0)
  BY <1>1, <1>15 DEF Extra, RootOpen, InCall, Creating, Releasing
<1>17. CallTypeOK'
  BY <1>1, <1>15 DEF CallTypeOK, Creating, Linking
<1>18. CallApart'
  <2>1. NamedBy(call.slot, call.sector)'
    BY <1>1, <1>5, <1>15 DEF NamedBy, disk
  <2>. QED  BY <1>1, <1>4, <1>15, <2>1 DEF CallApart, CallBlocks
<1>19. \A t : Openers(t)' = Openers(t) /\ Deniers(t)' = Deniers(t)
  BY Zenon, <1>1 DEF Openers, Deniers
<1>20. Matched
  BY <1>13, <1>14, <1>16, <1>19 DEF Matched
<1>21. Grown(open_inodes, open_inodes') /\ file' \in [Handle -> File \cup {Nil}] /\ pc' # "panic"
  BY Zenon, <1>1, <1>8, <1>12 DEF IInv, TypeOK
<1>. QED  BY Zenon, <1>1, <1>17, <1>18, <1>19, <1>20, <1>21, OpeningInv
=============================================================================
