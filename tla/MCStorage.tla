----------------------------- MODULE MCStorage ------------------------------
(* The file system, the archive commands and the partitions side by side:  *)
(* a behaviour is one of a single component, and the others stay as they   *)
(* are at the start.                                                       *)
EXTENDS FileSys, Sequences, TLC

VARIABLES component,  \* whose behaviour it is
          scratch, files, extract_sector, append_sector, job, count, appended, owed, extracted,
          part_disk, stack, part_nr, all_blocks, block_by_role, part_pc, io

\* FileSys: short memory, links, both, and files of several sectors.
Setup(sizes, fails, links, opens) == [sizes |-> sizes, fails |-> fails, links |-> links, opens |-> opens]
Plain == Setup({0, 2}, FALSE, FALSE, 2)
Setups == {Setup({1}, TRUE, FALSE, 2), Setup({1}, FALSE, TRUE, 2), Setup({}, TRUE, TRUE, 1), Plain}

\* Partition: tables of two entries, four in a real one.
E(type, offset, size) == [type |-> type, offset |-> offset, size |-> size]
TableEntries == {E("empty", 1, 1), E("filesys", 1, 0), E("filesys", 1, 2), E("scratch", 2, 4), E("linux", 3, 2),
                 E("filesys", 5, 7), E("kernel", 6, 1), E("extended", 2, 3), E("extended", 4, 2)}
Bad == [ok |-> FALSE, entries |-> << >>]
Tables == {[ok |-> TRUE, entries |-> <<x, y>>] : x, y \in TableEntries} \cup {Bad}

\* FsUtil: archives on the scratch device, in sectors of two bytes, as another tar writes them.
TAR == INSTANCE Ustar WITH NameSize <- 3, SizeSize <- 3, ChksumSize <- 5, INT_MAX <- 1023, ULONG_MAX <- 2047
FileA == <<97>>
FileB == <<98>>
Slashed == <<TAR!SLASH, 97>>
DataSectors(data) ==
  [i \in 1 .. (Len(data) + 1) \div 2 |-> [data |-> <<data[2 * i - 1], IF 2 * i > Len(data) THEN 0 ELSE data[2 * i]>>]]
EntrySectors(name, type, data) == <<TAR!Header(TAR!strlcpy(name, 3), type, Len(data))>> \o DataSectors(data)
Device(sectors) == [i \in 0 .. Len(sectors) - 1 |-> sectors[i + 1]]
End == DataSectors(<<0, 0, 0, 0>>)
Stale == EntrySectors(FileB, TAR!REGULAR, <<9>>)
One == EntrySectors(FileA, TAR!REGULAR, <<1, 2, 3>>)
Two == EntrySectors(<<TAR!DOT>>, TAR!DIRECTORY, << >>) \o EntrySectors(FileA, TAR!REGULAR, <<1>>)
       \o EntrySectors(FileB, TAR!REGULAR, << >>)
Twice == EntrySectors(FileA, TAR!REGULAR, <<1>>) \o EntrySectors(Slashed, TAR!REGULAR, <<2>>)
AllDevices == {Device(One \o End \o Stale), Device(Two \o End), Device(Twice \o End), Device(End \o Stale), Device(One)}
AllFiles == {[n \in {} |-> << >>], FileA :> <<4, 5>>, (FileA :> <<7>>) @@ (Slashed :> <<8, 8, 8>>)}

\* Names and handles are interchangeable.
Symmetry == Permutations(Name) \cup Permutations(Handle)

-----------------------------------------------------------------------------
FSUTIL == INSTANCE FsUtil WITH
  NameSize <- 3, SizeSize <- 3, ChksumSize <- 5, INT_MAX <- 1023, ULONG_MAX <- 2047,
  Devices <- AllDevices, InitialFiles <- AllFiles, BLOCK_SECTOR_SIZE <- 2, NAME_MAX <- 2,
  FsSectors <- 5, MaxCommands <- 4, MaxBoots <- 2
fsutil_vars == <<scratch, files, extract_sector, append_sector, job, count, appended, owed,
                   extracted>>

PARTITION == INSTANCE Partition WITH
  Size <- 6, Width <- 3, Table <- Tables, Name <- {<<"hda", 0>>, <<"hda", 1>>, <<"hda", 2>>},
  Sector <- {0, 1, 2, 5, 6}, StackDepth <- 4, NULL <- Nil, disk <- part_disk, pc <- part_pc
partition_vars == <<part_disk, stack, part_nr, all_blocks, block_by_role, part_pc, io>>

ASSUME Assumptions == PARTITION!PartitionAssumption

-----------------------------------------------------------------------------
(* A variable of a component that is not running has the value Off. *)
Off == 0

MCInit ==
  /\ component \in {"filesys", "fsutil", "partition"}
  /\ Init
  /\ component # "filesys" => setting = Plain
  /\ IF component = "fsutil" THEN FSUTIL!Init
     ELSE scratch = Off /\ files = Off /\ extract_sector = Off /\ append_sector = Off /\
          job = Off /\ count = Off /\ appended = Off /\ owed = Off /\ extracted = Off
  /\ IF component = "partition" THEN (\E t \in Tables : part_disk = [s \in 0 .. 5 |-> IF s = 0 THEN t ELSE Bad] /\ PARTITION!Init)
     ELSE part_disk = Off /\ stack = Off /\ part_nr = Off /\ all_blocks = Off /\
          block_by_role = Off /\ part_pc = Off /\ io = Off

OnlyFileSystems == UNCHANGED <<component, fsutil_vars, partition_vars>>
FileSystems == component = "filesys" /\ Next /\ OnlyFileSystems

OnlyFsUtils == UNCHANGED <<component, vars, partition_vars>>
FsUtils == component = "fsutil" /\ FSUTIL!Next /\ OnlyFsUtils

OnlyPartitions == UNCHANGED <<component, vars, fsutil_vars>>
Partitions == component = "partition" /\ PARTITION!Next /\ OnlyPartitions

\* The calls have returned, or the component has stopped.
Stopped ==
  /\ CASE component = "fsutil" -> IF job.at = "panic" THEN count.boots = 2 ELSE job.at = "idle" /\ count.commands = 4
       [] component = "partition" -> part_pc \in {"panic", "overflow"}
       [] OTHER -> FALSE
  /\ UNCHANGED <<component, vars, fsutil_vars, partition_vars>>

MCNext == FileSystems \/ FsUtils \/ Partitions \/ Stopped

MCvars == <<component, vars, fsutil_vars, partition_vars>>

MCSpec == MCInit /\ [][MCNext]_MCvars

(* The inode of a sector of the file system that is neither marked nor     *)
(* open is never read before it is written again.                          *)
Marked(f) == [s \in DiskSector |-> IF s \in free_map \cup map_file THEN f[s] ELSE Nil]
MCView == <<component, setting, map_file, entry, memory, pc, call, Marked(disk_inode), Marked(content),
            fsutil_vars, partition_vars>>

-----------------------------------------------------------------------------
(* Every partition registered lies within its disk, also where its end     *)
(* wraps around; of a table without extended entries the scan registers    *)
(* exactly the valid partitions; what block_read() and block_write() reach *)
(* through a partition is a sector of it, and nothing of a foreign one is  *)
(* written.                                                                *)
PartitionsRight == component = "partition" => PARTITION!PartitionsInside /\ PARTITION!TransfersInside /\ PARTITION!ScanRight

(* Whatever panics and reboots come, a file of the archive is complete in  *)
(* the file system or still in the archive; once an extract has completed, *)
(* the first extract of a later boot finds no file and no bad header; and  *)
(* after each fsutil_append() the archive reads back as the files appended *)
(* since the boot.                                                         *)
ArchiveKept ==
  /\ [](component = "fsutil" => FSUTIL!NothingLost /\ FSUTIL!AppendsRight)
  /\ [][component = "fsutil" => FSUTIL!FirstHarmless]_MCvars
=============================================================================
