------------------------------ MODULE Partition ------------------------------
(***************************************************************************)
(* devices/partition.c and devices/block.c, with the choice of devices for *)
(* the kernel's roles in threads/init.c: a disk is registered and its      *)
(* partition tables are walked (the call stack of read_partition_table()   *)
(* is `stack'); each valid partition becomes a block device of its own;    *)
(* then roles are assigned and sectors are read and written through any    *)
(* block device.                                                           *)
(***************************************************************************)
EXTENDS Integers, Sequences, SequencesExt

CONSTANTS Size,          \* sectors of the disk
          Width,         \* block_sector_t counts modulo 2^Width
          Table,         \* possible partition tables: [ok, entries]
          Name,          \* device names that may be given for a role
          Sector,        \* sectors that callers ask for
          StackDepth,    \* calls that fit the kernel's stack
          NULL

\* What the constants satisfy.
PartitionAssumption == Size \in 1 .. 2^Width /\ StackDepth \in Nat

VARIABLES disk,          \* [sector -> table]
          stack,         \* calls: [sector, primary, i, pt]
          part_nr, all_blocks, block_by_role, pc,
          io             \* the last transfer: [op, block, sector, reached]

vars == <<disk, stack, part_nr, all_blocks, block_by_role, pc, io>>

Role == {"filesys", "scratch"}
None == [op |-> "none", block |-> 0, sector |-> 0, reached |-> NULL]
Plus(a, b) == (a + b) % 2^Width

\* A block device; `start' is NULL for the disk itself.
Block(name, type, size, start) == [name |-> name, type |-> type, size |-> size, start |-> start]

block_register(b) == all_blocks' = Append(all_blocks, b)

Frame(sector, primary, pt) == [sector |-> sector, primary |-> primary, i |-> 1, pt |-> pt]

\* partition_scan() of the disk registered as the first block device.
Init ==
  /\ disk \in [0 .. Size - 1 -> Table]
  /\ all_blocks = <<Block(<<"hda", 0>>, "raw", Size, NULL)>>
  /\ stack = IF disk[0].ok THEN <<Frame(0, 0, disk[0])>> ELSE << >>
  /\ part_nr = 0 /\ block_by_role = [r \in Role |-> NULL]
  /\ pc = "scan" /\ io = None

Extended == {"extended", "win98 extended", "linux extended", "dr-dos extended"}

\* A call for SECTOR past the end of the device returns at once.  The table
\* is read from sector 0 whatever SECTOR is.
read_partition_table(sector, primary, up) ==
  IF sector >= Size \/ ~ disk[0].ok
  THEN stack' = up /\ UNCHANGED pc
  ELSE IF Len(up) = StackDepth
  THEN stack' = << >> /\ pc' = "overflow"
  ELSE stack' = <<Frame(sector, primary, disk[0])>> \o up /\ UNCHANGED pc

BlockType(t) == IF t \in {"kernel", "filesys", "scratch", "swap"} THEN t ELSE "foreign"

(* Mutant of InDevice: only the end is compared. *)
InDevice_wrapping(start, size) == start < Size /\ Plus(start, size) <= Size

InDevice(start, size) == start < Size /\ Plus(start, size) >= start /\ Plus(start, size) <= Size

found_partition(type, start, size, nr) ==
  IF InDevice(start, size)
  THEN block_register(Block(<<"hda", nr>>, BlockType(type), size, start))
  ELSE UNCHANGED all_blocks

(* Mutant of Partitions: numbers only the partitions that are registered. *)
Partitions_valid(f, e, up) ==
  /\ e.type \notin Extended
  /\ part_nr' = part_nr + (IF InDevice(Plus(e.offset, f.sector), e.size) THEN 1 ELSE 0)
  /\ found_partition(e.type, Plus(e.offset, f.sector), e.size, part_nr')
  /\ stack' = up /\ UNCHANGED pc

Partitions(f, e, up) ==
  /\ e.type \notin Extended
  /\ part_nr' = part_nr + 1
  /\ found_partition(e.type, Plus(e.offset, f.sector), e.size, part_nr')
  /\ stack' = up /\ UNCHANGED pc

ExtendedPartition(f, e, up) ==
  /\ e.type \in Extended
  /\ LET sector  == IF f.sector = 0 THEN e.offset ELSE Plus(e.offset, f.primary)
         primary == IF f.sector = 0 THEN e.offset ELSE f.primary
     IN  read_partition_table(sector, primary, up)
  /\ UNCHANGED <<part_nr, all_blocks>>

\* The next entry of the table at hand, or the return to the caller.
Scan ==
  /\ pc = "scan" /\ stack # << >>
  /\ LET f == Head(stack)
     IN  IF f.i > Len(f.pt.entries)
         THEN stack' = Tail(stack) /\ UNCHANGED <<part_nr, all_blocks, pc>>
         ELSE LET e  == f.pt.entries[f.i]
                  up == <<[f EXCEPT !.i = @ + 1]>> \o Tail(stack)
              IN  \/ /\ e.size = 0 \/ e.type = "empty"
                     /\ stack' = up /\ UNCHANGED <<part_nr, all_blocks, pc>>
                  \/ e.size # 0 /\ e.type # "empty" /\ ExtendedPartition(f, e, up)
                  \/ e.size # 0 /\ e.type # "empty" /\ Partitions(f, e, up)
  /\ UNCHANGED <<disk, block_by_role, io>>

-----------------------------------------------------------------------------
(* Roles *)

block_get_by_name(n) == SelectInSeq(all_blocks, LAMBDA b : b.name = n)

\* The device of that name if one is given, else the first of ROLE's type;
\* 0 is none.
Located(role, name) ==
  IF name # NULL THEN block_get_by_name(name)
  ELSE SelectInSeq(all_blocks, LAMBDA b : b.type = role)

locate_block_devices(names) ==
  /\ pc = "scan" /\ stack = << >>
  /\ IF \E r \in Role : names[r] # NULL /\ Located(r, names[r]) = 0
     THEN pc' = "panic" /\ UNCHANGED block_by_role
     ELSE /\ pc' = "run"
          /\ block_by_role' = [r \in Role |-> IF Located(r, names[r]) = 0 THEN NULL ELSE Located(r, names[r])]
  /\ UNCHANGED <<disk, stack, part_nr, all_blocks, io>>

-----------------------------------------------------------------------------
(* Transfers *)

(* Mutant of check_sector: accepts the sector after the last one. *)
check_sector_at_end(b, sector) == sector <= b.size

check_sector(b, sector) == sector < b.size

\* block_read() and block_write() of block device number I; a partition's
\* operations are those of the disk, further on.
Transfer(op, i, sector) ==
  /\ pc = "run"
  /\ LET b == all_blocks[i]
         s == IF b.start = NULL THEN sector ELSE Plus(b.start, sector)
     IN  IF check_sector(b, sector) /\ (op = "write" => b.type # "foreign") /\ check_sector(all_blocks[1], s)
         THEN io' = [op |-> op, block |-> i, sector |-> sector, reached |-> s] /\ UNCHANGED pc
         ELSE pc' = "panic" /\ UNCHANGED io
  /\ UNCHANGED <<disk, stack, part_nr, all_blocks, block_by_role>>

block_read(i, sector) == Transfer("read", i, sector)
block_write(i, sector) == Transfer("write", i, sector)

Next ==
  \/ Scan
  \/ \E names \in [Role -> Name \cup {NULL}] : locate_block_devices(names)
  \/ \E i \in DOMAIN all_blocks, s \in Sector : block_read(i, s) \/ block_write(i, s)

Spec == Init /\ [][Next]_vars

-----------------------------------------------------------------------------
(* Properties *)

(* A partition registered by found_partition() lies within its disk, also  *)
(* when its end would wrap around the sector type.                         *)
PartitionsInside ==
  \A i \in 2 .. Len(all_blocks) : all_blocks[i].start + all_blocks[i].size <= Size

(* What block_read() and block_write() reach through a partition is a      *)
(* sector of that partition, and nothing of a foreign one is written.      *)
TransfersInside ==
  io.op # "none" =>
    LET b == all_blocks[io.block]
        first == IF b.start = NULL THEN 0 ELSE b.start
    IN  /\ io.reached \in first .. first + b.size - 1
        /\ io.op = "write" => b.type # "foreign"

\* The partitions of a table without extended ones, numbered in its order.
Primary(pt) == SelectSeq(pt.entries, LAMBDA e : e.size # 0 /\ e.type # "empty")
Expected(pt) ==
  LET numbered == [n \in DOMAIN Primary(pt) |->
                     LET e == Primary(pt)[n]
                     IN  Block(<<"hda", n>>, BlockType(e.type), e.size, e.offset)]
  IN  SelectSeq(numbered, LAMBDA b : b.start < Size /\ b.start + b.size <= Size)

(* The scan of a disk without extended partitions registers the valid      *)
(* ones, in the order of the table, under their numbers in it.             *)
ScanRight ==
  pc = "run" /\ (\A n \in DOMAIN disk[0].entries : disk[0].entries[n].type \notin Extended) /\ disk[0].ok
    => Tail(all_blocks) = Expected(disk[0])

(* partition.c, of read_partition_table(): "Reads the partition table in   *)
(* the given SECTOR of BLOCK".                                             *)
ReadsGivenSector == \A n \in DOMAIN stack : stack[n].pt = disk[stack[n].sector]
==============================================================================
