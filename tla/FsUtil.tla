------------------------------- MODULE FsUtil -------------------------------
(***************************************************************************)
(* filesys/fsutil.c: the actions of the kernel command line that move      *)
(* files between the file system and a ustar archive on the scratch        *)
(* device, one sector at a time.  The two static positions are lost at a   *)
(* reboot, files and sectors are not; a reboot may come between any two    *)
(* transfers.  A panic stops the kernel until then.  The file system is a  *)
(* function from names to contents with FsSectors sectors of room (FileSys *)
(* has the details); a sector is a header (Ustar) or [data |-> bytes].     *)
(***************************************************************************)
EXTENDS Ustar, FiniteSetsExt, TLC

CONSTANTS Devices,      \* initial scratch devices
          InitialFiles, \* initial file systems
          BLOCK_SECTOR_SIZE, NAME_MAX, FsSectors,
          MaxCommands, MaxBoots

VARIABLES scratch,         \* the sectors of the scratch device, from 0
          files,           \* the files: from names to bytes
          extract_sector,  \* the static sector of fsutil_extract()
          append_sector,   \* the static sector of fsutil_append()
          job,             \* what the kernel is doing
          count,           \* commands given, boots, extracts in this boot and whether one came late, after an append
          appended,        \* the files appended in this boot, in order
          owed,            \* the archived files not yet removed or overwritten by a command
          extracted        \* an extract has completed, and no append has started since

vars == <<scratch, files, extract_sector, append_sector, job, count, appended, owed, extracted>>
static == <<extract_sector, append_sector>>
ghosts == <<appended, owed, extracted>>

Job(at, name, left, ofs) == [at |-> at, name |-> name, left |-> left, ofs |-> ofs]
Idle == Job("idle", <<>>, 0, 0)
Panic == Job("panic", <<>>, 0, 0)

Zeros(n) == [i \in 1 .. n |-> NUL]
ZeroSector == [data |-> Zeros(BLOCK_SECTOR_SIZE)]
DataSector(bytes) == [data |-> bytes \o Zeros(BLOCK_SECTOR_SIZE - Len(bytes))]
Chunk(left) == IF left > BLOCK_SECTOR_SIZE THEN BLOCK_SECTOR_SIZE ELSE left
Sectors(size) == (size + BLOCK_SECTOR_SIZE - 1) \div BLOCK_SECTOR_SIZE
OnDevice(sector) == sector \in DOMAIN scratch

\* Parses a sector as a header: data is one only when it is all zeros.
Parse(sector) == IF "data" \in DOMAIN sector /\ ~is_all_zeros(sector)
                 THEN Failed("not a ustar archive") ELSE ustar_parse_header(sector)

\* The regular files an archive holds from sector I on, up to its end marker or the first bad sector.
RECURSIVE Entries(_, _)
Entries(device, i) ==
  IF i \notin DOMAIN device THEN <<>>
  ELSE LET h == Parse(device[i])
           next == i + 1 + Sectors(h.size)
       IN IF "error" \in DOMAIN h THEN <<>>
          ELSE IF h.type = "EOF" THEN <<>>
          ELSE IF h.type = "directory" THEN Entries(device, i + 1)
          ELSE IF ~(next - 1 \in DOMAIN device) THEN <<>>
          ELSE LET data[j \in 0 .. next - i - 1] ==
                     IF j = 0 THEN <<>>
                     ELSE data[j - 1] \o (IF "data" \in DOMAIN device[i + j] THEN device[i + j].data
                                          ELSE Zeros(BLOCK_SECTOR_SIZE))
               IN <<[name |-> h.file_name, data |-> SubSeq(data[next - i - 1], 1, h.size)]>>
                  \o Entries(device, next)

Init == /\ scratch \in Devices /\ files \in InitialFiles
        /\ extract_sector = 0 /\ append_sector = 0
        /\ job = Idle /\ count = [commands |-> 0, boots |-> 0, extracts |-> 0, late |-> FALSE]
        /\ appended = <<>> /\ owed = Range(Entries(scratch, 0)) /\ extracted = FALSE

-----------------------------------------------------------------------------
(* The file system *)

Used == MapThenSumSet(LAMBDA name : 1 + Sectors(Len(files[name])), DOMAIN files)

filesys_create_fails(name, size) ==
  \/ name \in DOMAIN files
  \/ Len(name) = 0 \/ Len(name) > NAME_MAX
  \/ Used + 1 + Sectors(size) > FsSectors

file_write(name, ofs, bytes) ==
  files' = [files EXCEPT ![name] = [i \in DOMAIN @ |-> IF i - ofs \in DOMAIN bytes THEN bytes[i - ofs] ELSE @[i]]]

-----------------------------------------------------------------------------
(* fsutil_extract() *)

Command == /\ job.at = "idle" /\ count.commands < MaxCommands

\* A buffer or the page could not be allocated, or a file is not there.
GiveUp == /\ job' = Panic
          /\ UNCHANGED <<scratch, files, static, ghosts>>

fsutil_extract ==
  /\ Command
  /\ count' = [count EXCEPT !.commands = @ + 1, !.extracts = @ + 1,
                            !.late = @ \/ appended # <<>>]
  /\ \/ GiveUp
     \/ /\ job' = Job("header", <<>>, 0, 0)
        /\ UNCHANGED <<scratch, files, static, ghosts>>

(* Mutant of CreateFile: a file that is already there is skipped. *)
CreateFile_skip(h) ==
  IF filesys_create_fails(h.file_name, h.size) THEN UNCHANGED <<job, files>>
  ELSE /\ files' = files @@ (h.file_name :> Zeros(h.size))
       /\ job' = IF h.size = 0 THEN job ELSE Job("data", h.file_name, h.size, 0)

\* Creates the file of a header and opens it; memory may run out before and after.
CreateFile(h) ==
  IF filesys_create_fails(h.file_name, h.size) THEN job' = Panic /\ UNCHANGED files
  ELSE \/ job' = Panic /\ UNCHANGED files
       \/ /\ files' = files @@ (h.file_name :> Zeros(h.size))
          /\ job' \in {Panic, IF h.size = 0 THEN job ELSE Job("data", h.file_name, h.size, 0)}

ReadHeader ==
  /\ job.at = "header"
  /\ extract_sector' = extract_sector + 1
  /\ IF ~OnDevice(extract_sector) THEN job' = Panic /\ UNCHANGED files
     ELSE LET h == Parse(scratch[extract_sector])
          IN IF "error" \in DOMAIN h THEN job' = Panic /\ UNCHANGED files
             ELSE IF h.type = "EOF" THEN job' = Job("erase", <<>>, 0, 0) /\ UNCHANGED files
             ELSE IF h.type = "directory" THEN UNCHANGED <<job, files>>
             ELSE CreateFile(h)
  /\ UNCHANGED <<scratch, append_sector, count, ghosts>>

ExtractData ==
  /\ job.at = "data"
  /\ extract_sector' = extract_sector + 1
  /\ IF ~OnDevice(extract_sector) THEN job' = Panic /\ UNCHANGED files
     ELSE LET chunk == Chunk(job.left)
              sector == scratch[extract_sector]
              bytes == IF "data" \in DOMAIN sector THEN sector.data ELSE Zeros(BLOCK_SECTOR_SIZE)
          IN /\ file_write(job.name, job.ofs, SubSeq(bytes, 1, chunk))
             /\ job' = IF job.left = chunk THEN Job("header", <<>>, 0, 0)
                       ELSE Job("data", job.name, job.left - chunk, job.ofs + chunk)
  /\ UNCHANGED <<scratch, append_sector, count, ghosts>>

(* Mutant of Erase: it erases the sectors after the one it stopped at. *)
Erase_here ==
  /\ job.at = "erase"
  /\ IF ~OnDevice(extract_sector + job.ofs - 1) THEN job' = Panic /\ UNCHANGED <<scratch, extracted>>
     ELSE /\ scratch' = [scratch EXCEPT ![extract_sector + job.ofs - 1] = ZeroSector]
          /\ job' = IF job.ofs = 1 THEN Idle ELSE [job EXCEPT !.ofs = @ + 1]
          /\ extracted' = (job.ofs = 1 \/ extracted)
  /\ UNCHANGED <<files, static, count, appended, owed>>

\* Writes zeros over sectors 0 and 1, in this order; a write past the end panics.
Erase ==
  /\ job.at = "erase"
  /\ IF ~OnDevice(job.ofs) THEN job' = Panic /\ UNCHANGED <<scratch, extracted>>
     ELSE /\ scratch' = [scratch EXCEPT ![job.ofs] = ZeroSector]
          /\ job' = IF job.ofs = 1 THEN Idle ELSE [job EXCEPT !.ofs = @ + 1]
          /\ extracted' = (job.ofs = 1 \/ extracted)
  /\ UNCHANGED <<files, static, count, appended, owed>>

-----------------------------------------------------------------------------
(* fsutil_append(), fsutil_rm(), fsutil_cat() *)

\* An append gives up what the device held.
WriteHeader(name) ==
  LET h == ustar_make_header(name, REGULAR, Len(files[name]))
  IN IF h = NoHeader \/ ~OnDevice(append_sector) THEN GiveUp
     ELSE /\ scratch' = [scratch EXCEPT ![append_sector] = h]
          /\ append_sector' = append_sector + 1
          /\ job' = Job(IF files[name] = <<>> THEN "mark" ELSE "copy", name, Len(files[name]), 0)
          /\ appended' = Append(appended, [name |-> strip_antisocial_prefixes(name), data |-> files[name]])
          /\ owed' = {} /\ extracted' = FALSE
          /\ UNCHANGED <<files, extract_sector>>

fsutil_append ==
  /\ Command
  /\ count' = [count EXCEPT !.commands = @ + 1]
  /\ \/ GiveUp
     \/ \E name \in DOMAIN files : WriteHeader(name)

CopyData ==
  /\ job.at = "copy"
  /\ IF ~OnDevice(append_sector) THEN job' = Panic /\ UNCHANGED <<scratch, append_sector>>
     ELSE LET chunk == Chunk(job.left)
          IN /\ scratch' = [scratch EXCEPT ![append_sector] =
                              DataSector(SubSeq(files[job.name], job.ofs + 1, job.ofs + chunk))]
             /\ append_sector' = append_sector + 1
             /\ job' = IF job.left = chunk THEN Job("mark", <<>>, 0, 0)
                       ELSE Job("copy", job.name, job.left - chunk, job.ofs + chunk)
  /\ UNCHANGED <<files, extract_sector, count, ghosts>>

(* Mutant of Mark: the position moves past the first sector of the marker. *)
Mark_advancing ==
  /\ job.at = "mark"
  /\ IF ~OnDevice(append_sector + job.ofs) THEN job' = Panic /\ UNCHANGED <<scratch, append_sector>>
     ELSE /\ scratch' = [scratch EXCEPT ![append_sector + job.ofs] = ZeroSector]
          /\ job' = IF job.ofs = 1 THEN Idle ELSE Job("mark", <<>>, 0, 1)
          /\ append_sector' = append_sector + job.ofs
  /\ UNCHANGED <<files, extract_sector, count, ghosts>>

Mark ==
  /\ job.at = "mark"
  /\ IF ~OnDevice(append_sector + job.ofs) THEN job' = Panic /\ UNCHANGED scratch
     ELSE /\ scratch' = [scratch EXCEPT ![append_sector + job.ofs] = ZeroSector]
          /\ job' = IF job.ofs = 1 THEN Idle ELSE Job("mark", <<>>, 0, 1)
  /\ UNCHANGED <<files, static, count, ghosts>>

fsutil_rm ==
  /\ Command
  /\ count' = [count EXCEPT !.commands = @ + 1]
  /\ \/ GiveUp
     \/ \E name \in DOMAIN files :
          /\ files' = [f \in DOMAIN files \ {name} |-> files[f]]
          /\ owed' = {e \in owed : e.name # name}
          /\ UNCHANGED <<scratch, static, job, appended, extracted>>

\* Prints a file, or fails to open it or to get a page.
fsutil_cat ==
  /\ Command
  /\ count' = [count EXCEPT !.commands = @ + 1]
  /\ GiveUp \/ UNCHANGED <<scratch, files, static, job, ghosts>>

Reboot ==
  /\ count.boots < MaxBoots
  /\ count' = [count EXCEPT !.boots = @ + 1, !.extracts = 0, !.late = FALSE]
  /\ extract_sector' = 0 /\ append_sector' = 0
  /\ job' = Idle /\ appended' = <<>>
  /\ UNCHANGED <<scratch, files, owed, extracted>>

Next == \/ fsutil_extract \/ ReadHeader \/ ExtractData \/ Erase
        \/ fsutil_append \/ CopyData \/ Mark
        \/ fsutil_rm \/ fsutil_cat \/ Reboot

Spec == Init /\ [][Next]_vars

-----------------------------------------------------------------------------
(* Whatever panics and reboots come, a file of the archive is complete in  *)
(* the file system or still in the archive: fsutil_extract() erases the    *)
(* archive's start only when it has put every file in its place.           *)
NothingLost ==
  \A e \in owed : \/ e.name \in DOMAIN files /\ files[e.name] = e.data
                  \/ e \in Range(Entries(scratch, 0))

(* After each completed fsutil_append() the archive reads back as exactly  *)
(* the files appended since the boot, in order and with their contents,    *)
(* unless an extract has run after an append in the same boot, which the   *)
(* comment of fsutil_append() rules out.                                   *)
AppendsRight ==
  job.at = "idle" /\ appended # <<>> /\ ~count.late => Entries(scratch, 0) = appended

\* A step of an extract.
Harmless == job.at \in {"header", "data"} => files' = files /\ job'.at # "panic"
FirstHarmless == extracted /\ count.extracts = 1 => Harmless

(* Once an extract has completed, the first extract of a later boot finds  *)
(* no file and no bad header: the erased sectors make fsutil_extract()     *)
(* idempotent across boots.                                                *)
IdempotentAcrossBoots == [][FirstHarmless]_vars

(* "so that the extraction operation is idempotent" (fsutil.c): once an    *)
(* extract has completed, another one finds no file and no bad header.     *)
Idempotent == [][extracted => Harmless]_vars
=============================================================================
