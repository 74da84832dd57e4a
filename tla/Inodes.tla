------------------------------- MODULE Inodes -------------------------------
(***************************************************************************)
(* filesys/inode.c: the table of open inodes used by several threads.  The *)
(* kernel has them: each "run" action starts a thread that opens files     *)
(* while main() goes on to the next action, and nothing locks the file     *)
(* system.  inode_open() is cut where the thread may be preempted or       *)
(* sleeps: after the search, after malloc(), after the insertion and in    *)
(* block_read().  The contents of an inode are the sector they were read   *)
(* from, or Garbage.                                                       *)
(***************************************************************************)
EXTENDS Naturals

CONSTANTS Opener,      \* threads
          Sector,      \* of the files' inodes
          Inode,       \* the blocks malloc() can return
          Garbage      \* what is in no sector

VARIABLES open_list,    \* open_inodes, the list; its order is left out
          inode,        \* struct inode: sector, open_cnt, removed, data
          opening,      \* each thread's inode_open() in progress
          got,          \* the pointers each thread got and has not closed
          live,         \* the files that are in the directory
          released      \* how often the blocks of a file were given back

inodes_vars == <<open_list, inode, opening, got, live, released>>

Freed == [sector |-> Garbage, open_cnt |-> 0, removed |-> FALSE, data |-> Garbage]
Opening(place, sector, i) == [at |-> place, sector |-> sector, inode |-> i]
NotOpening == Opening("out", Garbage, Garbage)
Taken == open_list \cup {opening[t].inode : t \in Opener}

InodesInit ==
  /\ open_list = {} /\ inode = [i \in Inode |-> Freed]
  /\ opening = [t \in Opener |-> NotOpening] /\ got = [t \in Opener |-> {}]
  /\ live = Sector /\ released = [s \in Sector |-> 0]

MayStart(t) == opening[t] = NotOpening

-----------------------------------------------------------------------------
\* The open inodes of a sector.
Search(sector) == {i \in open_list : inode[i].sector = sector}

\* A thread has at most one inode open (bound).
inode_open(t, sector) ==
  /\ MayStart(t) /\ got[t] = {} /\ sector \in live
  /\ IF Search(sector) # {}
     THEN \E i \in Search(sector) :
            /\ inode' = [inode EXCEPT ![i].open_cnt = @ + 1]
            /\ got' = [got EXCEPT ![t] = {i}]
            /\ UNCHANGED opening
     ELSE /\ opening' = [opening EXCEPT ![t] = Opening("malloc", sector, Garbage)]
          /\ UNCHANGED <<inode, got>>
  /\ UNCHANGED <<open_list, live, released>>

\* malloc() may sleep, and fail.
Allocate(t) ==
  /\ opening[t].at = "malloc"
  /\ \/ opening' = [opening EXCEPT ![t] = NotOpening]
     \/ \E i \in Inode \ Taken : opening' = [opening EXCEPT ![t] = Opening("insert", @.sector, i)]
  /\ UNCHANGED <<open_list, inode, got, live, released>>

Insert(t) ==
  LET i == opening[t].inode IN
  /\ opening[t].at = "insert"
  /\ open_list' = open_list \cup {i}
  /\ inode' = [inode EXCEPT ![i] = [sector |-> opening[t].sector, open_cnt |-> 1, removed |-> FALSE, data |-> Garbage]]
  /\ opening' = [opening EXCEPT ![t] = Opening("read", @.sector, i)]
  /\ UNCHANGED <<got, live, released>>

\* block_read() returns, and so does inode_open().
Read(t) ==
  LET i == opening[t].inode IN
  /\ opening[t].at = "read"
  /\ inode' = [inode EXCEPT ![i].data = opening[t].sector]
  /\ got' = [got EXCEPT ![t] = {i}]
  /\ opening' = [opening EXCEPT ![t] = NotOpening]
  /\ UNCHANGED <<open_list, live, released>>

inode_close(t, i) ==
  /\ MayStart(t) /\ i \in got[t]
  /\ got' = [got EXCEPT ![t] = @ \ {i}]
  /\ IF inode[i].open_cnt = 1
     THEN /\ open_list' = open_list \ {i}
          /\ released' = IF inode[i].removed THEN [released EXCEPT ![inode[i].sector] = @ + 1] ELSE released
          /\ inode' = [inode EXCEPT ![i] = Freed]
     ELSE inode' = [inode EXCEPT ![i].open_cnt = @ - 1] /\ UNCHANGED <<open_list, released>>
  /\ UNCHANGED <<opening, live>>

\* dir_remove() has erased the directory entry of an inode it opened.
inode_remove(t, i) ==
  /\ MayStart(t) /\ i \in got[t] /\ inode[i].sector \in live
  /\ inode' = [inode EXCEPT ![i].removed = TRUE]
  /\ live' = live \ {inode[i].sector}
  /\ UNCHANGED <<open_list, opening, got, released>>

\* A file is made again in the sectors a removed one gave back.
CreateAgain(t, sector) ==
  /\ MayStart(t) /\ sector \notin live /\ released[sector] > 0
  /\ live' = live \cup {sector} /\ released' = [released EXCEPT ![sector] = 0]
  /\ UNCHANGED <<open_list, inode, opening, got>>

InodesNext ==
  \E t \in Opener :
    \/ \E s \in Sector : inode_open(t, s) \/ CreateAgain(t, s)
    \/ Allocate(t) \/ Insert(t) \/ Read(t)
    \/ \E i \in got[t] : inode_close(t, i) \/ inode_remove(t, i)

InodesSpec == InodesInit /\ [][InodesNext]_inodes_vars

-----------------------------------------------------------------------------
(* "List of open inodes, so that opening a single inode twice returns the  *)
(* same `struct inode'." (inode.c): no sector has two open inodes.         *)
OneInodePerSector ==
  \A i, j \in open_list : inode[i].sector = inode[j].sector => i = j

(* "Reads an inode from SECTOR and returns a `struct inode' that contains  *)
(* it." (inode.c): the inode a thread has got from inode_open() and not    *)
(* closed is in the list, and holds what was read from its sector.         *)
ReturnsContents ==
  \A t \in Opener : \A i \in got[t] :
    i \in open_list /\ inode[i].sector \in Sector /\ inode[i].data = inode[i].sector
=============================================================================
