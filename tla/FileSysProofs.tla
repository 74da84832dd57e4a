--------------------------- MODULE FileSysProofs ----------------------------
EXTENDS FileSysSteps

-----------------------------------------------------------------------------
(* Denying, closing and removing                                           *)

(* file_deny_write() and file_allow_write() change one count of one inode. *)
Denied(oi, s, k) == [oi EXCEPT ![s].deny_write_cnt = k]

LEMMA DenyTable ==
  ASSUME NEW oi \in OpenTable, NEW s \in DiskSector, oi[s] # Nil, NEW k \in Nat, NEW oj,
         oj = Denied(oi, s, k)
  PROVE  /\ oj \in OpenTable
         /\ \A t \in DiskSector :
              /\ oj[t] # Nil <=> oi[t] # Nil
              /\ oi[t] # Nil => /\ oj[t].data = oi[t].data /\ oj[t].removed = oi[t].removed
                                /\ oj[t].deny_write_cnt = IF t = s THEN k ELSE oi[t].deny_write_cnt
              /\ Cnt(oj, t) = Cnt(oi, t)
<1>1. oi[s] \in OpenInode
  BY DEF OpenTable
<1>. DEFINE r == [oi[s] EXCEPT !.deny_write_cnt = k]
<1>2. r \in OpenInode /\ r.data = oi[s].data /\ r.removed = oi[s].removed
      /\ r.deny_write_cnt = k /\ r.open_cnt = oi[s].open_cnt
  BY <1>1 DEF OpenInode
<1>3. oj = [oi EXCEPT ![s] = r]
  BY DEF Denied
<1>4. r # Nil
  BY <1>2, NilApart
<1>. HIDE DEF r
<1>5. oj \in OpenTable /\ oj[s] = r /\ \A t \in DiskSector \ {s} : oj[t] = oi[t]
  BY <1>2, <1>3 DEF OpenTable
<1>. QED  BY <1>2, <1>4, <1>5 DEF Cnt

(* The assertions of inode_deny_write() and inode_allow_write() hold: the  *)
(* files that deny writes are among those that are open.                   *)
LEMMA DeniersBound ==
  ASSUME CountFacts, IInv, NEW s \in DiskSector, open_inodes[s] # Nil
  PROVE  /\ open_inodes[s].deny_write_cnt = Cardinality(Deniers(s))
         /\ Cardinality(Openers(s)) <= open_inodes[s].open_cnt
         /\ Cardinality(Deniers(s)) \in Nat /\ Cardinality(Openers(s)) \in Nat
         /\ open_inodes[s].open_cnt \in Nat
<1>1. open_inodes[s].deny_write_cnt = Cardinality(Deniers(s))
  BY DenyIs DEF IInv
<1>2. /\ Cnt(open_inodes, s) >= Cardinality(Openers(s)) + Extra(s)
      /\ Cnt(open_inodes, s) = open_inodes[s].open_cnt
  BY DEF IInv, Counted, Cnt
<1>3. Cnt(open_inodes, s) \in Nat
  BY CntNat DEF IInv, TypeOK, OpenTable
<1>. QED  BY <1>1, <1>2, <1>3, OpenersCount, ExtraNat

LEMMA TableTyped ==
  ASSUME IInv
  PROVE  open_inodes \in OpenTable
  BY DEF IInv, TypeOK, OpenTable

LEMMA DenyingInv ==
  ASSUME IInv, pc = "idle", UNCHANGED <<disk, free_map, pc, call, setting>>,
         NEW s \in DiskSector, open_inodes[s] # Nil, NEW k \in Nat,
         open_inodes' = Denied(open_inodes, s, k),
         file' \in [Handle -> File \cup {Nil}],
         \A t : Openers(t)' = Openers(t),
         \A t \in DiskSector : Cardinality(Deniers(t)') = IF t = s THEN k ELSE Cardinality(Deniers(t))
  PROVE  IInv'
<1>1. /\ open_inodes' \in OpenTable
      /\ \A t \in DiskSector :
           /\ open_inodes'[t] # Nil <=> open_inodes[t] # Nil
           /\ open_inodes[t] # Nil =>
                /\ open_inodes'[t].data = open_inodes[t].data /\ open_inodes'[t].removed = open_inodes[t].removed
                /\ open_inodes'[t].deny_write_cnt = IF t = s THEN k ELSE open_inodes[t].deny_write_cnt
           /\ Cnt(open_inodes', t) = Cnt(open_inodes, t)
  BY TableTyped, DenyTable
<1>2. UNCHANGED <<map_file, disk_inode, entry, content>>
  BY DEF disk
<1>3. FilesOK'
  <2>1. \A t \in DiskSector : open_inodes'[t] # Nil =>
           /\ Live(t)
           /\ open_inodes'[t].data = disk_inode[t]
           /\ open_inodes'[t].removed =>
                ~HasEntry(t)' /\ t \notin {FREE_MAP_SECTOR, ROOT_DIR_SECTOR}
    BY <1>1, <1>2, SameEntries DEF Live, IInv, FilesOK, OpenOK
  <2>. QED  BY <1>2, <2>1, SameEntries, TableFiles DEF IInv, FilesOK
<1>4. DenyWriteExact'
  BY <1>1, DenyIs, DenyIsPrime DEF IInv
<1>5. Counted'
  <2>1. \A t \in DiskSector : Extra(t)' = Extra(t)
    BY DEF Extra, RootOpen, InCall
  <2>2. Links' <=> Links
    BY DEF Links
  <2>. QED  BY <1>1, <2>1, <2>2 DEF IInv, Counted
<1>6. TypeOK'
  BY <1>1, <1>2 DEF IInv, TypeOK, OpenTable
<1>7. CallTypeOK' /\ CallApart'
  BY NoCallBlocks DEF HoldsBlocks, Releasing, IInv, CallTypeOK, Links
<1>8. NoLinks' /\ (~MemoryFails' => NamesUnique')
  BY <1>2, SameLinks, SameNames DEF IInv
<1>. QED  BY Zenon, <1>3, <1>4, <1>5, <1>6, <1>7, <1>8 DEF IInv

LEMMA HandleInode ==
  ASSUME CountFacts, IInv, NEW h \in Handle, file[h] # Nil
  PROVE  /\ file[h].inode \in DiskSector /\ file[h].deny_write \in BOOLEAN
         /\ open_inodes[file[h].inode] # Nil
<1>1. file[h].inode \in DiskSector /\ file[h].deny_write \in BOOLEAN
  BY DEF IInv, TypeOK, File
<1>. QED  BY <1>1, Referred DEF IInv

LEMMA DenyWriteInv ==
  ASSUME CountFacts, IInv, NEW h \in Handle, file_deny_write(h), UNCHANGED setting
  PROVE  IInv'
<1>. DEFINE s == file[h].inode
            k == open_inodes[s].deny_write_cnt + 1
<1>1. /\ pc = "idle" /\ file[h] # Nil /\ ~file[h].deny_write
      /\ open_inodes' = Denied(open_inodes, s, k)
      /\ file' = [file EXCEPT ![h].deny_write = TRUE]
      /\ UNCHANGED <<disk, free_map>>
  BY DEF file_deny_write, MayCall, Denied
<1>2. s \in DiskSector /\ open_inodes[s] # Nil /\ file[h].deny_write = FALSE
  BY <1>1, HandleInode
<1>3. /\ file' \in [Handle -> File \cup {Nil}]
      /\ \A t : /\ Openers(t)' = Openers(t)
                /\ Cardinality(Deniers(t)') = Cardinality(Deniers(t)) + (IF t = s THEN 1 ELSE 0)
  BY Zenon, <1>1, <1>2, FileDenies DEF IInv
<1>4. open_inodes[s].deny_write_cnt = Cardinality(Deniers(s)) /\ k \in Nat
  BY <1>2, DeniersBound
<1>5. \A t : Cardinality(Deniers(t)') <= Cardinality(Openers(t))
  <2>1. \A t : Deniers(t)' \in SUBSET Openers(t)' /\ Openers(t) \in SUBSET Handle
    BY DEF Deniers, Openers
  <2>. QED  BY <1>3, <2>1, Counting
<1>6. open_inodes'[s].deny_write_cnt = k
  BY SMTT(30), <1>1, <1>2, <1>4, TableTyped, DenyTable
<1>7. k <= open_inodes[s].open_cnt
  BY SMTT(30), <1>2, <1>3, <1>4, <1>5, DeniersBound
<1>8. UNCHANGED <<pc, call>>
  BY Zenon, <1>6, <1>7 DEF file_deny_write
<1>9. \A t \in DiskSector : Cardinality(Deniers(t)') = IF t = s THEN k ELSE Cardinality(Deniers(t))
  BY SMTT(30), <1>3, <1>4, OpenersCount
<1>. HIDE DEF s, k
<1>. QED  BY Zenon, <1>1, <1>2, <1>3, <1>4, <1>8, <1>9, DenyingInv

(* What file_allow_write() makes of the table. *)
LEMMA AllowedIs ==
  ASSUME CountFacts, IInv, NEW h \in Handle, file[h] # Nil, NEW oi, oi = Allowed(open_inodes, file[h])
  PROVE  /\ AllowAsserts(open_inodes, file[h])
         /\ oi \in OpenTable
         /\ \A t \in DiskSector :
              /\ oi[t] # Nil <=> open_inodes[t] # Nil
              /\ open_inodes[t] # Nil =>
                   /\ oi[t].data = open_inodes[t].data /\ oi[t].removed = open_inodes[t].removed
                   /\ oi[t].deny_write_cnt = Cardinality(Deniers(t))
                        - (IF t = file[h].inode /\ file[h].deny_write THEN 1 ELSE 0)
              /\ Cnt(oi, t) = Cnt(open_inodes, t)
<1>. DEFINE s == file[h].inode
<1>1. s \in DiskSector /\ open_inodes[s] # Nil
  BY HandleInode
<1>2. \A t \in DiskSector : open_inodes[t] # Nil =>
        open_inodes[t].deny_write_cnt = Cardinality(Deniers(t)) /\ Cardinality(Deniers(t)) \in Nat
  BY DeniersBound
<1>3. CASE ~file[h].deny_write
  <2>1. oi = open_inodes /\ oi \in OpenTable
    BY Zenon, <1>3 DEF Allowed, IInv, TypeOK, OpenTable
  <2>. QED  BY <1>2, <1>3, <2>1 DEF AllowAsserts
<1>4. CASE file[h].deny_write
  <2>1. Cardinality(Deniers(s)) \in Nat \ {0} /\ Cardinality(Deniers(s)) <= Cardinality(Openers(s))
    <3>1. h \in Deniers(s) /\ Deniers(s) \in SUBSET Handle
      BY <1>4 DEF Deniers
    <3>2. Cardinality(Deniers(s)) # 0
      BY Zenon, <3>1, Counting
    <3>. QED  BY <3>2, OpenersCount
  <2>. DEFINE k == open_inodes[s].deny_write_cnt - 1
  <2>2. k \in Nat /\ k = Cardinality(Deniers(s)) - 1
    BY SMTT(30), <1>1, <1>2, <2>1
  <2>3. AllowAsserts(open_inodes, file[h])
    BY SMTT(30), <1>1, <2>1, DeniersBound DEF AllowAsserts
  <2>4. oi = Denied(open_inodes, s, k)
    BY Zenon, <1>4 DEF Allowed, Denied
  <2>. HIDE DEF s, k
  <2>5. /\ oi \in OpenTable
        /\ \A t \in DiskSector :
              /\ oi[t] # Nil <=> open_inodes[t] # Nil
              /\ open_inodes[t] # Nil =>
                   /\ oi[t].data = open_inodes[t].data /\ oi[t].removed = open_inodes[t].removed
                   /\ oi[t].deny_write_cnt = IF t = s THEN k ELSE open_inodes[t].deny_write_cnt
              /\ Cnt(oi, t) = Cnt(open_inodes, t)
    BY SMTT(30), <1>1, <2>2, <2>4, TableTyped, DenyTable
  <2>. QED  BY SMTT(30), <1>2, <1>4, <2>2, <2>3, <2>5 DEF s
<1>. QED  BY <1>3, <1>4

LEMMA AllowWriteInv ==
  ASSUME CountFacts, IInv, NEW h \in Handle, file_allow_write(h), UNCHANGED setting
  PROVE  IInv'
<1>. DEFINE s == file[h].inode
            k == open_inodes[s].deny_write_cnt - 1
<1>1. /\ pc = "idle" /\ file[h] # Nil /\ file[h].deny_write
      /\ open_inodes' = Allowed(open_inodes, file[h])
      /\ file' = [file EXCEPT ![h].deny_write = FALSE]
      /\ UNCHANGED <<disk, free_map>>
  BY DEF file_allow_write, MayCall
<1>2. AllowAsserts(open_inodes, file[h])
  BY <1>1, AllowedIs
<1>3. s \in DiskSector /\ open_inodes[s] # Nil /\ file[h].deny_write = TRUE
  BY <1>1, HandleInode
<1>4. /\ file' \in [Handle -> File \cup {Nil}]
      /\ \A t : /\ Openers(t)' = Openers(t)
                /\ Cardinality(Deniers(t)') = Cardinality(Deniers(t)) + (IF t = s THEN -1 ELSE 0)
  BY Zenon, <1>1, <1>3, FileDenies DEF IInv
<1>5. open_inodes[s].deny_write_cnt = Cardinality(Deniers(s)) /\ k \in Nat
  BY SMTT(30), <1>1, <1>2, <1>3, DeniersBound DEF AllowAsserts
<1>6. UNCHANGED <<pc, call>>
  BY <1>2 DEF file_allow_write
<1>7. open_inodes' = Denied(open_inodes, s, k)
  BY Zenon, <1>1 DEF Allowed, Denied
<1>8. \A t \in DiskSector : Cardinality(Deniers(t)') = IF t = s THEN k ELSE Cardinality(Deniers(t))
  BY SMTT(30), <1>4, <1>5, OpenersCount
<1>. HIDE DEF s, k
<1>. QED  BY Zenon, <1>1, <1>3, <1>4, <1>5, <1>6, <1>7, <1>8, DenyingInv

LEMMA WrittenTyped ==
  ASSUME IInv, NEW s \in DiskSector, open_inodes[s] # Nil, NEW v \in Name, inode_write_at(s, v)
  PROVE  content' \in [DiskSector -> Name \cup {Nil}]
<1>1. open_inodes[s].data.start \in DiskSector
  BY DEF IInv, TypeOK, OpenInode, InodeData
<1>. QED  BY <1>1 DEF inode_write_at, IInv, TypeOK

LEMMA WriteInv ==
  ASSUME CountFacts, IInv, NEW h \in Handle, NEW v \in Name, file_write(h, v), UNCHANGED setting
  PROVE  IInv'
<1>1. /\ pc = "idle" /\ file[h] # Nil /\ inode_write_at(file[h].inode, v)
      /\ UNCHANGED <<map_file, disk_inode, entry, free_map, open_inodes, file, pc, call>>
  BY DEF file_write, MayCall, memory
<1>2. content' \in [DiskSector -> Name \cup {Nil}]
  BY <1>1, HandleInode, WrittenTyped
<1>3. TypeOK'
  BY Zenon, <1>1, <1>2 DEF IInv, TypeOK
<1>4. FilesOK'
  <2>1. \A t \in DiskSector : open_inodes'[t] # Nil =>
           /\ Live(t)
           /\ open_inodes'[t].data = disk_inode[t]
           /\ open_inodes'[t].removed =>
                ~HasEntry(t)' /\ t \notin {FREE_MAP_SECTOR, ROOT_DIR_SECTOR}
    BY <1>1, SameEntries DEF Live, IInv, FilesOK, OpenOK
  <2>. QED  BY <1>1, <2>1, SameEntries, TableFiles DEF IInv, FilesOK
<1>5. CallTypeOK' /\ CallApart'
  BY <1>1, NoCallBlocks DEF HoldsBlocks, Releasing, IInv, CallTypeOK, Links
<1>6. Counted' /\ DenyWriteExact'
  <2>1. (RootOpen' <=> RootOpen) /\ \A s \in DiskSector : InCall(s)' <=> InCall(s)
    BY <1>1 DEF RootOpen, InCall
  <2>. QED  BY <1>1, <2>1, SameCounts DEF IInv
<1>7. NoLinks' /\ (~MemoryFails' => NamesUnique')
  BY <1>1, SameLinks, SameNames DEF IInv
<1>. QED  BY <1>3, <1>4, <1>5, <1>6, <1>7 DEF IInv

\* A file or the call in progress gives up a reference to the inode of sector s.
Dropped(s) ==
  \A t \in DiskSector :
    Cardinality(Openers(t)') + Extra(t)' = Cardinality(Openers(t)) + Extra(t) - (IF t = s THEN 1 ELSE 0)

(* A step that closes an inode: the table oi is the one it is closed in. *)
LEMMA ClosingInv ==
  ASSUME CountFacts, IInv, NEW oi, Closable(oi), NEW s \in DiskSector, oi[s] # Nil,
         NEW next \in {"idle", "dir_close"}, CloseThen(oi, s, next), pc # "panic",
         UNCHANGED <<map_file, disk_inode, free_map>>, UNCHANGED setting,
         EntriesOK', \A t \in DiskSector : HasEntry(t)' => HasEntry(t),
         entry' \in [Slot -> DirEntry \cup {Nil}],
         content' \in [DiskSector -> Name \cup {Nil}],
         file' \in [Handle -> File \cup {Nil}],
         ~MemoryFails' => NamesUnique',
         \A t \in DiskSector : Cnt(oi, t) = Cnt(open_inodes, t), Dropped(s),
         \A t \in DiskSector : oi[t] # Nil => oi[t].deny_write_cnt = Cardinality(Deniers(t)')
  PROVE  IInv'
<1>1. call \in CallRecord /\ TypeOK /\ FilesOK
  BY Zenon DEF IInv, CallTypeOK
<1>2. FilesOK' /\ CallApart'
  BY <1>1, ClosingFiles
<1>3. /\ open_inodes' \in OpenTable
      /\ \A t \in DiskSector \ {s} : open_inodes'[t] = oi[t]
      /\ Cnt(open_inodes', s) = Cnt(oi, s) - 1
      /\ open_inodes'[s] # Nil => open_inodes'[s] = [oi[s] EXCEPT !.open_cnt = @ - 1]
  <2>1. open_inodes' = Closed(oi, s) /\ oi \in OpenTable
    BY DEF CloseThen, Closable
  <2>. QED  BY SMTT(30), <2>1, ClosedIs
<1>4. oi[s] \in OpenInode
  BY Zenon DEF Closable, OpenTable
<1>5. DenyWriteExact'
  <2>1. open_inodes'[s] # Nil => open_inodes'[s].deny_write_cnt = oi[s].deny_write_cnt
    BY ZenonT(60), <1>3, <1>4 DEF OpenInode
  <2>. QED  BY <1>3, <2>1, DenyIsPrime
<1>6. Counted'
  <2>1. \A t \in DiskSector : Cnt(open_inodes', t) = Cnt(open_inodes, t) - (IF t = s THEN 1 ELSE 0)
    <3>1. \A t \in DiskSector : Cnt(open_inodes, t) \in Nat
      BY TableTyped, CntNat
    <3>2. \A t \in DiskSector \ {s} : Cnt(open_inodes', t) = Cnt(oi, t)
      BY <1>3 DEF Cnt
    <3>. QED  BY <1>3, <3>1, <3>2
  <2>2. Links' <=> Links
    BY Zenon DEF Links
  <2>3. \A t \in DiskSector : /\ Cnt(open_inodes, t) \in Nat /\ Cardinality(Openers(t)) \in Nat
                              /\ Extra(t) \in Nat
    BY TableTyped, CntNat, OpenersCount, ExtraNat
  <2>. DEFINE O(t) == Cardinality(Openers(t)') + Extra(t)'
  <2>4. \A t \in DiskSector : O(t) = Cardinality(Openers(t)) + Extra(t) - (IF t = s THEN 1 ELSE 0)
    BY Zenon DEF Dropped
  <2>5. (\A t \in DiskSector : /\ Cnt(open_inodes', t) >= O(t)
                               /\ ~Links' => Cnt(open_inodes', t) = O(t)) => Counted'
    BY Zenon DEF Counted
  <2>. HIDE DEF O
  <2>6. \A t \in DiskSector : /\ Cnt(open_inodes, t) >= Cardinality(Openers(t)) + Extra(t)
                              /\ ~Links => Cnt(open_inodes, t) = Cardinality(Openers(t)) + Extra(t)
    BY DEF IInv, Counted
  <2>. QED  BY SMTT(30), <2>1, <2>2, <2>3, <2>4, <2>5, <2>6
<1>7. pc' \in {"release_inode", next} /\ call' \in CallRecord
      /\ (pc' = "idle" => call' = NoCall)
      /\ (call' = NoCall \/ (/\ call'.op = call.op /\ call'.name = call.name
                             /\ call'.target = call.target))
  <2>1. oi[s].data.start \in DiskSector /\ oi[s].data.cnt \in Nat
    BY Zenon, <1>4 DEF OpenInode, InodeData
  <2>2. pc' \in {"release_inode", next}
    BY DEF CloseThen, Return
  <2>3. \/ call' = NoCall /\ pc' = "idle"
        \/ call' = call /\ pc' = next /\ next # "idle"
        \/ /\ pc' = "release_inode"
           /\ call' = [call EXCEPT !.sector = s, !.start = oi[s].data.start, !.cnt = oi[s].data.cnt]
    BY DEF CloseThen, Return
  <2>. QED  BY ZenonT(60), <1>1, <2>1, <2>2, <2>3, NoCallTyped DEF CallRecord
<1>8. CallTypeOK'
  <2>1. Links' <=> Links
    BY Zenon DEF Links
  <2>2. /\ call.op \in {"create", "symlink"} => call.name \in Name
        /\ call.op = "symlink" => call.target \in Name /\ Links
    BY DEF IInv, CallTypeOK
  <2>. QED  BY Zenon, <1>7, <2>1, <2>2, NoCallTyped DEF CallTypeOK, Creating, Linking, Releasing
<1>9. TypeOK'
  BY <1>1, <1>3 DEF TypeOK, OpenTable
<1>10. NoLinks'
  BY <1>7, SameLinks DEF IInv
<1>. QED  BY ZenonT(60), <1>2, <1>5, <1>6, <1>8, <1>9, <1>10 DEF IInv

LEMMA CloseInv ==
  ASSUME CountFacts, IInv, NEW h \in Handle, file_close(h), UNCHANGED setting
  PROVE  IInv'
<1>. DEFINE oi == Allowed(open_inodes, file[h])
            s == file[h].inode
<1>1. /\ AllowAsserts(open_inodes, file[h])
      /\ oi \in OpenTable
      /\ \A t \in DiskSector :
              /\ oi[t] # Nil <=> open_inodes[t] # Nil
              /\ open_inodes[t] # Nil =>
                   /\ oi[t].data = open_inodes[t].data /\ oi[t].removed = open_inodes[t].removed
                   /\ oi[t].deny_write_cnt = Cardinality(Deniers(t))
                        - (IF t = s /\ file[h].deny_write THEN 1 ELSE 0)
              /\ Cnt(oi, t) = Cnt(open_inodes, t)
  <2>1. file[h] # Nil
    BY DEF file_close
  <2>. QED  BY <2>1, AllowedIs
<1>2. /\ pc = "idle" /\ file[h] # Nil /\ CloseThen(oi, s, "idle")
      /\ file' = [file EXCEPT ![h] = Nil]
      /\ UNCHANGED <<map_file, disk_inode, entry, content, free_map>>
  BY <1>1 DEF file_close, MayCall, disk
<1>3. s \in DiskSector /\ open_inodes[s] # Nil
  BY <1>2, HandleInode
<1>4. /\ file' \in [Handle -> File \cup {Nil}]
      /\ \A t : /\ Cardinality(Openers(t)') = Cardinality(Openers(t)) - (IF t = s THEN 1 ELSE 0)
                /\ Cardinality(Deniers(t)') =
                     Cardinality(Deniers(t)) - (IF t = s /\ file[h].deny_write THEN 1 ELSE 0)
  BY Zenon, <1>2, FileDropped DEF IInv
<1>5. \A t \in DiskSector : Extra(t)' = Extra(t)
  <2>1. pc' \in {"idle", "release_inode"} /\ call'.op = "none"
    <3>1. call = NoCall
      BY <1>2 DEF IInv, CallTypeOK
    <3>. HIDE DEF oi, s
    <3>2. \/ call' = NoCall /\ pc' = "idle"
          \/ /\ pc' = "release_inode"
             /\ call' = [NoCall EXCEPT !.sector = s, !.start = oi[s].data.start, !.cnt = oi[s].data.cnt]
      BY Zenon, <1>2, <3>1 DEF CloseThen, Return
    <3>. QED  BY Zenon, <3>2, NoCallTyped DEF CallRecord
  <2>. QED  BY <1>2, <2>1 DEF Extra, RootOpen, InCall, Creating, Releasing
<1>. HIDE DEF oi, s
<1>6. Closable(oi)
  BY <1>1, <1>2, SameEntries DEF Closable, IInv, FilesOK, OpenOK
<1>7. Dropped(s) /\ \A t \in DiskSector : oi[t] # Nil => oi[t].deny_write_cnt = Cardinality(Deniers(t)')
  <2>1. \A t \in DiskSector : Cardinality(Openers(t)) \in Nat /\ Extra(t) \in Nat
    BY Zenon, OpenersCount, ExtraNat
  <2>2. Dropped(s)
    BY <1>4, <1>5, <2>1 DEF Dropped
  <2>3. \A t \in DiskSector : oi[t] # Nil => oi[t].deny_write_cnt = Cardinality(Deniers(t)')
    BY Zenon, <1>1, <1>4
  <2>. QED  BY Zenon, <2>2, <2>3
<1>8. EntriesOK' /\ \A t \in DiskSector : HasEntry(t)' => HasEntry(t)
  BY <1>2, SameEntries DEF IInv, FilesOK
<1>9. /\ entry' \in [Slot -> DirEntry \cup {Nil}] /\ content' \in [DiskSector -> Name \cup {Nil}]
      /\ ~MemoryFails' => NamesUnique'
  BY <1>2, SameNames DEF IInv, TypeOK
<1>10. oi[s] # Nil /\ pc # "panic"
  BY Zenon, <1>1, <1>2, <1>3
<1>. QED  BY ZenonT(60), <1>1, <1>2, <1>3, <1>4, <1>6, <1>7, <1>8, <1>9, <1>10, ClosingInv

Removed(oi, s) == [oi EXCEPT ![s].removed = TRUE]

LEMMA RemovedTable ==
  ASSUME NEW oi \in OpenTable, NEW s \in DiskSector, oi[s] # Nil, NEW oj, oj = Removed(oi, s)
  PROVE  /\ oj \in OpenTable
         /\ \A t \in DiskSector :
              /\ oj[t] # Nil <=> oi[t] # Nil
              /\ oi[t] # Nil => /\ oj[t].data = oi[t].data
                                /\ oj[t].deny_write_cnt = oi[t].deny_write_cnt
              /\ t # s => oj[t] = oi[t]
              /\ Cnt(oj, t) = Cnt(oi, t)
<1>1. oi[s] \in OpenInode
  BY DEF OpenTable
<1>. DEFINE r == [oi[s] EXCEPT !.removed = TRUE]
<1>2. r \in OpenInode /\ r.data = oi[s].data /\ r.open_cnt = oi[s].open_cnt
      /\ r.deny_write_cnt = oi[s].deny_write_cnt
  BY Zenon, <1>1 DEF OpenInode
<1>3. oj = [oi EXCEPT ![s] = r]
  BY DEF Removed
<1>4. r # Nil
  BY Zenon, <1>2, NilApart
<1>. HIDE DEF r
<1>5. oj \in OpenTable /\ oj[s] = r /\ \A t \in DiskSector \ {s} : oj[t] = oi[t]
  BY <1>2, <1>3 DEF OpenTable
<1>. QED  BY <1>2, <1>4, <1>5 DEF Cnt

(* A call that closes the inode it refers to. *)
LEMMA CallCloses ==
  ASSUME CountFacts, IInv, NEW oi, NEW next, NEW s, s = call.sector, CloseThen(oi, s, next),
         UNCHANGED file,
         \/ pc = "erase" /\ next = "dir_close"
         \/ pc = "write_target" /\ next = "idle"
  PROVE  Dropped(s) /\ \A t \in DiskSector : Deniers(t)' = Deniers(t)
<1>1. \A t \in DiskSector : Openers(t)' = Openers(t) /\ Deniers(t)' = Deniers(t)
  BY DEF Openers, Deniers
<1>2. \A t \in DiskSector : (InCall(t) <=> t = s)
  BY DEF InCall
<1>3. call \in CallRecord /\ (pc = "erase" => call.op = "remove") /\ (pc = "write_target" => call.op = "symlink")
  BY DEF IInv, CallTypeOK, Linking
<1>4. pc' \in {"release_inode", next} /\ (pc' = "release_inode" => call'.op = call.op)
  <2>1. \/ call' = NoCall /\ pc' = "idle" /\ next = "idle"
        \/ call' = call /\ pc' = next /\ next # "idle"
        \/ /\ pc' = "release_inode"
           /\ call' = [call EXCEPT !.sector = s, !.start = oi[s].data.start, !.cnt = oi[s].data.cnt]
    BY DEF CloseThen, Return
  <2>. QED  BY Zenon, <1>3, <2>1 DEF CallRecord
<1>5. RootOpen' <=> RootOpen
  BY <1>3, <1>4 DEF RootOpen, Creating, Releasing
<1>6. \A t \in DiskSector : ~InCall(t)'
  BY <1>4 DEF InCall
<1>7. \A t \in DiskSector : Extra(t)' = Extra(t) - (IF t = s THEN 1 ELSE 0)
  BY <1>2, <1>5, <1>6 DEF Extra
<1>8. \A t \in DiskSector : Cardinality(Openers(t)) \in Nat /\ Extra(t) \in Nat
  BY Zenon, OpenersCount, ExtraNat
<1>. QED  BY <1>1, <1>7, <1>8 DEF Dropped

LEMMA DirRemoveInv ==
  ASSUME CountFacts, IInv, dir_remove, UNCHANGED setting
  PROVE  IInv'
<1>. DEFINE s == call.sector
<1>1. pc = "erase" /\ UNCHANGED <<map_file, disk_inode, content, free_map, file>>
  BY DEF dir_remove
<1>2. s \in DiskSector /\ open_inodes[s] # Nil
  <2>1. s \in DiskSector /\ InCall(s)
    BY Zenon, <1>1 DEF IInv, CallTypeOK, CallRecord, InCall
  <2>. QED  BY <2>1, Referred DEF IInv
<1>3. /\ call.slot \in Slot /\ NamedBy(call.slot, s)
      /\ \A j \in Slot : NamedBy(j, s) => j = call.slot
      /\ s \notin {FREE_MAP_SECTOR, ROOT_DIR_SECTOR}
  BY <1>1 DEF IInv, CallApart, FilesOK, EntriesOK, NamedBy
<1>4. /\ content' \in [DiskSector -> Name \cup {Nil}] /\ file' \in [Handle -> File \cup {Nil}]
      /\ entry \in [Slot -> DirEntry \cup {Nil}] /\ open_inodes \in OpenTable
  BY <1>1 DEF IInv, TypeOK, OpenTable
<1>5. \A t \in DiskSector : open_inodes[t] # Nil =>
        /\ open_inodes[t].data = disk_inode[t]
        /\ open_inodes[t].removed => ~HasEntry(t) /\ t \notin {FREE_MAP_SECTOR, ROOT_DIR_SECTOR}
        /\ open_inodes[t].deny_write_cnt = Cardinality(Deniers(t))
  BY DenyIs DEF IInv, FilesOK, OpenOK
<1>6. CASE /\ entry' = [entry EXCEPT ![call.slot] = Nil]
           /\ CloseThen([open_inodes EXCEPT ![s].removed = TRUE], s, "dir_close")
  <2>. DEFINE oi == Removed(open_inodes, s)
  <2>1. CloseThen(oi, s, "dir_close")
    BY <1>6 DEF Removed
  <2>2. /\ oi \in OpenTable
        /\ \A t \in DiskSector :
              /\ oi[t] # Nil <=> open_inodes[t] # Nil
              /\ open_inodes[t] # Nil => /\ oi[t].data = open_inodes[t].data
                                         /\ oi[t].deny_write_cnt = open_inodes[t].deny_write_cnt
              /\ t # s => oi[t] = open_inodes[t]
              /\ Cnt(oi, t) = Cnt(open_inodes, t)
    BY <1>2, <1>4, RemovedTable
  <2>. HIDE DEF oi
  <2>3. \A i \in Slot : entry'[i] # Nil => i # call.slot /\ entry'[i] = entry[i]
    BY <1>3, <1>4, <1>6
  <2>4. \A t : (HasEntry(t)' => HasEntry(t)) /\ (t = s => ~HasEntry(t)')
    BY <1>3, <2>3 DEF HasEntry, NamedBy
  <2>5. EntriesOK'
    BY <2>3 DEF IInv, FilesOK, EntriesOK, NamedBy
  <2>6. Closable(oi)
    BY <1>3, <1>5, <2>2, <2>4 DEF Closable
  <2>7. entry' \in [Slot -> DirEntry \cup {Nil}]
    BY Zenon, <1>4, <1>6
  <2>8. ~MemoryFails' => NamesUnique'
    BY <2>3 DEF MemoryFails, NamesUnique, Used, IInv
  <2>9. Dropped(s) /\ \A t \in DiskSector : Deniers(t)' = Deniers(t)
    BY <1>1, <2>1, CallCloses
  <2>. HIDE DEF s
  <2>10. \A t \in DiskSector : oi[t] # Nil => oi[t].deny_write_cnt = Cardinality(Deniers(t)')
    BY Zenon, <1>5, <2>2, <2>9
  <2>. QED  BY Zenon, <1>1, <1>2, <1>4, <2>1, <2>2, <2>4, <2>5, <2>6, <2>7, <2>8, <2>9, <2>10, ClosingInv
<1>7. CASE CloseThen(open_inodes, s, "dir_close") /\ UNCHANGED entry
  <2>1. /\ EntriesOK' /\ (~MemoryFails' => NamesUnique') /\ entry' \in [Slot -> DirEntry \cup {Nil}]
        /\ \A t \in DiskSector : HasEntry(t)' <=> HasEntry(t)
    BY Zenon, <1>4, <1>7, SameEntries, SameNames DEF IInv, FilesOK
  <2>2. Closable(open_inodes)
    BY <1>4, <1>5, <2>1 DEF Closable
  <2>3. Dropped(s) /\ \A t \in DiskSector : Deniers(t)' = Deniers(t)
    BY <1>1, <1>7, CallCloses
  <2>. HIDE DEF s
  <2>4. \A t \in DiskSector : open_inodes[t] # Nil => open_inodes[t].deny_write_cnt = Cardinality(Deniers(t)')
    BY Zenon, <1>5, <2>3
  <2>. QED  BY Zenon, <1>1, <1>2, <1>4, <1>7, <2>1, <2>2, <2>3, <2>4, ClosingInv
<1>. QED  BY <1>6, <1>7 DEF dir_remove

LEMMA SymlinkWriteInv ==
  ASSUME CountFacts, IInv, SymlinkWrite, UNCHANGED setting
  PROVE  IInv'
<1>. DEFINE s == call.sector
<1>1. /\ pc = "write_target" /\ UNCHANGED <<map_file, disk_inode, entry, free_map, file>>
      /\ CloseThen(open_inodes, s, "idle")
  BY DEF SymlinkWrite
<1>2. s \in DiskSector /\ open_inodes[s] # Nil
  <2>1. s \in DiskSector /\ InCall(s)
    BY <1>1 DEF IInv, CallTypeOK, CallRecord, InCall
  <2>. QED  BY <2>1, Referred DEF IInv
<1>3. content' \in [DiskSector -> Name \cup {Nil}]
  <2>1. call.target \in Name
    BY <1>1 DEF IInv, CallTypeOK, Linking
  <2>2. CASE inode_write_at(s, call.target)
    BY <1>2, <2>1, <2>2, WrittenTyped
  <2>3. CASE UNCHANGED content
    BY <2>3 DEF IInv, TypeOK
  <2>. QED  BY <2>2, <2>3 DEF SymlinkWrite
<1>4. /\ file' \in [Handle -> File \cup {Nil}] /\ open_inodes \in OpenTable
      /\ entry' \in [Slot -> DirEntry \cup {Nil}]
  BY <1>1 DEF IInv, TypeOK, OpenTable
<1>5. /\ EntriesOK' /\ (~MemoryFails' => NamesUnique')
      /\ \A t \in DiskSector : HasEntry(t)' <=> HasEntry(t)
  BY <1>1, SameEntries, SameNames DEF IInv, FilesOK
<1>6. \A t \in DiskSector : open_inodes[t] # Nil =>
        /\ open_inodes[t].data = disk_inode[t]
        /\ open_inodes[t].removed => ~HasEntry(t) /\ t \notin {FREE_MAP_SECTOR, ROOT_DIR_SECTOR}
        /\ open_inodes[t].deny_write_cnt = Cardinality(Deniers(t))
  BY DenyIs DEF IInv, FilesOK, OpenOK
<1>7. Closable(open_inodes)
  BY <1>4, <1>5, <1>6 DEF Closable
<1>8. Dropped(s) /\ \A t \in DiskSector : Deniers(t)' = Deniers(t)
  BY <1>1, CallCloses
<1>. HIDE DEF s
<1>9. \A t \in DiskSector : open_inodes[t] # Nil => open_inodes[t].deny_write_cnt = Cardinality(Deniers(t)')
  BY Zenon, <1>6, <1>8
<1>. QED  BY Zenon, <1>1, <1>2, <1>3, <1>4, <1>5, <1>7, <1>8, <1>9, ClosingInv

LEMMA SetSymlinkInv ==
  ASSUME CountFacts, IInv, inode_set_symlink, UNCHANGED setting
  PROVE  IInv'
<1>. DEFINE s == call.sector
            d == [open_inodes[s].data EXCEPT !.link = TRUE]
            r == [open_inodes[s] EXCEPT !.data = d]
<1>1. /\ pc = "set_symlink" /\ pc' = "write_target"
      /\ UNCHANGED <<map_file, entry, content, free_map, file, call>>
  BY DEF inode_set_symlink
<1>2. s \in DiskSector /\ open_inodes[s] # Nil
  <2>1. s \in DiskSector /\ InCall(s)
    BY <1>1 DEF IInv, CallTypeOK, CallRecord, InCall
  <2>. QED  BY <2>1, Referred DEF IInv
<1>3. open_inodes[s] \in OpenInode /\ open_inodes \in OpenTable
  BY <1>2 DEF IInv, TypeOK, OpenTable
<1>4. open_inodes[s].data \in InodeData
  BY <1>3 DEF OpenInode
<1>5. d \in InodeData /\ d.start = open_inodes[s].data.start /\ d.cnt = open_inodes[s].data.cnt
  BY Zenon, <1>4 DEF InodeData
<1>6. open_inodes' = [open_inodes EXCEPT ![s] = r]
  BY DEF inode_set_symlink
<1>. HIDE DEF d
<1>7. /\ r \in OpenInode /\ r.data = d /\ r.open_cnt = open_inodes[s].open_cnt
      /\ r.removed = open_inodes[s].removed /\ r.deny_write_cnt = open_inodes[s].deny_write_cnt
  BY <1>3, <1>5 DEF OpenInode
<1>8. r # Nil /\ d # Nil
  BY <1>5, <1>7, NilApart
<1>. HIDE DEF r
<1>9. /\ open_inodes' \in OpenTable /\ open_inodes'[s] = r
      /\ \A t \in DiskSector \ {s} : open_inodes'[t] = open_inodes[t]
  BY <1>2, <1>3, <1>6, <1>7 DEF OpenTable
<1>10. disk_inode' = [disk_inode EXCEPT ![s] = d]
  BY Zenon, <1>7, <1>9 DEF inode_set_symlink
<1>11. /\ disk_inode' \in [DiskSector -> InodeData \cup {Nil}] /\ disk_inode'[s] = d
       /\ \A t \in DiskSector \ {s} : disk_inode'[t] = disk_inode[t]
  BY <1>2, <1>5, <1>10 DEF IInv, TypeOK
<1>. HIDE DEF s
<1>12. open_inodes[s].data = disk_inode[s]
  BY Zenon, <1>2 DEF IInv, FilesOK, OpenOK
<1>13. s \notin {FREE_MAP_SECTOR, ROOT_DIR_SECTOR}
  BY ZenonT(60), <1>1 DEF IInv, CallApart, FilesOK, EntriesOK, HasEntry, NamedBy, s
<1>14. \A t \in DiskSector : /\ FileBlocks(t)' = FileBlocks(t) /\ DataBlocks(t)' = DataBlocks(t)
                             /\ Live(t)' <=> Live(t)
  <2>1. \A t \in DiskSector : disk_inode'[t].start = disk_inode[t].start /\ disk_inode'[t].cnt = disk_inode[t].cnt
    BY <1>5, <1>11, <1>12
  <2>2. \A t \in DiskSector : open_inodes'[t] # Nil <=> open_inodes[t] # Nil
    BY <1>2, <1>8, <1>9
  <2>. QED  BY Zenon, <1>1, <2>1, <2>2, SameEntries DEF FileBlocks, DataBlocks, Blocks, Live
<1>15. FilesOK'
  <2>1. FilesApart'
    <3>1. \A t \in DiskSector : Live(t)' =>
           /\ Live(t) /\ disk_inode'[t] # Nil
           /\ FileBlocks(t)' = FileBlocks(t) /\ DataBlocks(t)' = DataBlocks(t)
           /\ FileBlocks(t) \subseteq free_map'
      BY <1>1, <1>8, <1>11, <1>14 DEF IInv, FilesOK, FilesApart
    <3>. QED  BY <3>1, KeepFiles DEF IInv, FilesOK
  <2>2. SystemFiles'
    BY Zenon, <1>11, <1>13, SystemSectors DEF IInv, FilesOK, SystemFiles
  <2>3. EntriesOK' /\ \A t : HasEntry(t)' <=> HasEntry(t)
    BY Zenon, <1>1, SameEntries DEF IInv, FilesOK
  <2>4. OpenOK(open_inodes)'
    BY <1>2, <1>7, <1>9, <1>11, <2>3 DEF IInv, FilesOK, OpenOK
  <2>5. MapOnDisk'
    BY <1>1 DEF IInv, FilesOK, MapOnDisk
  <2>. QED  BY <2>1, <2>2, <2>3, <2>4, <2>5 DEF FilesOK
<1>16. CallTypeOK' /\ CallApart'
  BY Zenon, <1>1, NoCallBlocks DEF HoldsBlocks, Releasing, IInv, CallTypeOK, Links, Linking, Creating
<1>17. DenyWriteExact'
  <2>1. \A t \in DiskSector : Deniers(t)' = Deniers(t)
    BY <1>1 DEF Deniers
  <2>. QED  BY Zenon, <1>2, <1>7, <1>9, <2>1, DenyIs, DenyIsPrime DEF IInv
<1>18. Counted'
  <2>1. \A t \in DiskSector : Extra(t)' = Extra(t) /\ Openers(t)' = Openers(t)
    BY <1>1 DEF Extra, RootOpen, InCall, Openers, Creating, Releasing
  <2>2. \A t \in DiskSector : Cnt(open_inodes', t) = Cnt(open_inodes, t)
    BY <1>2, <1>7, <1>8, <1>9 DEF Cnt
  <2>3. Links' <=> Links
    BY DEF Links
  <2>. QED  BY <2>1, <2>2, <2>3 DEF IInv, Counted
<1>19. TypeOK'
  BY Zenon, <1>1, <1>9, <1>11 DEF IInv, TypeOK, OpenTable
<1>20. NoLinks' /\ (~MemoryFails' => NamesUnique')
  <2>1. Links'
    BY <1>1 DEF IInv, CallTypeOK, Linking, Links
  <2>. QED  BY <1>1, <2>1, SameNames DEF IInv, NoLinks
<1>. QED  BY <1>15, <1>16, <1>17, <1>18, <1>19, <1>20 DEF IInv

(* The inodes that are open after filesys_init(). *)
LEMMA BootedIs ==
  ASSUME disk_inode[FREE_MAP_SECTOR] \in InodeData
  PROVE  /\ Booted \in OpenTable
         /\ \A s \in DiskSector : /\ Booted[s] # Nil <=> s = FREE_MAP_SECTOR
                                  /\ Cnt(Booted, s) = IF s = FREE_MAP_SECTOR THEN 1 ELSE 0
         /\ Booted[FREE_MAP_SECTOR].data = disk_inode[FREE_MAP_SECTOR]
         /\ Booted[FREE_MAP_SECTOR].deny_write_cnt = 0
         /\ ~Booted[FREE_MAP_SECTOR].removed
<1>. DEFINE r == [open_cnt |-> 1, deny_write_cnt |-> 0, removed |-> FALSE,
                  data |-> disk_inode[FREE_MAP_SECTOR]]
<1>1. r \in OpenInode /\ r.open_cnt = 1 /\ r.deny_write_cnt = 0 /\ ~r.removed
      /\ r.data = disk_inode[FREE_MAP_SECTOR]
  BY DEF OpenInode
<1>2. Booted = [s \in DiskSector |-> IF s = FREE_MAP_SECTOR THEN r ELSE Nil]
  BY Zenon DEF Booted
<1>3. r # Nil
  BY Zenon, <1>1, NilApart
<1>. HIDE DEF r
<1>. QED  BY <1>1, <1>2, <1>3, SystemSectors DEF OpenTable, Cnt

(* No file is open, nothing is in progress. *)
LEMMA NothingOpen ==
  ASSUME CountFacts, file = [h \in Handle |-> Nil]
  PROVE  \A s : Openers(s) = {} /\ Deniers(s) = {} /\ Cardinality({}) = 0
  BY CountingNone DEF Openers, Deniers

LEMMA NothingOpenPrime ==
  ASSUME CountFacts, file' = [h \in Handle |-> Nil]
  PROVE  \A s : Openers(s)' = {} /\ Deniers(s)' = {} /\ Cardinality({}) = 0
  BY CountingNone DEF Openers, Deniers

LEMMA BootInv ==
  ASSUME CountFacts, IInv, filesys_init, UNCHANGED setting
  PROVE  IInv'
<1>1. /\ free_map' = map_file /\ open_inodes' = Booted /\ file' = [h \in Handle |-> Nil]
      /\ pc' = "idle" /\ call' = NoCall
      /\ UNCHANGED <<map_file, disk_inode, entry, content>>
  BY DEF filesys_init, Return, disk
<1>2. disk_inode[FREE_MAP_SECTOR] \in InodeData
  BY SystemSectors DEF IInv, TypeOK, FilesOK, FilesApart, Live
<1>3. /\ open_inodes' \in OpenTable
      /\ \A s \in DiskSector : /\ open_inodes'[s] # Nil <=> s = FREE_MAP_SECTOR
                               /\ Cnt(open_inodes', s) = IF s = FREE_MAP_SECTOR THEN 1 ELSE 0
      /\ open_inodes'[FREE_MAP_SECTOR].data = disk_inode[FREE_MAP_SECTOR]
      /\ open_inodes'[FREE_MAP_SECTOR].deny_write_cnt = 0
      /\ ~open_inodes'[FREE_MAP_SECTOR].removed
  BY <1>1, <1>2, BootedIs
<1>4. FilesOK'
  <2>1. \A s \in DiskSector : Live(s)' =>
           /\ Live(s) /\ disk_inode'[s] # Nil
           /\ FileBlocks(s)' = FileBlocks(s) /\ DataBlocks(s)' = DataBlocks(s)
           /\ FileBlocks(s) \subseteq free_map'
    <3>1. \A s \in DiskSector : Live(s)' => Live(s)
      BY <1>1, <1>3, SameEntries DEF Live
    <3>2. \A s \in DiskSector : FileBlocks(s)' = FileBlocks(s) /\ DataBlocks(s)' = DataBlocks(s)
      BY <1>1 DEF FileBlocks, DataBlocks, Blocks
    <3>. QED  BY Zenon, <1>1, <3>1, <3>2 DEF IInv, FilesOK, FilesApart, MapOnDisk
  <2>2. FilesApart'
    BY <2>1, KeepFiles DEF IInv, FilesOK
  <2>3. SystemFiles' /\ EntriesOK' /\ MapOnDisk'
    BY Zenon, <1>1, SameEntries DEF IInv, FilesOK, SystemFiles, MapOnDisk
  <2>4. OpenOK(open_inodes)'
    BY Zenon, <1>1, <1>3 DEF OpenOK
  <2>. QED  BY <2>2, <2>3, <2>4 DEF FilesOK
<1>5. TypeOK'
  BY <1>1, <1>3 DEF IInv, TypeOK, OpenTable
<1>6. CallTypeOK' /\ CallApart'
  BY <1>1, NoCallTyped, NoCallBlocks DEF HoldsBlocks, Releasing, Creating, Linking, CallTypeOK
<1>7. DenyWriteExact'
  BY Zenon, <1>1, <1>3, NothingOpenPrime, DenyIsPrime
<1>8. Counted'
  <2>1. \A s \in DiskSector : Extra(s)' = IF s = FREE_MAP_SECTOR THEN 1 ELSE 0
    BY <1>1, NoCallTyped DEF Extra, RootOpen, InCall, Creating, Releasing
  <2>2. \A s \in DiskSector : Cardinality(Openers(s)') = 0
    BY <1>1, NothingOpenPrime
  <2>3. \A s \in DiskSector : Cnt(open_inodes', s) = Cardinality(Openers(s)') + Extra(s)'
                              /\ Cnt(open_inodes', s) \in Nat
    BY <1>3, <2>1, <2>2
  <2>4. \A s \in DiskSector : Cnt(open_inodes', s) >= Cardinality(Openers(s)') + Extra(s)'
    BY <2>3
  <2>. QED  BY <2>3, <2>4 DEF Counted
<1>9. NoLinks' /\ (~MemoryFails' => NamesUnique')
  BY <1>1, SameLinks, SameNames DEF IInv
<1>. QED  BY ZenonT(60), <1>4, <1>5, <1>6, <1>7, <1>8, <1>9 DEF IInv

-----------------------------------------------------------------------------
(* The invariant holds.                                                    *)

LEMMA InitInv ==
  ASSUME CountFacts, Init
  PROVE  IInv
<1>1. /\ setting \in Setting /\ map_file = 0 .. 3 /\ free_map = 0 .. 3 /\ open_inodes = Booted
      /\ file = [h \in Handle |-> Nil] /\ pc = "idle" /\ call = NoCall
      /\ entry = [i \in Slot |-> Nil] /\ content = [s \in DiskSector |-> Nil]
      /\ disk_inode = [s \in DiskSector |->
                     CASE s = FREE_MAP_SECTOR -> DiskInode(2, 1, FALSE)
                       [] s = ROOT_DIR_SECTOR -> DiskInode(3, 1, FALSE)
                       [] OTHER -> Nil]
  BY DEF Init, do_format
<1>. DEFINE a == DiskInode(2, 1, FALSE)
            b == DiskInode(3, 1, FALSE)
<1>2. /\ a \in InodeData /\ a.start = 2 /\ a.cnt = 1 /\ ~a.link
      /\ b \in InodeData /\ b.start = 3 /\ b.cnt = 1 /\ ~b.link
  BY SizesAssumption DEF DiskInode, InodeData, DiskSector
<1>3. a # Nil /\ b # Nil
  BY Zenon, <1>2, NilApart
<1>. HIDE DEF a, b
<1>4. /\ disk_inode \in [DiskSector -> InodeData \cup {Nil}]
      /\ disk_inode[FREE_MAP_SECTOR] = a /\ disk_inode[ROOT_DIR_SECTOR] = b
      /\ \A s \in DiskSector : s \notin {FREE_MAP_SECTOR, ROOT_DIR_SECTOR} => disk_inode[s] = Nil
  <2>1. disk_inode = [s \in DiskSector |-> CASE s = FREE_MAP_SECTOR -> a
                                             [] s = ROOT_DIR_SECTOR -> b [] OTHER -> Nil]
    BY <1>1 DEF a, b
  <2>. QED  BY <1>2, <2>1, SystemSectors
<1>5. /\ open_inodes \in OpenTable
      /\ \A s \in DiskSector : /\ open_inodes[s] # Nil <=> s = FREE_MAP_SECTOR
                               /\ Cnt(open_inodes, s) = IF s = FREE_MAP_SECTOR THEN 1 ELSE 0
      /\ open_inodes[FREE_MAP_SECTOR].data = disk_inode[FREE_MAP_SECTOR]
      /\ open_inodes[FREE_MAP_SECTOR].deny_write_cnt = 0
      /\ ~open_inodes[FREE_MAP_SECTOR].removed
  BY Zenon, <1>1, <1>2, <1>4, BootedIs
<1>6. TypeOK
  <2>1. 0 .. 3 \subseteq DiskSector
    BY SizesAssumption DEF DiskSector
  <2>. QED  BY Zenon, <1>1, <1>4, <1>5, <2>1 DEF TypeOK, OpenTable
<1>7. FilesOK
  <2>1. \A s : ~HasEntry(s)
    BY <1>1 DEF HasEntry, NamedBy
  <2>2. \A s \in DiskSector : Live(s) => s \in {FREE_MAP_SECTOR, ROOT_DIR_SECTOR}
    BY <1>5, <2>1 DEF Live
  <2>3. /\ DataBlocks(FREE_MAP_SECTOR) = {2} /\ DataBlocks(ROOT_DIR_SECTOR) = {3}
        /\ FileBlocks(FREE_MAP_SECTOR) = {0, 2} /\ FileBlocks(ROOT_DIR_SECTOR) = {1, 3}
    BY <1>2, <1>4 DEF DataBlocks, FileBlocks, Blocks, Run, FREE_MAP_SECTOR, ROOT_DIR_SECTOR
  <2>4. FilesApart
    <3>1. \A s \in DiskSector : Live(s) =>
            \/ s = 0 /\ disk_inode[s] = a /\ DataBlocks(s) = {2} /\ FileBlocks(s) = {0, 2}
            \/ s = 1 /\ disk_inode[s] = b /\ DataBlocks(s) = {3} /\ FileBlocks(s) = {1, 3}
      BY <1>4, <2>2, <2>3 DEF FREE_MAP_SECTOR, ROOT_DIR_SECTOR
    <3>2. {0, 2} \subseteq free_map /\ {1, 3} \subseteq free_map
      BY <1>1
    <3>3. {0, 2} \cap {1, 3} = {} /\ {1, 3} \cap {0, 2} = {} /\ 0 \notin {2} /\ 1 \notin {3}
      OBVIOUS
    <3>. QED  BY Zenon, <1>3, <3>1, <3>2, <3>3 DEF FilesApart
  <2>5. SystemFiles
    BY <1>4 DEF SystemFiles, a, b
  <2>6. EntriesOK /\ OpenOK(open_inodes) /\ MapOnDisk
    BY Zenon, <1>1, <1>5 DEF EntriesOK, OpenOK, MapOnDisk
  <2>. QED  BY <2>4, <2>5, <2>6 DEF FilesOK
<1>8. CallTypeOK /\ CallApart
  <2>1. CallTypeOK
    BY Zenon, <1>1, NoCallTyped DEF CallTypeOK, Creating, Linking, Releasing
  <2>. QED  BY <1>1, <2>1 DEF CallApart, CallBlocks
<1>9. Counted /\ DenyWriteExact
  <2>1. \A s \in DiskSector : Extra(s) = IF s = FREE_MAP_SECTOR THEN 1 ELSE 0
    BY <1>1, NoCallTyped DEF Extra, RootOpen, InCall, Creating, Releasing
  <2>2. \A s \in DiskSector : Cardinality(Openers(s)) = 0 /\ Cardinality(Deniers(s)) = 0
    BY Zenon, <1>1, NothingOpen
  <2>3. \A s \in DiskSector : Cnt(open_inodes, s) = Cardinality(Openers(s)) + Extra(s)
                              /\ Cnt(open_inodes, s) \in Nat
    BY <1>5, <2>1, <2>2
  <2>4. \A s \in DiskSector : Cnt(open_inodes, s) >= Cardinality(Openers(s)) + Extra(s)
    BY <2>3
  <2>. QED  BY <1>5, <2>2, <2>3, <2>4, DenyIs DEF Counted
<1>10. NoLinks /\ NamesUnique
  <2>1. \A s \in DiskSector : disk_inode[s] # Nil => ~disk_inode[s].link
    BY <1>2, <1>4
  <2>. QED  BY Zenon, <1>1, <2>1 DEF NoLinks, NamesUnique, Used
<1>. QED  BY <1>6, <1>7, <1>8, <1>9, <1>10 DEF IInv

LEMMA StutterInv ==
  ASSUME IInv, UNCHANGED vars
  PROVE  IInv'
<1>. UNCHANGED <<setting, map_file, disk_inode, entry, content, free_map, open_inodes, file, pc, call>>
  BY DEF vars
<1>1. TypeOK' /\ CallTypeOK'
  <2>1. TypeOK'
    BY DEF IInv, TypeOK
  <2>2. CallTypeOK'
    BY Zenon DEF IInv, CallTypeOK, Links
  <2>. QED  BY <2>1, <2>2
<1>2. FilesOK' /\ CallApart'
  <2>1. /\ FilesOK'
        /\ \A s \in DiskSector : (Live(s)' <=> Live(s)) /\ (Live(s) => FileBlocks(s)' = FileBlocks(s))
    BY InodeFiles DEF IInv
  <2>2. CallBlocks' = CallBlocks
    BY DEF CallBlocks
  <2>3. /\ NamedBy(call.slot, call.sector)' <=> NamedBy(call.slot, call.sector)
        /\ HasEntry(call.sector)' <=> HasEntry(call.sector)
    BY DEF HasEntry, NamedBy
  <2>. QED  BY Zenon, <2>1, <2>2, <2>3 DEF IInv, CallApart
<1>3. Counted' /\ DenyWriteExact'
  <2>1. (RootOpen' <=> RootOpen) /\ \A s \in DiskSector : InCall(s)' <=> InCall(s)
    BY DEF RootOpen, InCall
  <2>. QED  BY <2>1, SameCounts DEF IInv
<1>4. NoLinks' /\ (~MemoryFails' => NamesUnique')
  BY SameNames DEF IInv, NoLinks, Links
<1>. QED  BY <1>1, <1>2, <1>3, <1>4 DEF IInv

LEMMA NextInv ==
  ASSUME CountFacts, IInv, [Next]_vars
  PROVE  IInv'
<1>1. CASE UNCHANGED vars
  BY <1>1, StutterInv
<1>2. CASE Call /\ UNCHANGED setting
  <2>1. Size \subseteq Nat
    BY SizesAssumption DEF Size, IInv, TypeOK
  <2>2. ASSUME NEW n \in Name, \E cnt \in Size : filesys_create(n, cnt)
        PROVE  IInv'
    BY <1>2, <2>1, <2>2, CreateInv
  <2>3. ASSUME NEW n \in Name, filesys_remove(n)
        PROVE  IInv'
    BY <1>2, <2>3, RemoveInv
  <2>4. ASSUME NEW n \in Name, \E t \in Name : filesys_symlink(t, n)
        PROVE  IInv'
    BY <1>2, <2>4, SymlinkInv
  <2>5. ASSUME NEW n \in Name, NEW h \in Handle, OpenFile(n, h)
        PROVE  IInv'
    BY <1>2, <2>5, OpenFileInv
  <2>6. ASSUME NEW n \in Name, NEW h \in Handle, file_write(h, n)
        PROVE  IInv'
    BY <1>2, <2>6, WriteInv
  <2>7. ASSUME NEW h \in Handle, NEW g \in Handle, file_reopen(h, g)
        PROVE  IInv'
    BY <1>2, <2>7, ReopenInv
  <2>8. ASSUME NEW h \in Handle, file_deny_write(h) \/ file_allow_write(h) \/ file_close(h)
        PROVE  IInv'
    BY Zenon, <1>2, <2>8, DenyWriteInv, AllowWriteInv, CloseInv
  <2>. QED  BY Zenon, <1>2, <2>2, <2>3, <2>4, <2>5, <2>6, <2>7, <2>8 DEF Call
<1>3. CASE Step /\ UNCHANGED setting
  BY Zenon, <1>3, CreateAllocateInv, InodeCreateInv, WriteInodeInv, WriteZerosInv, DirAddInv, CreateUndoInv,
     DirCloseInv, ReleaseInodeInv, ReleaseDataInv, DirRemoveInv, SymlinkOpenInv, SetSymlinkInv,
     SymlinkWriteInv DEF Step
<1>4. CASE filesys_init /\ UNCHANGED setting
  BY Zenon, <1>4, BootInv
<1>. QED  BY <1>1, <1>2, <1>3, <1>4 DEF Next

-----------------------------------------------------------------------------
(* What the invariant says of the disk, of the open files and of the calls. *)

LEMMA EntryFiles ==
  ASSUME IInv, NEW i \in Used
  PROVE  /\ entry[i].inode_sector \in DiskSector /\ Live(entry[i].inode_sector)
         /\ EntryBlocks(i) = FileBlocks(entry[i].inode_sector)
<1>1. i \in Slot /\ entry[i] # Nil
  BY Zenon DEF Used
<1>2. entry[i].inode_sector \in DiskSector
  BY ZenonT(60), <1>1 DEF IInv, TypeOK, DirEntry
<1>. QED  BY <1>1, <1>2 DEF Live, HasEntry, NamedBy, EntryBlocks, FileBlocks

LEMMA DeniedFile ==
  ASSUME CountFacts, IInv, NEW h \in Handle, file[h] # Nil, file[h].deny_write, NEW s, s = file[h].inode
  PROVE  /\ s \in DiskSector /\ Live(s) /\ open_inodes[s].data = disk_inode[s]
         /\ open_inodes[s].deny_write_cnt # 0
         /\ DataBlocks(s) \subseteq FileBlocks(s)
<1>1. s \in DiskSector /\ open_inodes[s] # Nil
  BY HandleInode
<1>2. open_inodes[s].data = disk_inode[s] /\ Live(s)
  BY <1>1 DEF IInv, FilesOK, OpenOK, Live
<1>3. open_inodes[s].deny_write_cnt # 0
  <2>1. h \in Deniers(s) /\ Deniers(s) \in SUBSET Handle
    BY DEF Deniers
  <2>2. Cardinality(Deniers(s)) # 0
    BY <2>1, Counting
  <2>. QED  BY <1>1, <2>2, DeniersBound
<1>. QED  BY Zenon, <1>1, <1>2, <1>3 DEF DataBlocks, FileBlocks, Blocks

(* inode_write_at() reaches no sector of another file, and none of a file  *)
(* that denies writes.                                                     *)
LEMMA WriteKept ==
  ASSUME CountFacts, IInv, NEW h \in Handle, file[h] # Nil, file[h].deny_write, NEW s, s = file[h].inode,
         NEW t \in DiskSector, open_inodes[t] # Nil, NEW v, inode_write_at(t, v)
  PROVE  \A b \in DataBlocks(s) : content'[b] = content[b]
<1>1. CASE t = s
  BY ZenonT(60), <1>1, DeniedFile DEF inode_write_at
<1>2. CASE t # s
  <2>1. /\ s \in DiskSector /\ Live(s) /\ Live(t) /\ open_inodes[t].data = disk_inode[t]
        /\ DataBlocks(s) \subseteq FileBlocks(s)
    BY Zenon, DeniedFile DEF Live, IInv, FilesOK, OpenOK
  <2>2. FileBlocks(s) \cap FileBlocks(t) = {}
    BY Zenon, <1>2, <2>1 DEF IInv, FilesOK, FilesApart
  <2>3. disk_inode[t].start \in DiskSector /\ disk_inode[t].cnt \in Nat
    <3>1. open_inodes[t].data \in InodeData
      BY Zenon DEF IInv, TypeOK, OpenInode
    <3>. QED  BY Zenon, <2>1, <3>1 DEF InodeData
  <2>4. disk_inode[t].cnt > 0 => disk_inode[t].start \in FileBlocks(t)
    BY SMTT(30), <2>3 DEF FileBlocks, Blocks, Run, DiskSector
  <2>5. content' = content \/ (/\ disk_inode[t].cnt > 0
                               /\ content' = [content EXCEPT ![disk_inode[t].start] = v])
    BY ZenonT(60), <2>1 DEF inode_write_at
  <2>6. content \in [DiskSector -> Name \cup {Nil}] /\ DataBlocks(s) \subseteq DiskSector
    BY <2>1 DEF IInv, TypeOK, FilesOK, FilesApart
  <2>. QED  BY ZenonT(60), <2>1, <2>2, <2>3, <2>4, <2>5, <2>6
<1>. QED  BY Zenon, <1>1, <1>2

LEMMA NextKept ==
  ASSUME CountFacts, IInv, Next
  PROVE  DeniedKept
<1>. SUFFICES ASSUME NEW h \in Handle, file[h] # Nil, file[h].deny_write, file'[h] = file[h]
              PROVE  LET d == open_inodes[file[h].inode].data
                     IN \A b \in Run(d.start, d.cnt) : content'[b] = content[b]
  BY Zenon DEF DeniedKept
<1>. DEFINE s == file[h].inode
<1>1. /\ s \in DiskSector /\ Live(s) /\ open_inodes[s].data = disk_inode[s]
      /\ DataBlocks(s) \subseteq FileBlocks(s)
  BY Zenon, DeniedFile
<1>. SUFFICES \A b \in DataBlocks(s) : content'[b] = content[b]
  BY Zenon, <1>1 DEF DataBlocks
<1>2. DataBlocks(s) \cap CallBlocks = {}
  BY ZenonT(60), <1>1 DEF IInv, CallApart
<1>3. content \in [DiskSector -> Name \cup {Nil}] /\ DataBlocks(s) \subseteq DiskSector
  BY <1>1 DEF IInv, TypeOK, FilesOK, FilesApart
<1>. HIDE DEF s
<1>4. CASE WriteInode
  <2>1. call.sector \in CallBlocks /\ content' = [content EXCEPT ![call.sector] = Nil]
    BY Zenon, <1>4 DEF WriteInode, CallBlocks
  <2>. QED  BY Zenon, <1>2, <1>3, <2>1
<1>5. CASE WriteZeros
  <2>1. Run(call.start, call.cnt) \subseteq CallBlocks
        /\ content' = Zeroed(content, Run(call.start, call.cnt))
    BY Zenon, <1>5 DEF WriteZeros, CallBlocks
  <2>. QED  BY Zenon, <1>2, <1>3, <2>1 DEF Zeroed
<1>6. ASSUME NEW g \in Handle, NEW v \in Name, file_write(g, v)
      PROVE  \A b \in DataBlocks(s) : content'[b] = content[b]
  <2>1. file[g] # Nil /\ inode_write_at(file[g].inode, v)
    BY Zenon, <1>6 DEF file_write
  <2>2. file[g].inode \in DiskSector /\ open_inodes[file[g].inode] # Nil
    BY <2>1, HandleInode
  <2>. QED  BY SMTT(30), <2>1, <2>2, WriteKept DEF s
<1>7. CASE SymlinkWrite
  <2>1. call.sector \in DiskSector /\ InCall(call.sector)
    BY Zenon, <1>7 DEF SymlinkWrite, IInv, CallTypeOK, CallRecord, InCall
  <2>2. open_inodes[call.sector] # Nil
    BY Zenon, <2>1, Referred DEF IInv
  <2>3. CASE inode_write_at(call.sector, call.target)
    BY Zenon, <2>1, <2>2, <2>3, WriteKept DEF s
  <2>. QED  BY Zenon, <1>7, <2>3 DEF SymlinkWrite
<1>8. CASE UNCHANGED content
  BY <1>8
<1>9. \/ WriteInode \/ WriteZeros \/ SymlinkWrite \/ UNCHANGED content
      \/ \E g \in Handle, v \in Name : file_write(g, v)
  <2>1. CASE Call
    BY Zenon, <2>1 DEF Call, filesys_create, filesys_remove, filesys_symlink, OpenFile, file_reopen,
                file_deny_write, file_allow_write, file_close, disk
  <2>2. CASE Step
    BY <2>2 DEF Step, CreateAllocate, inode_create, dir_add, CreateUndo, dir_close, ReleaseInode,
                ReleaseData, dir_remove, SymlinkOpen, inode_set_symlink, disk
  <2>3. CASE filesys_init
    BY <2>3 DEF filesys_init, disk
  <2>. QED  BY <2>1, <2>2, <2>3 DEF Next
<1>. QED  BY Zenon, <1>4, <1>5, <1>6, <1>7, <1>8, <1>9

-----------------------------------------------------------------------------
(* Counting                                                                *)

LOCAL F == INSTANCE FiniteSetTheorems

(* The library's facts are about these operators. *)
LEMMA SameCounting ==
  ASSUME NEW S
  PROVE  Cardinality(S) = F!Cardinality(S) /\ (IsFiniteSet(S) <=> F!IsFiniteSet(S))
<1>1. Cardinality(S) = F!Cardinality(S)
  BY DEF Cardinality, F!Cardinality
<1>2. IsFiniteSet(S) <=> F!IsFiniteSet(S)
  BY DEF IsFiniteSet, F!IsFiniteSet
<1>. QED  BY Zenon, <1>1, <1>2

(* Handles are finitely many, so that any set of them can be counted. *)
LEMMA CountingHolds == CountFacts
<1>1. Cardinality({}) = 0
  BY Zenon, F!FS_EmptySet, SameCounting
<1>2. ASSUME NEW S \in SUBSET Handle
      PROVE  /\ Cardinality(S) \in Nat
             /\ Cardinality(S) = 0 => S = {}
             /\ \A h \in Handle \ S : Cardinality(S \cup {h}) = Cardinality(S) + 1
             /\ \A h \in S : Cardinality(S \ {h}) = Cardinality(S) - 1
             /\ \A T \in SUBSET S : Cardinality(T) <= Cardinality(S)
  <2>0. F!IsFiniteSet(Handle)
    BY Zenon, SizesAssumption, SameCounting
  <2>1. F!IsFiniteSet(S) /\ \A T \in SUBSET S : F!Cardinality(T) <= F!Cardinality(S)
    BY Zenon, <2>0, F!FS_Subset
  <2>2. F!Cardinality(S) \in Nat /\ (F!Cardinality(S) = 0 => S = {})
    BY Zenon, <2>1, F!FS_CardinalityType, F!FS_EmptySet
  <2>3. \A h \in Handle \ S : F!Cardinality(S \cup {h}) = F!Cardinality(S) + 1
    BY Zenon, <2>1, F!FS_AddElement
  <2>4. \A h \in S : F!Cardinality(S \ {h}) = F!Cardinality(S) - 1
    BY Zenon, <2>1, F!FS_RemoveElement
  <2>5. \A T : F!Cardinality(T) = Cardinality(T)
    BY Zenon, SameCounting
  <2>6. /\ Cardinality(S) \in Nat
        /\ Cardinality(S) = 0 => S = {}
    BY Zenon, <2>2, <2>5
  <2>7. /\ \A h \in Handle \ S : Cardinality(S \cup {h}) = Cardinality(S) + 1
        /\ \A h \in S : Cardinality(S \ {h}) = Cardinality(S) - 1
        /\ \A T \in SUBSET S : Cardinality(T) <= Cardinality(S)
    BY Zenon, <2>1, <2>3, <2>4, <2>5
  <2>. QED  BY Zenon, <2>6, <2>7
<1>. QED  BY Zenon, <1>1, <1>2 DEF CountFacts

-----------------------------------------------------------------------------
(* The theorems                                                            *)

LEMMA Invariant == Spec => []IInv
<1>1. Init => IInv
  BY Zenon, InitInv, CountingHolds
<1>2. IInv /\ [Next]_vars => IInv'
  BY NextInv, CountingHolds
<1>. QED  BY <1>1, <1>2, PTL DEF Spec

(* In every image a power failure can leave, whatever the sizes of the     *)
(* disk and of the directory, with links or without and wherever an        *)
(* allocation fails, an entry of the directory names an inode that was     *)
(* written, whose sectors are marked in the free map file and belong to no *)
(* other file; and every sector in use in memory is marked in that file.   *)
THEOREM CrashConsistent == Spec => []ImagesConsistent
<1>1. IInv => ImagesConsistent
  <2>. SUFFICES ASSUME IInv PROVE ImagesConsistent
    OBVIOUS
  <2>1. MapOnDisk
    BY Zenon DEF IInv, FilesOK
  <2>2. ASSUME NEW i \in Used
        PROVE  /\ disk_inode[entry[i].inode_sector] # Nil
               /\ EntryBlocks(i) \subseteq map_file \ SystemBlocks
               /\ \A j \in Used \ {i} : EntryBlocks(i) \cap EntryBlocks(j) = {}
    <3>. DEFINE s == entry[i].inode_sector
    <3>1. s \in DiskSector /\ Live(s) /\ EntryBlocks(i) = FileBlocks(s)
      BY Zenon, EntryFiles
    <3>2. /\ s \notin {FREE_MAP_SECTOR, ROOT_DIR_SECTOR}
          /\ \A j \in Used \ {i} : entry[j].inode_sector # s
      BY Zenon DEF IInv, FilesOK, EntriesOK, NamedBy, Used
    <3>3. /\ disk_inode[s] # Nil /\ FileBlocks(s) \subseteq free_map
          /\ \A t \in DiskSector : Live(t) /\ t # s => FileBlocks(s) \cap FileBlocks(t) = {}
      BY Zenon, <3>1 DEF IInv, FilesOK, FilesApart
    <3>4. SystemBlocks = FileBlocks(FREE_MAP_SECTOR) \cup FileBlocks(ROOT_DIR_SECTOR)
          /\ Live(FREE_MAP_SECTOR) /\ Live(ROOT_DIR_SECTOR)
      BY Zenon DEF SystemBlocks, FileBlocks, Live
    <3>5. FileBlocks(s) \cap SystemBlocks = {}
      BY Zenon, <3>2, <3>3, <3>4, SystemSectors
    <3>6. \A j \in Used \ {i} : EntryBlocks(i) \cap EntryBlocks(j) = {}
      BY Zenon, <3>1, <3>2, <3>3, EntryFiles
    <3>. QED  BY Zenon, <2>1, <3>1, <3>3, <3>5, <3>6 DEF MapOnDisk
  <2>. QED  BY <2>1, <2>2 DEF ImagesConsistent, DiskConsistent
<1>. QED  BY <1>1, Invariant, PTL

(* Without symbolic links every inode is open exactly as often as there    *)
(* are files open on it, and no assertion of the file system fails; where  *)
(* no allocation fails, no two entries of the directory have one name.     *)
THEOREM CallsSound == Spec => []CallsExact
<1>1. IInv => CallsExact
  <2>. SUFFICES ASSUME IInv PROVE CallsExact
    OBVIOUS
  <2>1. ASSUME ~Links, pc = "idle", NEW s \in DiskSector
        PROVE  LET openers == Cardinality({h \in Handle : file[h] # Nil /\ file[h].inode = s})
                                + (IF s = FREE_MAP_SECTOR THEN 1 ELSE 0)
               IN IF openers = 0 THEN open_inodes[s] = Nil
                  ELSE open_inodes[s] # Nil /\ open_inodes[s].open_cnt = openers
    <3>1. Extra(s) = IF s = FREE_MAP_SECTOR THEN 1 ELSE 0
      BY SMTT(30), <2>1 DEF Extra, RootOpen, InCall, Creating, Releasing
    <3>2. Cnt(open_inodes, s) = Cardinality(Openers(s)) + (IF s = FREE_MAP_SECTOR THEN 1 ELSE 0)
      BY Zenon, <2>1, <3>1 DEF IInv, Counted
    <3>3. /\ open_inodes[s] = Nil => Cnt(open_inodes, s) = 0
          /\ open_inodes[s] # Nil => Cnt(open_inodes, s) = open_inodes[s].open_cnt
                                     /\ open_inodes[s].open_cnt \in Nat \ {0}
      BY DEF Cnt, IInv, TypeOK, OpenInode
    <3>. QED  BY Zenon, <3>2, <3>3 DEF Openers
  <2>2. ~Links => OpenCntExact
    BY Zenon, <2>1 DEF OpenCntExact
  <2>3. ~Links => CallsReturn
    BY DEF IInv, NoLinks, CallsReturn
  <2>. QED  BY Zenon, <2>2, <2>3 DEF CallsExact, IInv
<1>. QED  BY <1>1, Invariant, PTL

(* A file that is open, even if it was removed since, keeps its sectors to *)
(* itself; its deny_write_cnt is the number of open files that deny writes *)
(* to it, and while there is one no step changes its contents.             *)
THEOREM OpenFilesSafe == Spec => OpenFilesKept
<1>1. IInv => TypeOK /\ OpenFilesKeepBlocks /\ DenyWriteExact
  <2>. SUFFICES ASSUME IInv PROVE OpenFilesKeepBlocks
    BY DEF IInv
  <2>1. ASSUME NEW h \in Handle, file[h] # Nil
        PROVE  LET s == file[h].inode
               IN /\ s \in DiskSector /\ open_inodes[s] # Nil /\ Live(s)
                  /\ open_inodes[s].data = disk_inode[s]
                  /\ Blocks(s, disk_inode[s]) = FileBlocks(s)
    <3>1. file[h].inode \in DiskSector /\ open_inodes[file[h].inode] # Nil
      BY Zenon, <2>1, HandleInode, CountingHolds
    <3>. QED  BY Zenon, <3>1 DEF Live, FileBlocks, IInv, FilesOK, OpenOK
  <2>2. \A s, t \in DiskSector : Live(s) /\ Live(t) /\ s # t =>
          FileBlocks(s) \subseteq free_map /\ FileBlocks(t) \cap FileBlocks(s) = {}
    BY DEF IInv, FilesOK, FilesApart
  <2>3. \A s \in DiskSector : Live(s) => FileBlocks(s) \subseteq free_map
    BY DEF IInv, FilesOK, FilesApart
  <2>4. \A i \in Used : /\ entry[i].inode_sector \in DiskSector /\ Live(entry[i].inode_sector)
                        /\ EntryBlocks(i) = FileBlocks(entry[i].inode_sector)
    BY EntryFiles
  <2>. QED  BY Zenon, <2>1, <2>2, <2>3, <2>4, Zenon DEF OpenFilesKeepBlocks
<1>2. IInv /\ [Next]_vars => [DeniedKept]_vars
  BY NextKept, CountingHolds
<1>. QED  BY <1>1, <1>2, Invariant, PTL DEF Spec, OpenFilesKept
=============================================================================
